---------------------------- MODULE SemaphoreProofs ---------------------------
(***************************************************************************)
(* The semaphores of the kernel are counting semaphores: the scheduler     *)
(* implements Semaphores, for every number of processes and semaphores and *)
(* every width of the counter.  The invariant of the queues provides what  *)
(* the refinement needs: a process waits on one list at most, and only     *)
(* where no units are left.                                                *)
(***************************************************************************)
EXTENDS SchedProofs

\* The refinement mapping.
Open    == {s \in Sems : sem_init[s] = 1}
Value   == [s \in Sems |-> sem_value(s)]
Waiting == [s \in Sems |-> Range(wait_list[s])]

\* A step that leaves the semaphores alone is a stutter.
LEMMA SemStutter ==
    ASSUME UNCHANGED <<wait_list, sem_count, sem_init>>
    PROVE  UNCHANGED Dijkstra!vars
BY DEF Dijkstra!vars, sem_value

\* A step of Dijkstra's semaphores, written with the mapping.
LEMMA SemAction ==
    ASSUME NEW n \in Sems,
           \/ \E v \in 0 .. UINT_SPAN - 1 :
                 /\ n \notin Open
                 /\ Open' = Open \cup {n}
                 /\ Value' = [Value EXCEPT ![n] = v]
                 /\ Waiting' = Waiting
           \/ \E t \in Slots :
                 /\ n \in Open
                 /\ \A r \in Sems : t \notin Waiting[r]
                 /\ Value' = [Value EXCEPT ![n] = Value[n] - 1]
                 /\ Waiting' = IF Value[n] > 0 THEN Waiting
                               ELSE [Waiting EXCEPT ![n] = Waiting[n] \cup {t}]
                 /\ Open' = Open
           \/ /\ n \in Open
              /\ \/ /\ Value[n] < 0
                    /\ Value' = [Value EXCEPT ![n] = Value[n] + 1]
                    /\ \E t \in Waiting[n] : Waiting' = [Waiting EXCEPT ![n] = Waiting[n] \ {t}]
                 \/ /\ Value[n] >= 0
                    /\ Value' = [Value EXCEPT ![n] = (Value[n] + 1) % UINT_SPAN]
                    /\ Waiting' = Waiting
              /\ Open' = Open
           \/ /\ n \in Open
              /\ Open' = Open \ {n}
              /\ Value' = [Value EXCEPT ![n] = 0]
              /\ Waiting' = [Waiting EXCEPT ![n] = {}]
    PROVE  Dijkstra!Next
<1>1. \/ \E v \in 0 .. UINT_SPAN - 1 : Dijkstra!create(n, v)
      \/ \E t \in Slots : Dijkstra!P(n, t)
      \/ Dijkstra!V(n)
      \/ Dijkstra!destroy(n)
  BY Zenon DEF Dijkstra!create, Dijkstra!P, Dijkstra!V, Dijkstra!destroy, Open, Value, Waiting
<1> QED
  BY <1>1 DEF Dijkstra!Next

\* Unlinking the first shortens a queue by one.
LEMMA DelLength ==
    ASSUME NEW S, NEW q \in Seq(S), q # <<>>
    PROVE  Len(list_del(q, Head(q))) = Len(q) - 1
<1>1. Head(q) \in Range(q) /\ Len(q) \in Nat /\ Len(q) # 0
  BY First
<1> DEFINE k == CHOOSE k \in 1 .. Len(q) : q[k] = Head(q)
           d == [i \in 1 .. Len(q) - 1 |-> IF i < k THEN q[i] ELSE q[i + 1]]
<1>2. list_del(q, Head(q)) = d
  BY <1>1 DEF list_del
<1>3. Len(q) - 1 \in Nat /\ DOMAIN d = 1 .. Len(q) - 1
  BY <1>1
<1> HIDE DEF d
<1>4. \A i \in 1 .. Len(q) - 1 : d[i] \in S
  <2>1. \A i \in 1 .. Len(q) - 1 : q[i] \in S /\ q[i + 1] \in S
    BY <1>1
  <2> QED
    BY <2>1 DEF d
<1>5. d \in Seq(S) /\ Len(d) = Len(q) - 1
  <2>1. d = [i \in 1 .. Len(q) - 1 |-> d[i]]
    BY DEF d
  <2>2. d \in [1 .. Len(q) - 1 -> S]
    BY <1>4, <2>1
  <2> QED
    BY <1>3, <2>2
<1> QED
  BY <1>2, <1>5

\* What the values and the waiters are, where the invariant holds.
LEMMA SemState ==
    ASSUME QueueInv, NEW s \in Sems
    PROVE  /\ Waiting[s] = Range(wait_list[s])
           /\ Waiting[s] \subseteq Slots
           /\ Value[s] = IF sem_init[s] = 1 THEN sem_count[s] - Len(wait_list[s]) ELSE 0
           /\ Len(wait_list[s]) \in Nat
           /\ wait_list[s] = <<>> <=> Len(wait_list[s]) = 0
           /\ wait_list[s] # <<>> => sem_init[s] = 1 /\ sem_count[s] = 0
           /\ sem_count[s] \in 0 .. UINT_SPAN - 1
           /\ Value[s] \in Int
<1>1. wait_list[s] \in Seq(Slots) /\ sem_count[s] \in 0 .. UINT_SPAN - 1
  BY DEF QueueInv, TypeOK
<1>2. Range(wait_list[s]) \subseteq Slots
  BY <1>1, First
<1>3. sem_count[s] \in Int
  BY <1>1, SchedAssumption
<1> QED
  BY <1>1, <1>2, <1>3 DEF Waiting, Value, sem_value, QueueInv, NoLostWakeup

\* sys_sem_init is create.
LEMMA InitCreates ==
    ASSUME QueueInv, NEW n \in SemArgs, NEW v \in SemValues, sys_sem_init(n, v)
    PROVE  [Dijkstra!Next]_(Dijkstra!vars)
<1>1. CASE UNCHANGED semVars
  BY <1>1, SemStutter DEF semVars
<1>2. CASE /\ n \in Sems /\ ~Initialised(n)
           /\ sem_count' = [sem_count EXCEPT ![n] = v]
           /\ sem_init' = [sem_init EXCEPT ![n] = 1]
           /\ wait_list' = [wait_list EXCEPT ![n] = <<>>]
  <2>1. /\ sem_init \in [Sems -> {0, 1}]
        /\ sem_count \in [Sems -> 0 .. UINT_SPAN - 1]
        /\ wait_list \in [Sems -> Seq(Slots)]
    BY DEF QueueInv, TypeOK
  <2>2. sem_init[n] # 1 /\ n \in Sems
    BY <1>2 DEF Initialised
  <2>3. wait_list[n] = <<>>
    BY <2>2, SemState
  <2>4. wait_list' = wait_list
    BY <1>2, <2>1, <2>2, <2>3
  <2>5. v \in 0 .. UINT_SPAN - 1
    BY SchedAssumption
  <2>6. Open' = Open \cup {n} /\ n \notin Open
    BY <1>2, <2>1, <2>2 DEF Open
  <2>7. Waiting' = Waiting
    BY <2>4 DEF Waiting
  <2>8. Value' = [Value EXCEPT ![n] = v]
    <3>1. Value'[n] = v - Len(<<>>)
      BY <1>2, <2>1, <2>2, <2>3, <2>4 DEF Value, sem_value
    <3>2. v - Len(<<>>) = v
      BY <2>5, SchedAssumption
    <3>3. \A s \in Sems : s # n => Value'[s] = Value[s]
      BY <1>2, <2>1, <2>4 DEF Value, sem_value
    <3> QED
      BY <2>2, <3>1, <3>2, <3>3 DEF Value
  <2> QED
    BY <2>2, <2>5, <2>6, <2>7, <2>8, SemAction
<1> QED
  BY <1>1, <1>2, Zenon DEF sys_sem_init

\* sys_sem_wait is P: the running process waits nowhere.
LEMMA WaitIsP ==
    ASSUME QueueInv, NEW n \in SemArgs, sys_sem_wait(n)
    PROVE  [Dijkstra!Next]_(Dijkstra!vars)
<1>1. sem_init' = sem_init
  BY DEF sys_sem_wait
<1>2. current \in Slots /\ \A r \in Sems : current \notin Waiting[r]
  <2>1. current \in Live /\ current \in Slots
    BY DEF sys_sem_wait, Running, Live, QueueInv, TypeOK
  <2>2. current \in Range(runqueue)
    BY <2>1, First DEF QueueInv, CurrentFirst, TypeOK
  <2> QED
    BY <2>1, <2>2 DEF QueueInv, QueuesExact, Waiting
<1>3. /\ sem_init \in [Sems -> {0, 1}]
      /\ sem_count \in [Sems -> 0 .. UINT_SPAN - 1]
      /\ wait_list \in [Sems -> Seq(Slots)]
  BY DEF QueueInv, TypeOK
<1>4. CASE UNCHANGED <<wait_list, sem_count>>
  BY <1>1, <1>4, SemStutter
<1>5. Open' = Open
  BY <1>1 DEF Open
<1>6. CASE /\ Initialised(n) /\ sem_count[n] > 0
           /\ sem_count' = [sem_count EXCEPT ![n] = @ - 1]
           /\ wait_list' = wait_list
  <2>1. n \in Sems /\ sem_init[n] = 1 /\ n \in Open
    BY <1>6 DEF Initialised, Open
  <2>2. Value[n] > 0 /\ Value[n] = sem_count[n] /\ Len(wait_list[n]) = 0
    BY <1>6, <2>1, SemState, SchedAssumption
  <2>3. Value' = [Value EXCEPT ![n] = Value[n] - 1]
    <3>1. Value'[n] = sem_count[n] - 1 - Len(wait_list[n])
      BY <1>1, <1>3, <1>6, <2>1 DEF Value, sem_value
    <3>2. Value'[n] = Value[n] - 1
      BY <2>1, <2>2, <3>1, SemState
    <3>3. \A s \in Sems : s # n => Value'[s] = Value[s]
      BY <1>1, <1>3, <1>6 DEF Value, sem_value
    <3> QED
      BY <2>1, <3>2, <3>3 DEF Value
  <2>4. Waiting' = IF Value[n] > 0 THEN Waiting ELSE [Waiting EXCEPT ![n] = Waiting[n] \cup {current}]
    BY <1>6, <2>2 DEF Waiting
  <2> QED
    BY <1>2, <1>5, <2>1, <2>3, <2>4, SemAction
<1>7. CASE /\ Initialised(n) /\ sem_count[n] <= 0
           /\ sem_count' = sem_count
           /\ wait_list' = [wait_list EXCEPT ![n] = list_add_tail(@, current)]
  <2>1. n \in Sems /\ sem_init[n] = 1 /\ n \in Open
    BY <1>7 DEF Initialised, Open
  <2>2. sem_count[n] = 0 /\ Value[n] = 0 - Len(wait_list[n]) /\ Len(wait_list[n]) \in Nat
    BY <1>7, <2>1, SemState, SchedAssumption
  <2>3. /\ Len(wait_list'[n]) = Len(wait_list[n]) + 1
        /\ Range(wait_list'[n]) = Range(wait_list[n]) \cup {current}
    <3>1. wait_list'[n] = Append(wait_list[n], current) /\ wait_list[n] \in Seq(Slots)
      BY <1>3, <1>7, <2>1 DEF list_add_tail
    <3> QED
      BY <1>2, <3>1, AddTail DEF list_add_tail
  <2>4. \A s \in Sems : s # n => wait_list'[s] = wait_list[s]
    BY <1>3, <1>7, <2>1
  <2>5. Value' = [Value EXCEPT ![n] = Value[n] - 1]
    <3>1. Value'[n] = sem_count[n] - Len(wait_list'[n])
      BY <1>1, <1>7, <2>1 DEF Value, sem_value
    <3>2. Value'[n] = Value[n] - 1
      BY <2>2, <2>3, <3>1
    <3>3. \A s \in Sems : s # n => Value'[s] = Value[s]
      BY <1>1, <1>7, <2>4 DEF Value, sem_value
    <3> QED
      BY <2>1, <3>2, <3>3 DEF Value
  <2>6. Waiting' = [Waiting EXCEPT ![n] = Waiting[n] \cup {current}]
    BY <2>1, <2>3, <2>4 DEF Waiting
  <2>7. ~(Value[n] > 0)
    BY <2>2
  <2> QED
    BY <1>2, <1>5, <2>1, <2>5, <2>6, <2>7, SemAction
<1> QED
  BY <1>4, <1>6, <1>7, Zenon DEF sys_sem_wait, sem_block

\* sys_sem_signal is V: the unit goes to the first waiter or to the counter.
LEMMA SignalIsV ==
    ASSUME QueueInv, NEW n \in SemArgs, sys_sem_signal(n)
    PROVE  [Dijkstra!Next]_(Dijkstra!vars)
<1>1. sem_init' = sem_init /\ Open' = Open
  BY DEF sys_sem_signal, Open
<1>2. /\ sem_init \in [Sems -> {0, 1}]
      /\ sem_count \in [Sems -> 0 .. UINT_SPAN - 1]
      /\ wait_list \in [Sems -> Seq(Slots)]
  BY DEF QueueInv, TypeOK
<1>3. CASE UNCHANGED <<wait_list, sem_count>>
  BY <1>1, <1>3, SemStutter
<1>4. CASE Initialised(n) /\ wait_list[n] # <<>> /\ signal_wakes(n)
  <2> DEFINE h == Head(wait_list[n])
  <2>1. n \in Sems /\ sem_init[n] = 1 /\ n \in Open
    BY <1>4 DEF Initialised, Open
  <2>2. wait_list[n] \in Seq(Slots) /\ IsInjective(wait_list[n])
    BY <1>2, <2>1 DEF QueueInv, QueuesExact
  <2>3. sem_count' = sem_count /\ wait_list' = [wait_list EXCEPT ![n] = list_del(wait_list[n], h)]
    BY <1>4 DEF signal_wakes, first_waiter
  <2>4. /\ wait_list'[n] = list_del(wait_list[n], h)
        /\ \A s \in Sems : s # n => wait_list'[s] = wait_list[s]
    BY <1>2, <2>1, <2>3
  <2>5. /\ Len(wait_list'[n]) = Len(wait_list[n]) - 1
        /\ Range(wait_list'[n]) = Range(wait_list[n]) \ {h}
        /\ h \in Range(wait_list[n])
    BY <1>4, <2>2, <2>4, DelLength, Del, First
  <2> HIDE DEF h
  <2>6. Value[n] = 0 - Len(wait_list[n]) /\ Len(wait_list[n]) \in Nat /\ Len(wait_list[n]) # 0
        /\ sem_count[n] = 0
    BY <1>4, <2>1, SemState
  <2>7. Value' = [Value EXCEPT ![n] = Value[n] + 1]
    <3>1. Value'[n] = sem_count[n] - Len(wait_list'[n])
      BY <1>1, <2>1, <2>3 DEF Value, sem_value
    <3>2. Value'[n] = Value[n] + 1
      BY <2>5, <2>6, <3>1
    <3>3. \A s \in Sems : s # n => Value'[s] = Value[s]
      BY <1>1, <2>3, <2>4 DEF Value, sem_value
    <3> QED
      BY <2>1, <3>2, <3>3 DEF Value
  <2>8. Waiting' = [Waiting EXCEPT ![n] = Waiting[n] \ {h}] /\ h \in Waiting[n]
    BY <2>1, <2>4, <2>5 DEF Waiting
  <2>9. Value[n] < 0
    BY <2>6
  <2> QED
    BY <1>1, <2>1, <2>7, <2>8, <2>9, SemAction
<1>5. CASE /\ Initialised(n) /\ wait_list[n] = <<>>
           /\ sem_count' = [sem_count EXCEPT ![n] = count_up(@)]
           /\ wait_list' = wait_list
  <2>1. n \in Sems /\ sem_init[n] = 1 /\ n \in Open
    BY <1>5 DEF Initialised, Open
  <2>2. Value[n] = sem_count[n] /\ Len(wait_list[n]) = 0 /\ sem_count[n] \in 0 .. UINT_SPAN - 1
    BY <1>5, <2>1, SemState, SchedAssumption
  <2>3. Value' = [Value EXCEPT ![n] = (Value[n] + 1) % UINT_SPAN]
    <3>1. Value'[n] = ((sem_count[n] + 1) % UINT_SPAN) - Len(wait_list[n])
      BY <1>1, <1>2, <1>5, <2>1 DEF Value, sem_value, count_up
    <3>2. (sem_count[n] + 1) % UINT_SPAN \in Int
      BY <2>2, SchedAssumption
    <3>3. Value'[n] = (Value[n] + 1) % UINT_SPAN
      BY <2>2, <3>1, <3>2
    <3>4. \A s \in Sems : s # n => Value'[s] = Value[s]
      BY <1>1, <1>2, <1>5 DEF Value, sem_value
    <3> QED
      BY <2>1, <3>3, <3>4 DEF Value
  <2>4. Waiting' = Waiting /\ Value[n] >= 0
    BY <1>5, <2>2, SchedAssumption DEF Waiting
  <2> QED
    BY <1>1, <2>1, <2>3, <2>4, SemAction
<1> QED
  BY <1>3, <1>4, <1>5, Zenon DEF sys_sem_signal

\* Destroying an initialised semaphore, by the call or on exit, is destroy.
LEMMA DestroyIsDestroy ==
    ASSUME QueueInv, NEW n \in Sems, Initialised(n), destroy(n)
    PROVE  Dijkstra!Next
<1>1. /\ sem_init \in [Sems -> {0, 1}]
      /\ wait_list \in [Sems -> Seq(Slots)]
  BY DEF QueueInv, TypeOK
<1>2. /\ sem_count' = sem_count
      /\ wait_list' = [wait_list EXCEPT ![n] = <<>>]
      /\ sem_init' = [sem_init EXCEPT ![n] = 0]
  BY DEF destroy
<1>3. n \in Open /\ Open' = Open \ {n}
  BY <1>1, <1>2 DEF Open, Initialised
<1>4. Value' = [Value EXCEPT ![n] = 0]
  <2>1. Value'[n] = 0
    BY <1>1, <1>2 DEF Value, sem_value
  <2>2. \A s \in Sems : s # n => Value'[s] = Value[s]
    BY <1>1, <1>2 DEF Value, sem_value
  <2> QED
    BY <2>1, <2>2 DEF Value
<1>5. Waiting' = [Waiting EXCEPT ![n] = {}]
  <2>1. Range(wait_list'[n]) = {} /\ \A s \in Sems : s # n => wait_list'[s] = wait_list[s]
    BY <1>1, <1>2 DEF Range
  <2> QED
    BY <2>1 DEF Waiting
<1> QED
  BY <1>3, <1>4, <1>5, SemAction

\* sem_destroy and exit are destroy, or leave the semaphores alone.
LEMMA DestroyStep ==
    ASSUME QueueInv, exit_sems \/ \E n \in SemArgs : sys_sem_destroy(n)
    PROVE  [Dijkstra!Next]_(Dijkstra!vars)
<1>1. CASE UNCHANGED semVars
  BY <1>1, SemStutter DEF semVars
<1>2. CASE \E n \in SemArgs : Initialised(n) /\ destroy(n)
  BY <1>2, DestroyIsDestroy DEF Initialised
<1>3. CASE exit_sems
  <2>1. exit_sem \in SemArgs
    BY SchedAssumption DEF SemArgs, QueueInv, TypeOK
  <2> QED
    BY <1>1, <1>2, <1>3, <2>1, Zenon DEF exit_sems
<1> QED
  BY <1>1, <1>2, <1>3, Zenon DEF sys_sem_destroy

-----------------------------------------------------------------------------
\* The initial state maps to the initial state: no semaphore, nobody waiting.
LEMMA SemStart == Init => Dijkstra!Init
<1>1. Range(<<>>) = {}
  BY DEF Range
<1> QED
  BY <1>1 DEF Init, init_sched, Dijkstra!Init, sem_value

\* Every step maps to a step of the counting semaphores or to a stutter.
LEMMA SemRefines == QueueInv /\ [Next]_vars => [Dijkstra!Next]_(Dijkstra!vars)
<1> SUFFICES ASSUME QueueInv, [Next]_vars
             PROVE  [Dijkstra!Next]_(Dijkstra!vars)
  OBVIOUS
<1>1. CASE \E n \in SemArgs, v \in SemValues : sys_sem_init(n, v)
  BY <1>1, InitCreates
<1>2. CASE \E n \in SemArgs : sys_sem_wait(n)
  BY <1>2, WaitIsP
<1>3. CASE \E n \in SemArgs : sys_sem_signal(n)
  BY <1>3, SignalIsV
<1>4. CASE exit_sems \/ \E n \in SemArgs : sys_sem_destroy(n)
  BY <1>4, DestroyStep
<1>5. CASE \/ sys_ni_syscall \/ sys_getpid \/ sys_fork_fails \/ sys_fork
           \/ \E q \in Quanta : sys_nice(q)
           \/ sys_exit \/ exit_last \/ clock_routine
           \/ page_fault_routine \/ exception_routine \/ UNCHANGED vars
  <2>1. UNCHANGED semVars
    BY <1>5, Zenon DEF sys_ni_syscall, sys_getpid, sys_fork_fails, sys_fork, sys_nice, sys_exit,
         exit_last, clock_routine, page_fault_routine, exception_routine, vars
  <2> QED
    BY <2>1, SemStutter DEF semVars
<1> QED
  BY <1>1, <1>2, <1>3, <1>4, <1>5, Zenon DEF Next, sys_call_table, exit_step

\* The kernel's semaphores (sys.c) implement counting semaphores: whatever the
\* processes call, however they end, a unit goes to one waiter or to the counter.
THEOREM SemaphoresRefined == Spec => SemSpec
<1>1. Init => Dijkstra!Init
  BY SemStart
<1>2. QueueInv /\ [Next]_vars => [Dijkstra!Next]_(Dijkstra!vars)
  BY SemRefines
<1> QED
  BY <1>1, <1>2, QueueSafe, PTL DEF Spec, SemSpec, Dijkstra!Spec

=============================================================================
