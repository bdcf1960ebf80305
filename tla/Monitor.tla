------------------------------- MODULE Monitor -------------------------------
(***************************************************************************)
(* syscalls_mon: a Linux 2.6 module that redirects five system calls to    *)
(* traps of its own and counts them per process and in all                 *)
(* (src/kernel-module/syscalls_mon.c).                                     *)
(*                                                                         *)
(* A call may block only inside the original system call.  Kernel code     *)
(* runs to such a point without giving up the processor unless the kernel  *)
(* is preemptible, so the steps of a call are separate actions and Preempt *)
(* says whether others may come between them.                              *)
(*                                                                         *)
(* The statistics of a process lie behind its thread_info, in the page of  *)
(* its kernel stack: memory that outlives the process and that the next    *)
(* owner of the page finds as it was.                                      *)
(***************************************************************************)
EXTENDS Integers, FiniteSets, FiniteSetsExt, Functions

CONSTANTS
    Pids,               \* process identifiers; 1 is init, which never ends
    Threads,            \* pages for thread_info and kernel stack
    N_CALLS,            \* monitored calls
    OPEN, CLOSE, CLONE, \* the ones that matter to processes and to the device
    PidInit,            \* values given to the parameter pid_init
    Preempt,            \* TRUE for a preemptible kernel
    MaxCalls,           \* bound on the calls counted
    MaxLoads            \* bound on the times the module is loaded

Calls == 0 .. N_CALLS - 1

ASSUME MonitorAssumption ==
    /\ Pids \subseteq Nat \ {0} /\ 1 \in Pids
    /\ Threads # {} /\ 0 \notin Threads
    /\ N_CALLS \in Nat
    /\ {OPEN, CLOSE, CLONE} \subseteq Calls
    /\ OPEN # CLOSE /\ OPEN # CLONE /\ CLOSE # CLONE
    /\ PidInit \subseteq Nat /\ PidInit # {}
    /\ Preempt \in BOOLEAN
    /\ MaxCalls \in Nat /\ MaxLoads \in Nat

VARIABLES
    thread,             \* page of each process, NONE if there is no process
    ti,                 \* struct my_thread of each page
    sys_call_table,     \* which trap each call goes to
    syscall_info_table, \* counters of all processes
    mod,                \* state of the module
    refs,               \* its reference count
    loads,              \* times it was loaded
    calls,              \* calls counted so far
    st,                 \* where each process is
    oops                \* the kernel has faulted

vars == <<thread, ti, sys_call_table, syscall_info_table, mod, refs, loads, calls, st, oops>>
modVars  == <<mod, loads>>
statVars == <<ti, syscall_info_table, calls>>

NONE == 0
Tasks == {p \in Pids : thread[p] # NONE}

\* What a page holds where nobody has written statistics yet.
Junk == [n_calls |-> 0, n_calls_ok |-> 1, n_calls_err |-> 1, total |-> 1]
Zero == [n_calls |-> 0, n_calls_ok |-> 0, n_calls_err |-> 0, total |-> 0]

User == [pc |-> "user", call |-> OPEN, mon |-> FALSE, ok |-> FALSE]

\* A process stands in the text of the module.
Inside(p) == st[p].mon /\ st[p].pc \in {"trap", "call", "opening", "ret", "out"}

\* Kernel code that is not preempted runs on until it blocks or returns.
NobodyRuns(S) == ~oops /\ (Preempt \/ \A q \in S : st[q].pc \in {"user", "call", "freed"})

at(p, pc) == p \in Tasks /\ st[p].pc = pc /\ NobodyRuns(Pids \ {p})

Init ==
    /\ \E t \in Threads : thread = [p \in Pids |-> IF p = 1 THEN t ELSE NONE]
    /\ ti = [t \in Threads |-> [pid |-> 0, stats |-> [c \in 0 .. N_CALLS |-> Junk]]]
    /\ sys_call_table = [c \in Calls |-> "original"]
    /\ syscall_info_table = [c \in Calls |-> Zero]
    /\ mod = "unloaded" /\ refs = 0 /\ loads = 0 /\ calls = 0
    /\ st = [p \in Pids |-> User]
    /\ oops = FALSE

-----------------------------------------------------------------------------
(* Loading and unloading *)

\* Mutant of reset_stats: the entry of the totals is left out.
reset_stats_calls(m, pid) ==
    [m EXCEPT !.pid = pid, !.stats = [c \in 0 .. N_CALLS |-> IF c < N_CALLS THEN Zero ELSE @[c]]]

reset_stats(m, pid) == [pid |-> pid, stats |-> [c \in 0 .. N_CALLS |-> Zero]]

\* The process that the parameter names, or init.
find_pid_init(p) == IF p \in Tasks THEN p ELSE 1

syscalls_mon_init ==
    /\ NobodyRuns(Pids)
    /\ mod = "unloaded" /\ loads < MaxLoads
    /\ sys_call_table' = [c \in Calls |-> "local"]
    /\ \E p \in PidInit :
          LET pid == find_pid_init(p)
          IN  ti' = [ti EXCEPT ![thread[pid]] = reset_stats(@, pid)]
    /\ syscall_info_table' = [c \in Calls |-> Zero]
    /\ mod' = "live"
    /\ refs' = 0
    /\ loads' = loads + 1
    /\ UNCHANGED <<thread, calls, st, oops>>

\* delete_module refuses a module in use; from here on try_module_get fails.
\* It waits for the other processors before it goes on.
delete_module ==
    /\ NobodyRuns(Pids)
    /\ mod = "live" /\ refs = 0
    /\ mod' = "going"
    /\ UNCHANGED <<thread, sys_call_table, refs, loads, st, oops, statVars>>

\* Mutant of restored_table: one call keeps its trap.
restored_table_short == [c \in Calls |-> IF c = CLONE THEN sys_call_table[c] ELSE "original"]

restored_table == [c \in Calls |-> "original"]

\* The exit routine, after which the memory of the module is freed.
syscalls_mon_exit ==
    /\ NobodyRuns(Pids)
    /\ mod = "going"
    /\ sys_call_table' = restored_table
    /\ syscall_info_table' = [c \in Calls |-> Zero]
    /\ mod' = "unloaded"
    /\ st' = [p \in Pids |-> IF Inside(p) THEN [st[p] EXCEPT !.pc = "freed"] ELSE st[p]]
    /\ UNCHANGED <<thread, ti, refs, loads, calls, oops>>

-----------------------------------------------------------------------------
(* A system call of process p *)

system_call(p, c) ==
    /\ at(p, "user") /\ calls < MaxCalls
    /\ st' = [st EXCEPT ![p] = [User EXCEPT !.call = c,
                                            !.mon = sys_call_table[c] = "local",
                                            !.pc = IF sys_call_table[c] = "local" THEN "trap" ELSE "call"]]
    /\ UNCHANGED <<thread, sys_call_table, refs, oops, modVars, statVars>>

\* A call is counted in the entry of its kind and in the totals of the process,
\* and in the entry of its kind of the whole system.
count_call(s) == [s EXCEPT !.n_calls = @ + 1]

\* Statistics left by another process start anew.
valid_stats(m, p) == IF m.pid = p THEN m ELSE reset_stats(m, p)

\* The local trap up to the original call.  try_module_get fails in a module
\* that is going; its result is not looked at.
sys_local_enter(p) ==
    LET c == st[p].call
    IN  /\ at(p, "trap")
        /\ refs' = IF mod = "live" THEN refs + 1 ELSE refs
        /\ ti' = [ti EXCEPT ![thread[p]] =
                     [valid_stats(@, p) EXCEPT !.stats[c] = count_call(@),
                                               !.stats[N_CALLS] = count_call(@)]]
        /\ syscall_info_table' = [syscall_info_table EXCEPT ![c] = count_call(@)]
        /\ calls' = calls + 1
        /\ st' = [st EXCEPT ![p].pc = "call"]
        /\ UNCHANGED <<thread, sys_call_table, oops, modVars>>

\* The original call comes back to the local trap, or to the program.
return_of(p, ok) ==
    st' = [st EXCEPT ![p] = IF @.mon THEN [@ EXCEPT !.pc = "ret", !.ok = ok] ELSE User]

\* A call that concerns neither processes nor the device.
other_syscall(p) ==
    /\ at(p, "call")
    /\ \E ok \in BOOLEAN : return_of(p, ok)
    /\ UNCHANGED <<thread, sys_call_table, refs, oops, modVars, statVars>>

\* The child gets a free page with what is in it; only thread_info is copied.
sys_clone(p, q) ==
    /\ at(p, "call") /\ st[p].call = CLONE
    /\ q \notin Tasks
    /\ \E t \in Threads \ Range(thread) : thread' = [thread EXCEPT ![q] = t]
    /\ return_of(p, TRUE)
    /\ UNCHANGED <<sys_call_table, refs, oops, modVars, statVars>>

\* Mutant of count_result: a failed call is not counted as such.
count_result_ok(s, ok) ==
    [s EXCEPT !.n_calls_ok = IF ok THEN @ + 1 ELSE @, !.total = @ + 1]

\* Mutant of count_result: a failed call counts down.
count_result_down(s, ok) ==
    [s EXCEPT !.n_calls_ok  = IF ok THEN @ + 1 ELSE @,
              !.n_calls_err = IF ok THEN @ ELSE @ - 1,
              !.total = @ + 1]

\* Every call takes one unit of time.
count_result(s, ok) ==
    [s EXCEPT !.n_calls_ok  = IF ok THEN @ + 1 ELSE @,
              !.n_calls_err = IF ok THEN @ ELSE @ + 1,
              !.total = @ + 1]

\* Mutant of put_refs: the reference is kept.
put_refs_none == refs

put_refs == refs - 1

\* The local trap after the original call, up to module_put.
sys_local_leave(p) ==
    LET Count(s) == count_result(s, st[p].ok)
        c == st[p].call
    IN  /\ at(p, "ret")
        /\ ti' = [ti EXCEPT ![thread[p]].stats[c] = Count(@),
                            ![thread[p]].stats[N_CALLS] = Count(@)]
        /\ syscall_info_table' = [syscall_info_table EXCEPT ![c] = Count(@)]
        /\ refs' = put_refs
        /\ st' = [st EXCEPT ![p].pc = "out"]
        /\ UNCHANGED <<thread, sys_call_table, calls, oops, modVars>>

\* The return instruction still lies in the module.
sys_local_return(p) ==
    /\ at(p, "out")
    /\ st' = [st EXCEPT ![p] = User]
    /\ UNCHANGED <<thread, sys_call_table, refs, oops, modVars, statVars>>

\* A process goes on in memory that was freed.
run_freed(p) ==
    /\ at(p, "freed")
    /\ oops' = TRUE
    /\ UNCHANGED <<thread, sys_call_table, refs, st, modVars, statVars>>

do_exit(p) ==
    /\ p # 1 /\ at(p, "user")
    /\ thread' = [thread EXCEPT ![p] = NONE]
    /\ UNCHANGED <<sys_call_table, refs, st, oops, modVars, statVars>>

=============================================================================
