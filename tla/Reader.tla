-------------------------------- MODULE Reader --------------------------------
(***************************************************************************)
(* The statistics reader, a character device on top of the monitor         *)
(* (src/kernel-module/syscalls_mon_reader.c), and the two modules at work  *)
(* with the processes that are monitored.                                  *)
(*                                                                         *)
(* The device is opened and closed by system calls, which the monitor      *)
(* counts like any other; read and ioctl are not monitored and do not      *)
(* block.  An open file is named after the process that opened it; the     *)
(* children of that process inherit it.                                    *)
(***************************************************************************)
EXTENDS Monitor

CONSTANTS
    Roots,              \* processes with uid 0
    SwitchArgs          \* arguments, besides -1, given to ENABLE_SYS_CALL and DISABLE_SYS_CALL

ASSUME ReaderAssumption == Roots \subseteq Pids /\ SwitchArgs \subseteq Nat

VARIABLES
    rmod,               \* state of the reader
    region,             \* the number of the device is reserved
    lock,
    open_pid,
    proc_monitored,
    files               \* open files of the device that each process holds

devVars == <<lock, open_pid, proc_monitored>>
readerVars == <<rmod, region, devVars, files>>
allVars == <<vars, readerVars>>

OpenFiles == UNION {files[p] : p \in Tasks}

RInit ==
    /\ Init
    /\ rmod = "unloaded" /\ region = FALSE
    /\ lock = 0 /\ open_pid = 0 /\ proc_monitored = 0
    /\ files = [p \in Pids |-> {}]

-----------------------------------------------------------------------------
(* Loading and unloading.  The reader uses symbols of the monitor, so that  *)
(* it holds a reference to it; an open file holds one to the reader.        *)

syscalls_mon_driver_init ==
    /\ NobodyRuns(Pids)
    /\ rmod = "unloaded" /\ mod = "live"
    /\ ~region
    /\ region' = TRUE
    /\ rmod' = "live"
    /\ refs' = refs + 1
    /\ lock' = 0 /\ open_pid' = 1 /\ proc_monitored' = 0
    /\ UNCHANGED <<thread, ti, sys_call_table, syscall_info_table, mod, loads, calls, st, oops, files>>

\* The number cannot be reserved, as when it already is, or cdev_alloc or cdev_add
\* fails, after which it stays reserved: nothing is undone.  The kernel gives up
\* the module, and with it the reference to the monitor.
syscalls_mon_driver_init_fails ==
    /\ NobodyRuns(Pids)
    /\ rmod = "unloaded" /\ mod = "live"
    /\ \/ UNCHANGED region
       \/ ~region /\ region' = TRUE
    /\ UNCHANGED <<vars, rmod, devVars, files>>

\* The variables of the reader go with its memory; they are 0 until it is loaded.
syscalls_mon_driver_exit ==
    /\ NobodyRuns(Pids)
    /\ rmod = "live" /\ OpenFiles = {} /\ \A p \in Pids : st[p].pc # "opening"
    /\ region' = FALSE
    /\ rmod' = "unloaded"
    /\ refs' = refs - 1
    /\ lock' = 0 /\ open_pid' = 0 /\ proc_monitored' = 0
    /\ UNCHANGED <<thread, ti, sys_call_table, syscall_info_table, mod, loads, calls, st, oops, files>>

-----------------------------------------------------------------------------
(* open and release *)

\* Mutant of open_refused: the lock is not looked at.
open_refused_uid(p) == p \notin Roots

open_refused(p) == lock # 0 \/ p \notin Roots

\* The tests of readstats_open_dev.
readstats_open_dev(p) ==
    /\ at(p, "call") /\ st[p].call = OPEN /\ rmod = "live"
    /\ IF open_refused(p) THEN return_of(p, FALSE)
                          ELSE st' = [st EXCEPT ![p].pc = "opening"]
    /\ UNCHANGED <<thread, sys_call_table, refs, oops, modVars, statVars, readerVars>>

\* The rest of it: the device is taken.
readstats_open_take(p) ==
    /\ at(p, "opening")
    /\ lock' = lock + 1
    /\ open_pid' = p
    /\ proc_monitored' = p
    /\ files' = [files EXCEPT ![p] = @ \cup {p}]
    /\ return_of(p, TRUE)
    /\ UNCHANGED <<thread, sys_call_table, refs, oops, modVars, statVars, rmod, region>>

readstats_release_dev ==
    IF lock = 0 THEN UNCHANGED <<lock, open_pid>>
                ELSE lock' = lock - 1 /\ open_pid' = 0

\* p gives up file f; the device is released with the last holder.
drop(p, f) ==
    /\ files' = [files EXCEPT ![p] = @ \ {f}]
    /\ IF \E q \in Tasks \ {p} : f \in files[q] THEN UNCHANGED <<lock, open_pid>>
                                                ELSE readstats_release_dev
    /\ UNCHANGED <<rmod, region, proc_monitored>>

close_dev(p) ==
    /\ at(p, "call") /\ st[p].call = CLOSE
    /\ \E f \in files[p] : drop(p, f)
    /\ return_of(p, TRUE)
    /\ UNCHANGED <<thread, sys_call_table, refs, oops, modVars, statVars>>

\* A process that ends closes what it has open.
exit_task(p) ==
    /\ do_exit(p)
    /\ IF files[p] = {} THEN UNCHANGED readerVars ELSE \E f \in files[p] : drop(p, f)

clone_task(p, q) ==
    /\ sys_clone(p, q)
    /\ files' = [files EXCEPT ![q] = files[p]]
    /\ UNCHANGED <<rmod, region, devVars>>

-----------------------------------------------------------------------------
(* ioctl.  read copies what get_stats finds; sysc_monitored, which           *)
(* CHANGE_SYSCALL sets, only says which entry, and is left out.             *)

CHANGE_PROCESS(arg) ==
    /\ IF arg \in Tasks
       THEN /\ ti' = [ti EXCEPT ![thread[arg]] = valid_stats(@, arg)]
            /\ proc_monitored' = arg
       ELSE /\ proc_monitored' = open_pid
            /\ UNCHANGED ti
    /\ UNCHANGED <<sys_call_table, oops>>

\* reset_values does not notice that the process is gone: "t < 0" does not
\* catch NULL.
RESET_VALUES ==
    /\ IF proc_monitored \in Tasks
       THEN /\ ti' = [ti EXCEPT ![thread[proc_monitored]] = reset_stats(@, proc_monitored)]
            /\ UNCHANGED oops
       ELSE oops' = TRUE /\ UNCHANGED ti
    /\ UNCHANGED <<sys_call_table, proc_monitored>>

complete_reset ==
    /\ ti' = [t \in Threads |->
                 IF \E p \in Tasks : thread[p] = t
                 THEN reset_stats(ti[t], CHOOSE p \in Tasks : thread[p] = t) ELSE ti[t]]
    /\ UNCHANGED <<sys_call_table, proc_monitored, oops>>

\* activate_syscall_mon and deactivate_syscall_mon: one call, or all for an
\* argument below 0.
set_mon(arg, trap) ==
    /\ sys_call_table' = [c \in Calls |-> IF arg < 0 \/ arg = c THEN trap ELSE sys_call_table[c]]
    /\ UNCHANGED <<ti, proc_monitored, oops>>

readstats_ioctl_dev(p) ==
    /\ at(p, "user") /\ files[p] # {}
    /\ \/ \E arg \in Pids \cup {0} : CHANGE_PROCESS(arg)
       \/ RESET_VALUES
       \/ complete_reset
       \/ \E arg \in SwitchArgs \cup {-1}, trap \in {"local", "original"} : set_mon(arg, trap)
    /\ UNCHANGED <<thread, syscall_info_table, mod, refs, loads, calls, st, rmod, region, lock, open_pid, files>>

-----------------------------------------------------------------------------
\* The steps of the monitor leave the reader alone.
monitor_step ==
    /\ \/ syscalls_mon_init
       \/ delete_module
       \/ syscalls_mon_exit
       \/ \E p \in Pids : \/ \E c \in Calls : system_call(p, c)
                          \/ sys_local_enter(p)
                          \/ other_syscall(p)
                          \/ sys_local_leave(p)
                          \/ sys_local_return(p)
                          \/ run_freed(p)
    /\ UNCHANGED readerVars

RNext ==
    \/ monitor_step
    \/ syscalls_mon_driver_init
    \/ syscalls_mon_driver_init_fails
    \/ syscalls_mon_driver_exit
    \/ \E p \in Pids : \/ readstats_open_dev(p)
                       \/ readstats_open_take(p)
                       \/ close_dev(p)
                       \/ exit_task(p)
                       \/ \E q \in Pids : clone_task(p, q)
                       \/ readstats_ioctl_dev(p)

RSpec == RInit /\ [][RNext]_allVars

-----------------------------------------------------------------------------
(* Properties *)

Stats == [n_calls : Nat, n_calls_ok : Nat, n_calls_err : Nat, total : Nat]

\* Every variable of the two modules keeps to the values of its declaration.
TypeOK ==
    /\ thread \in [Pids -> Threads \cup {NONE}]
    /\ ti \in [Threads -> [pid : Pids \cup {0}, stats : [0 .. N_CALLS -> Stats]]]
    /\ sys_call_table \in [Calls -> {"original", "local"}]
    /\ syscall_info_table \in [Calls -> Stats]
    /\ mod \in {"unloaded", "live", "going"}
    /\ refs \in Int
    /\ loads \in 0 .. MaxLoads /\ calls \in 0 .. MaxCalls + Cardinality(Pids)
    /\ st \in [Pids -> [pc : {"user", "trap", "call", "opening", "ret", "out", "freed"},
                        call : Calls, mon : BOOLEAN, ok : BOOLEAN]]
    /\ oops \in BOOLEAN
    /\ rmod \in {"unloaded", "live"} /\ region \in BOOLEAN
    /\ lock \in 0 .. Cardinality(Pids)
    /\ {open_pid, proc_monitored} \subseteq Pids \cup {0}
    /\ files \in [Pids -> SUBSET Pids]

\* "If it contains a consistent pid, then statistics are coherent and valid"
\* (syscalls_mon.h:48-49), as to the totals: those of a process are the sums of
\* its five entries, whatever was reset when, and whoever had the page before.
TotalsAgree ==
    \A p \in Tasks : ti[thread[p]].pid = p =>
        LET s == ti[thread[p]].stats
        IN  /\ s[N_CALLS].n_calls     = MapThenSumSet(LAMBDA c : s[c].n_calls, Calls)
            /\ s[N_CALLS].n_calls_ok  = MapThenSumSet(LAMBDA c : s[c].n_calls_ok, Calls)
            /\ s[N_CALLS].n_calls_err = MapThenSumSet(LAMBDA c : s[c].n_calls_err, Calls)
            /\ s[N_CALLS].total       = MapThenSumSet(LAMBDA c : s[c].total, Calls)

\* The counters of all processes are exact: every call counted has come back
\* well, has failed, or is on its way.
GlobalExact ==
    mod # "unloaded" => \A c \in Calls :
        syscall_info_table[c].n_calls
            = syscall_info_table[c].n_calls_ok + syscall_info_table[c].n_calls_err
              + Cardinality({p \in Pids : /\ st[p].mon /\ st[p].call = c
                                          /\ st[p].pc \in {"call", "opening", "ret"}})

\* "We use this call to keep track of the references to the module"
\* (syscalls_mon.c:112): a loaded module is referenced by the calls in its traps,
\* asleep or not, and by the reader, and by nothing that is over, so that rmmod
\* neither begins under a call nor fails without one.
RefsExact ==
    mod = "live" =>
        refs = Cardinality({p \in Pids : st[p].mon /\ st[p].pc \in {"call", "opening", "ret"}})
               + (IF rmod = "live" THEN 1 ELSE 0)

\* No system call is redirected to a module that is not loaded.
TableRestored == mod = "unloaded" => \A c \in Calls : sys_call_table[c] = "original"

\* Whoever competes for the device, it is open at most once: the lock counts the
\* open files, so that it is not given back before the last process that has
\* inherited the one there is has closed it or ended, nor kept after that, and
\* open_pid is the process that opened it, also when that has ended
\* (readstats_open_dev, readstats_release_dev).
OneOpener ==
    /\ rmod = "live" => lock = Cardinality(OpenFiles)
    /\ lock <= 1
    /\ \A f \in OpenFiles : open_pid = f

\* "if it contains a consistent pid, then statistics are coherent and valid"
\* (syscalls_mon.h:48-49): no more calls have come back than were made.
Coherent ==
    \A p \in Tasks : ti[thread[p]].pid = p =>
        \A c \in 0 .. N_CALLS :
            LET s == ti[thread[p]].stats[c] IN s.n_calls_ok + s.n_calls_err <= s.n_calls

=============================================================================
