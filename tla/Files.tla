-------------------------------- MODULE Files --------------------------------
(***************************************************************************)
(* Files of ZeOS: directory, table of open files, descriptors of the       *)
(* processes, FAT and disk (src/zeos/filesystem.c, the file calls of       *)
(* sys.c, and sys_read_file, sys_write_file and sys_release_file of        *)
(* devices.c).                                                             *)
(*                                                                         *)
(* Kernel code is atomic (see Sched), so one action is one call, made by   *)
(* any process that exists; which one runs is Sched's concern.  A call     *)
(* that returns an error changes nothing, except a write that fills the    *)
(* disk; the value it returns is not kept.                                 *)
(***************************************************************************)
EXTENDS Integers, Sequences, FiniteSets, SequencesExt

CONSTANTS
    NR_TASKS,           \* slots of task[]
    MAX_FDS,            \* descriptors of a process
    MAX_FILES,          \* entries of the directory
    MAX_OPEN_FILES,     \* entries of fdt
    MAX_BLOCKS,         \* blocks of the disk
    BLOCK_SIZE,         \* bytes of a block
    MAX_TRANSFER,       \* largest size read and write accept
    Names,              \* paths of fewer than MAX_NAME_LENGTH characters
    TenNames,           \* paths of exactly MAX_NAME_LENGTH characters
    LongNames,          \* longer paths
    Flags,              \* values programs give to open as flags
    Bytes,              \* values of a byte that programs write
    Closable,           \* descriptors that programs close
    Overwrites,         \* TRUE if programs also write before the end of a file
    MaxForks            \* bound on the number of forks

ASSUME FilesAssumption ==
    /\ NR_TASKS \in Nat \ {0}
    /\ MAX_FDS \in Nat /\ MAX_FDS >= 3
    /\ MAX_FILES \in Nat /\ MAX_FILES >= 2
    /\ MAX_OPEN_FILES \in Nat /\ MAX_OPEN_FILES >= 2
    /\ MAX_BLOCKS \in Nat \ {0}
    /\ BLOCK_SIZE \in Nat \ {0}
    /\ MAX_TRANSFER \in Nat
    /\ {"", "KEYBOARD", "DISPLAY"} \cap (Names \cup TenNames \cup LongNames) = {}
    /\ Flags \subseteq Int
    /\ 0 \in Bytes
    /\ Overwrites \in BOOLEAN
    /\ MaxForks \in Nat

VARIABLES
    alive,              \* slots of the processes that exist
    forks,              \* forks so far
    fds,                \* task[t].file_descriptors, as indices of fdt
    fdt,                \* open files
    dir,                \* directory
    fat,                \* next block of each block, -1 at the end of a chain
    ffb,                \* first free block, -1 if there is none
    disk,               \* contents, byte by byte
    halted,             \* init has faulted
    arg                 \* the call made last, if it wrote to a file: what and how
                        \* it ended; it is only observed

procVars == <<alive, forks, halted>>
fatVars  == <<fat, ffb>>
vars == <<procVars, fds, fdt, dir, fatVars, disk, arg>>

-----------------------------------------------------------------------------
Slots   == 0 .. NR_TASKS - 1
Fds     == 0 .. MAX_FDS - 1
Entries == 0 .. MAX_OPEN_FILES - 1
Files   == 0 .. MAX_FILES - 1
Blocks  == 0 .. MAX_BLOCKS - 1
Paths   == Names \cup TenNames \cup LongNames \cup {"KEYBOARD", "DISPLAY"}
NULL    == -1

\* What arg is when the last call was not a write to a file.
NoWrite == [name |-> "", data |-> <<>>, done |-> TRUE]

O_RDONLY == 1
O_WRONLY == 2
O_RDWR   == 3
O_CREAT  == 4
O_EXCL   == 8

ENOENT       == 2
EBADF        == 9
EACCES       == 13
EEXIST       == 17
EINVAL       == 22
ENFILE       == 23
EMFILE       == 24
EFBIG        == 27
ENAMETOOLONG == 36
ENOSYS       == 38

-----------------------------------------------------------------------------
(* FAT.  The operators take the table, as a write goes through many of them. *)

\* The n-th block after b, or -1 past the end of the chain.
nth_block(ft, b, n) ==
    LET walk[i \in 0 .. n] ==
            IF i = 0 THEN b ELSE IF walk[i - 1] = -1 THEN -1 ELSE ft[walk[i - 1]]
    IN  walk[n]

\* The blocks of the chain that starts at b.
Chain(ft, b) == {nth_block(ft, b, n) : n \in 0 .. MAX_BLOCKS} \ {-1}

\* The end of that chain: for(; fat[b] != -1; b = fat[b]).
last_block(ft, b) == CHOOSE x \in Chain(ft, b) : ft[x] = -1

\* balloc(nblocks): cuts the first blocks off the free list; it changes nothing
\* when there are not enough.
can_balloc(ft, ff, nblocks) == nblocks >= 1 /\ nth_block(ft, ff, nblocks - 1) # -1

balloc(ft, ff, nblocks) ==
    LET prev == nth_block(ft, ff, nblocks - 1)
    IN  [first |-> ff, ffb |-> ft[prev], fat |-> [ft EXCEPT ![prev] = -1]]

\* Mutant of freeb: the chain replaces the free list.
freeb_replace(index) ==
    /\ ffb' = index
    /\ UNCHANGED fat

\* The whole chain that starts at index goes behind the free list.
freeb(index) ==
    \/ /\ index \notin Blocks \/ index = ffb
       /\ UNCHANGED fatVars
    \/ /\ index \in Blocks /\ index # ffb /\ ffb = -1
       /\ ffb' = index
       /\ UNCHANGED fat
    \/ /\ index \in Blocks /\ index # ffb /\ ffb # -1
       /\ fat' = [fat EXCEPT ![last_block(fat, ffb)] = index]
       /\ UNCHANGED ffb

add_block(ft, last, new) == [ft EXCEPT ![last] = new, ![new] = -1]

-----------------------------------------------------------------------------
(* Initial state: init_filesystem, and the descriptors that init_task0 opens. *)

FreeFile == [name |-> "", allow |-> 0, ops |-> "none", first_block |-> 0,
             n_blocks |-> 0, size |-> 0, n_refs |-> -1]

\* With the references that init_task0 adds.
init_dir ==
    dir = [f \in Files |->
              CASE f = 0 -> [FreeFile EXCEPT !.name = "KEYBOARD", !.allow = O_RDONLY,
                                             !.ops = "keyboard", !.n_refs = 1]
                [] f = 1 -> [FreeFile EXCEPT !.name = "DISPLAY", !.allow = O_WRONLY,
                                             !.ops = "display", !.n_refs = 1]
                [] OTHER -> FreeFile]

init_fdt ==
    /\ fdt = [e \in Entries |->
                 [access_mode |-> CASE e = 0 -> O_RDONLY [] e = 1 -> O_WRONLY [] OTHER -> 0,
                  refs        |-> IF e \in {0, 1} THEN 1 ELSE 0,
                  offset      |-> 0,
                  logic_dev   |-> IF e \in {0, 1} THEN e ELSE NULL]]
    /\ fds = [t \in Slots |->
                 [d \in Fds |-> IF t # 0 THEN NULL
                                ELSE CASE d = 0 -> 0 [] d \in {1, 2} -> 1 [] OTHER -> NULL]]

initZeosFat ==
    /\ ffb = 0
    /\ fat = [b \in Blocks |-> IF b = MAX_BLOCKS - 1 THEN -1 ELSE b + 1]

init_disk == disk = [a \in 0 .. MAX_BLOCKS * BLOCK_SIZE - 1 |-> 0]

Init ==
    /\ init_dir /\ init_fdt /\ initZeosFat /\ init_disk
    /\ alive = {0} /\ forks = 0 /\ halted = FALSE
    /\ arg = NoWrite

-----------------------------------------------------------------------------
(* open.  Every loop that looks for a place takes the lowest one. *)

Lowest(S) == {x \in S : \A y \in S : x <= y}

free_entry == Lowest({e \in Entries : fdt[e].refs <= 0})
free_fd(t) == Lowest({d \in Fds : fds[t][d] = NULL})
free_file  == Lowest({f \in Files : dir[f].n_refs = -1})

\* Mutant of lookup: the last entry is not looked at.
lookup_short(path) == Lowest({f \in Files \ {MAX_FILES - 1} : dir[f].name = path})

lookup(path) == Lowest({f \in Files : dir[f].name = path})

\* Mutant of mode_created: the two flags stay in.
mode_created_whole(flags) == flags

\* What is left in flags once sys_open has used O_CREAT and O_EXCL.
mode_created(flags) == (IF flags >= O_EXCL THEN flags - O_EXCL ELSE flags) - O_CREAT
mode_found(flags)   == IF flags >= O_CREAT THEN flags - O_CREAT ELSE flags

\* The early returns of sys_open, in their order; 0 if there is none.
open_error(t, path, flags) ==
    IF path \in LongNames THEN ENAMETOOLONG
    ELSE IF free_entry = {} THEN ENFILE
    ELSE IF free_fd(t) = {} THEN EMFILE
    ELSE IF flags \notin 0 .. O_RDWR + O_CREAT + O_EXCL THEN EINVAL
    ELSE IF lookup(path) = {} THEN (IF flags < O_CREAT THEN ENOENT ELSE 0)
    ELSE IF flags >= O_EXCL + O_CREAT THEN EEXIST
    ELSE LET allow == dir[CHOOSE f \in lookup(path) : TRUE].allow
         IN  IF allow # O_RDWR /\ mode_found(flags) # allow THEN EACCES ELSE 0

\* A new entry of fdt, reached through the first free descriptor of t.
open_entry(t, f, access_mode) ==
    \E e \in free_entry, d \in free_fd(t) :
        /\ fdt' = [fdt EXCEPT ![e] = [access_mode |-> access_mode, refs |-> 1,
                                      offset |-> 0, logic_dev |-> f]]
        /\ fds' = [fds EXCEPT ![t][d] = e]

\* create_file has a directory entry, a name that fits and a block.
can_create(path) == free_file # {} /\ path \notin TenNames /\ can_balloc(fat, ffb, 1)

create_file(t, path, flags) ==
    LET a == balloc(fat, ffb, 1)
    IN  \E f \in free_file :
            /\ dir' = [dir EXCEPT ![f] = [name |-> path, allow |-> O_RDWR, ops |-> "file",
                                          first_block |-> a.first, n_blocks |-> 1,
                                          size |-> 0, n_refs |-> 1]]
            /\ fat' = a.fat
            /\ ffb' = a.ffb
            /\ open_entry(t, f, mode_created(flags))

\* The process ends, as on exit; if it is init the system stops.
page_fault(t) ==
    /\ IF t = 0 THEN halted' = TRUE /\ UNCHANGED <<alive, fds>>
                ELSE /\ alive' = alive \ {t}
                     /\ fds' = [fds EXCEPT ![t] = [d \in Fds |-> NULL]]
                     /\ UNCHANGED halted

\* The errors of create_file are pointers that "file < 0" does not catch:
\* sys_open goes on with them and faults.
sys_open(t, path, flags) ==
    LET err == open_error(t, path, flags)
    IN  \/ /\ err # 0
           /\ UNCHANGED <<procVars, fds, fdt, dir, fatVars, disk>>
        \/ /\ err = 0 /\ lookup(path) = {} /\ can_create(path)
           /\ create_file(t, path, flags)
           /\ UNCHANGED <<procVars, disk>>
        \/ /\ err = 0 /\ lookup(path) = {} /\ ~can_create(path)
           /\ page_fault(t)
           /\ UNCHANGED <<forks, fdt, dir, fatVars, disk>>
        \/ /\ err = 0
           /\ \E f \in lookup(path) :
                 /\ open_entry(t, f, mode_found(flags))
                 /\ dir' = [dir EXCEPT ![f].n_refs = @ + 1]
           /\ UNCHANGED <<procVars, fatVars, disk>>

-----------------------------------------------------------------------------
(* dup, close, unlink *)

IsOpen(t, d) == d \in Fds /\ fds[t][d] # NULL

\* Adds n references to entry e and to its file.
add_refs(e, n) ==
    /\ fdt' = [fdt EXCEPT ![e].refs = @ + n]
    /\ dir' = [dir EXCEPT ![fdt[e].logic_dev].n_refs = @ + n]

\* Mutant of sys_dup: the counters are left as they are.
sys_dup_uncounted(t, d) ==
    /\ IsOpen(t, d)
    /\ \E new \in free_fd(t) : fds' = [fds EXCEPT ![t][new] = fds[t][d]]
    /\ UNCHANGED <<procVars, fatVars, disk, fdt, dir>>

sys_dup(t, d) ==
    /\ \/ /\ ~IsOpen(t, d) \/ free_fd(t) = {}
          /\ UNCHANGED <<fds, fdt, dir>>
       \/ /\ IsOpen(t, d)
          /\ \E new \in free_fd(t) : fds' = [fds EXCEPT ![t][new] = fds[t][d]]
          /\ add_refs(fds[t][d], 1)
    /\ UNCHANGED <<procVars, fatVars, disk>>

sys_close(t, d) ==
    /\ \/ ~IsOpen(t, d) /\ UNCHANGED <<fds, fdt, dir>>
       \/ /\ IsOpen(t, d)
          /\ add_refs(fds[t][d], -1)
          /\ fds' = [fds EXCEPT ![t][d] = NULL]
    /\ UNCHANGED <<procVars, fatVars, disk>>

\* Mutant of sys_release_file: the blocks are not freed.
sys_release_file_leaks(f) == UNCHANGED fatVars

sys_release_file(f) == freeb(dir[f].first_block)

may_unlink(f) == dir[f].n_refs = 0

sys_unlink(path) ==
    /\ \/ /\ \A f \in lookup(path) : ~may_unlink(f)
          /\ UNCHANGED <<dir, fatVars>>
       \/ \E f \in lookup(path) :
             /\ may_unlink(f)
             /\ IF dir[f].ops = "file" THEN sys_release_file(f) ELSE UNCHANGED fatVars
             /\ dir' = [dir EXCEPT ![f].name = "", ![f].ops = "none", ![f].n_refs = -1,
                                   ![f].n_blocks = 0, ![f].size = 0]
    /\ UNCHANGED <<procVars, fds, fdt, disk>>

-----------------------------------------------------------------------------
(* write *)

\* Mutant of needs_block: the block is added one byte late.
needs_block_late(size) == size % BLOCK_SIZE = 1 /\ size > BLOCK_SIZE

needs_block(size) == size % BLOCK_SIZE = 0 /\ size # 0

\* Mutant of dest_byte: destByte is not reset.
dest_byte_kept(w, need) == w.destByte

\* Where in its block the next byte goes.
dest_byte(w, need) == IF need THEN 0 ELSE w.destByte

\* The loop body of sys_write_file for the byte c.  w holds what the loop
\* works on.
write_byte(w, c) ==
    LET need == needs_block(w.size)
        a    == balloc(w.fat, w.ffb, 1)
        blk  == IF need THEN a.first ELSE w.destBlock
        byte == dest_byte(w, need)
        addr == blk * BLOCK_SIZE + byte
    IN  IF w.full THEN w
        ELSE IF need /\ ~can_balloc(w.fat, w.ffb, 1) THEN [w EXCEPT !.full = TRUE]
        ELSE [full      |-> FALSE,
              fat       |-> IF need THEN add_block(a.fat, w.destBlock, a.first) ELSE w.fat,
              ffb       |-> IF need THEN a.ffb ELSE w.ffb,
              n_blocks  |-> IF need THEN w.n_blocks + 1 ELSE w.n_blocks,
              disk      |-> IF addr \in DOMAIN w.disk THEN [w.disk EXCEPT ![addr] = c] ELSE w.disk,
              offset    |-> w.offset + 1,
              size      |-> IF w.size < w.offset + 1 THEN w.size + 1 ELSE w.size,
              destBlock |-> blk,
              destByte  |-> byte + 1]

\* Writing starts in the last block of the file.  When the disk is full the
\* call returns -ENOSPC, with the bytes written so far in the file.
sys_write_file(e, data) ==
    LET f == fdt[e].logic_dev
        w == FoldLeft(write_byte,
                      [full |-> FALSE, fat |-> fat, ffb |-> ffb, n_blocks |-> dir[f].n_blocks,
                       disk |-> disk, offset |-> fdt[e].offset, size |-> dir[f].size,
                       destBlock |-> last_block(fat, dir[f].first_block),
                       destByte |-> fdt[e].offset % BLOCK_SIZE],
                      data)
    IN  /\ Overwrites \/ fdt[e].offset = dir[f].size
        /\ fat' = w.fat
        /\ ffb' = w.ffb
        /\ disk' = w.disk
        /\ fdt' = [fdt EXCEPT ![e].offset = w.offset]
        /\ dir' = [dir EXCEPT ![f].size = w.size, ![f].n_blocks = w.n_blocks]
        /\ arg' = [name |-> dir[f].name, data |-> data, done |-> ~w.full]

\* The tests that sys_write makes before it calls the device.
write_error(t, d, size) ==
    IF ~IsOpen(t, d) THEN EBADF
    ELSE IF size > MAX_TRANSFER THEN EFBIG
    ELSE IF size < 0 THEN EINVAL
    ELSE IF fdt[fds[t][d]].access_mode = O_RDONLY THEN EBADF
    ELSE IF dir[fdt[fds[t][d]].logic_dev].ops \notin {"display", "file"} THEN EINVAL
    ELSE 0

\* A size out of range goes with no data.
sys_write(t, d, size) ==
    LET err == write_error(t, d, size)
        ops == dir[fdt[fds[t][d]].logic_dev].ops
    IN  /\ \/ /\ err # 0
              /\ arg' = NoWrite
              /\ UNCHANGED <<fdt, dir, fatVars, disk>>
           \/ /\ err = 0 /\ ops = "display"
              /\ arg' = NoWrite
              /\ UNCHANGED <<fdt, dir, fatVars, disk>>
           \/ /\ err = 0 /\ ops = "file"
              /\ \E data \in [1 .. size -> Bytes] : sys_write_file(fds[t][d], data)
        /\ UNCHANGED <<procVars, fds>>

-----------------------------------------------------------------------------
(* read *)

\* Mutant of read_byte: at the end of a block it starts the same block again.
read_byte_same_block(r, file, size) ==
    LET turn == r.byte0 % BLOCK_SIZE = 0 /\ r.byte0 # 0
        byte == IF turn THEN 0 ELSE r.byte0
    IN  IF r.done \/ r.offset >= file.size
           \/ (turn /\ (r.offset = size \/ fat[r.block0] = -1))
        THEN [r EXCEPT !.done = TRUE]
        ELSE [done   |-> FALSE,
              block0 |-> r.block0,
              byte0  |-> byte + 1,
              offset |-> r.offset + 1,
              data   |-> Append(r.data, disk[r.block0 * BLOCK_SIZE + byte])]

\* One turn of the loop of sys_read_file, asked for size bytes.
read_byte(r, file, size) ==
    LET turn == r.byte0 % BLOCK_SIZE = 0 /\ r.byte0 # 0
        blk  == IF turn THEN fat[r.block0] ELSE r.block0
        byte == IF turn THEN 0 ELSE r.byte0
    IN  IF r.done \/ r.offset >= file.size
           \/ (turn /\ (r.offset = size \/ fat[r.block0] = -1))
        THEN [r EXCEPT !.done = TRUE]
        ELSE [done   |-> FALSE,
              block0 |-> blk,
              byte0  |-> byte + 1,
              offset |-> r.offset + 1,
              data   |-> Append(r.data, disk[blk * BLOCK_SIZE + byte])]

\* The offset and the bytes with which sys_read_file ends.
read_file(e, size) ==
    LET file == dir[fdt[e].logic_dev]
        turns == [i \in 1 .. size |-> i]
    IN  FoldLeft(LAMBDA r, i : read_byte(r, file, size),
                 [done   |-> FALSE,
                  block0 |-> nth_block(fat, file.first_block, fdt[e].offset \div BLOCK_SIZE),
                  byte0  |-> fdt[e].offset % BLOCK_SIZE,
                  offset |-> fdt[e].offset,
                  data   |-> <<>>],
                 turns)

read_error(t, d, size) ==
    IF ~IsOpen(t, d) THEN EBADF
    ELSE IF size < 0 THEN EINVAL
    ELSE IF size > MAX_TRANSFER THEN EFBIG
    ELSE IF fdt[fds[t][d]].access_mode = O_WRONLY THEN EBADF
    ELSE IF dir[fdt[fds[t][d]].logic_dev].ops \notin {"keyboard", "file"} THEN ENOSYS
    ELSE 0

\* A read of the keyboard touches no file.
sys_read(t, d, size) ==
    LET err == read_error(t, d, size)
        e   == fds[t][d]
        ops == dir[fdt[e].logic_dev].ops
    IN  /\ \/ /\ err # 0
              /\ UNCHANGED fdt
           \/ err = 0 /\ ops = "keyboard" /\ UNCHANGED fdt
           \/ /\ err = 0 /\ ops = "file"
              /\ fdt' = [fdt EXCEPT ![e].offset = read_file(e, size).offset]
        /\ UNCHANGED <<procVars, fds, dir, fatVars, disk>>

-----------------------------------------------------------------------------
(* The part of fork and exit that concerns files *)

\* Mutant of fork_refs: the directory is not updated.
fork_refs_half(t) ==
    /\ fdt' = [e \in Entries |->
                  [fdt[e] EXCEPT !.refs = @ + Cardinality({d \in Fds : fds[t][d] = e})]]
    /\ UNCHANGED dir

\* Every open descriptor of the father counts once more.
fork_refs(t) ==
    /\ fdt' = [e \in Entries |->
                  [fdt[e] EXCEPT !.refs = @ + Cardinality({d \in Fds : fds[t][d] = e})]]
    /\ dir' = [f \in Files |->
                  [dir[f] EXCEPT !.n_refs =
                      @ + Cardinality({d \in Fds : fds[t][d] # NULL /\ fdt[fds[t][d]].logic_dev = f})]]

\* fork can also fail for want of frames (Sched).
sys_fork(t) ==
    \/ /\ UNCHANGED <<procVars, fds, fdt, dir, fatVars, disk>>
    \/ /\ forks < MaxForks
       /\ \E new \in Lowest(Slots \ alive) :
             /\ alive' = alive \cup {new}
             /\ fds' = [fds EXCEPT ![new] = fds[t]]
       /\ fork_refs(t)
       /\ forks' = forks + 1
       /\ UNCHANGED <<halted, fatVars, disk>>

\* sys_exit closes nothing: the references of the process stay counted.  The
\* descriptors of a free slot are not read again.
sys_exit(t) ==
    /\ t # 0
    /\ alive' = alive \ {t}
    /\ fds' = [fds EXCEPT ![t] = [d \in Fds |-> NULL]]
    /\ UNCHANGED <<forks, halted, fdt, dir, fatVars, disk>>

-----------------------------------------------------------------------------
\* Arguments: descriptors and sizes include one value on each side.
FdArgs   == -1 .. MAX_FDS
SizeArgs == -1 .. MAX_TRANSFER + 1

sys_call_table(t) ==
    \/ \E path \in Paths, flags \in Flags : sys_open(t, path, flags) /\ arg' = NoWrite
    \/ \E path \in Paths : sys_unlink(path) /\ arg' = NoWrite
    \/ \E d \in FdArgs : sys_dup(t, d) /\ arg' = NoWrite
    \/ \E d \in Closable : sys_close(t, d) /\ arg' = NoWrite
    \/ \E d \in FdArgs, size \in SizeArgs : sys_write(t, d, size)
    \/ \E d \in FdArgs, size \in SizeArgs : sys_read(t, d, size) /\ arg' = NoWrite
    \/ sys_fork(t) /\ arg' = NoWrite
    \/ sys_exit(t) /\ arg' = NoWrite

Next == ~halted /\ \E t \in alive : sys_call_table(t)

Spec == Init /\ [][Next]_vars

-----------------------------------------------------------------------------
(* Properties *)

Exists(f) == dir[f].n_refs # -1
IsFile(f) == Exists(f) /\ dir[f].ops = "file"

\* Every variable keeps to the values its C declaration and the code allow.
TypeOK ==
    /\ alive \subseteq Slots
    /\ forks \in 0 .. MaxForks
    /\ halted \in BOOLEAN
    /\ fds \in [Slots -> [Fds -> Entries \cup {NULL}]]
    /\ fdt \in [Entries -> [access_mode : -O_CREAT .. O_CREAT + O_RDWR, refs : Int,
                            offset : Nat, logic_dev : Files \cup {NULL}]]
    /\ dir \in [Files -> [name : Paths \cup {""}, allow : 0 .. O_RDWR,
                          ops : {"none", "keyboard", "display", "file"},
                          first_block : Blocks, n_blocks : 0 .. MAX_BLOCKS,
                          size : 0 .. MAX_BLOCKS * BLOCK_SIZE, n_refs : Int]]
    /\ fat \in [Blocks -> Blocks \cup {-1}]
    /\ ffb \in Blocks \cup {-1}
    /\ disk \in [0 .. MAX_BLOCKS * BLOCK_SIZE - 1 -> Bytes]
    /\ arg \in [name : Paths \cup {""}, data : Seq(Bytes), done : BOOLEAN]

\* The references counted in the directory are those counted in fdt: open,
\* dup, close and fork keep the two levels in step.
RefsAgree ==
    \A f \in Files :
        MapThenSumSet(LAMBDA e : fdt[e].refs, {e \in Entries : fdt[e].logic_dev = f})
            = IF Exists(f) THEN dir[f].n_refs ELSE 0

NobodyEnded == Cardinality(alive) = forks + 1

\* What a descriptor refers to stays counted as in use, so that open does not
\* give it to somebody else and unlink does not free it; and nothing else is
\* counted, whatever calls failed half way, until a process ends, which closes
\* nothing (sys.c:285).  Entry 1 has one reference for the two descriptors that
\* init_task0 gives it.
DescriptorsCounted ==
    \A e \in Entries :
        LET users == {x \in alive \X Fds : fds[x[1]][x[2]] = e}
            refs  == fdt[e].refs + (IF e = 1 THEN 1 ELSE 0)
        IN  /\ Cardinality(users) <= refs
            /\ NobodyEnded => Cardinality(users) = refs
            /\ users # {} => /\ Exists(fdt[e].logic_dev)
                             /\ dir[fdt[e].logic_dev].name # ""

\* A file is found by its name: no two entries have the same one, and the
\* entries without one are free.
UniqueNames ==
    \A f, g \in Files :
        /\ Exists(f) <=> dir[f].name # ""
        /\ Exists(f) /\ Exists(g) /\ dir[f].name = dir[g].name => f = g

FreeChain == IF ffb = -1 THEN {} ELSE Chain(fat, ffb)
FileChain(f) == Chain(fat, dir[f].first_block)

\* The free list and the chains of the files share no block and lose none, and
\* every chain ends; n_blocks is the length of the chain of a file.
FatExact ==
    /\ \A f \in Files : IsFile(f) =>
          /\ Cardinality(FileChain(f)) = dir[f].n_blocks
          /\ \E b \in FileChain(f) : fat[b] = -1
          /\ FileChain(f) \cap FreeChain = {}
          /\ \A g \in Files : IsFile(g) /\ g # f => FileChain(f) \cap FileChain(g) = {}
    /\ ffb # -1 => \E b \in FreeChain : fat[b] = -1
    /\ Blocks = FreeChain \cup UNION {FileChain(f) : f \in {g \in Files : IsFile(g)}}

\* "Checks if a new block is needed" (devices.c:177): a file has as many blocks
\* as its size calls for, and the one it was created with.
BlocksNeeded ==
    \A f \in Files : IsFile(f) =>
        dir[f].n_blocks = IF dir[f].size = 0 THEN 1
                          ELSE (dir[f].size + BLOCK_SIZE - 1) \div BLOCK_SIZE

\* The bytes of a file, in the order of its chain.
Content(f) ==
    [i \in 1 .. dir[f].size |->
        disk[nth_block(fat, dir[f].first_block, (i - 1) \div BLOCK_SIZE) * BLOCK_SIZE
             + ((i - 1) % BLOCK_SIZE)]]

FilesExisting == {f \in Files : IsFile(f)}

Store == INSTANCE FileStore
    WITH Names <- Paths,
         content <- [n \in {dir[f].name : f \in FilesExisting} |->
                        Content(CHOOSE f \in FilesExisting : dir[f].name = n)]

\* Directory, FAT and disk implement files as named sequences of bytes: a write
\* that returns their number puts its bytes, in their order, behind what is in
\* its file, one that finds the disk full the first of them, and nothing else
\* changes what is in a file, whatever blocks it has and whatever happens to the
\* blocks of others (devices.c:163-200).
StoreSpec == Store!Spec

OpenForReading(e) ==
    /\ fdt[e].refs > 0
    /\ fdt[e].access_mode # O_WRONLY
    /\ IsFile(fdt[e].logic_dev)

\* A read delivers bytes of the file from the offset on, in their order, and
\* advances the offset by their number.
ReadsContent ==
    \A e \in Entries : OpenForReading(e) =>
        \A size \in 0 .. MAX_TRANSFER :
            LET r == read_file(e, size)
                o == fdt[e].offset
            IN  /\ r.offset = o + Len(r.data)
                /\ r.data = SubSeq(Content(fdt[e].logic_dev), o + 1, o + Len(r.data))

=============================================================================
