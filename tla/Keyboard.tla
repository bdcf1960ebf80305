------------------------------- MODULE Keyboard -------------------------------
(***************************************************************************)
(* The keyboard of ZeOS on top of its processes: the circular buffer, the  *)
(* read that takes from it or blocks, and the interrupt that serves the    *)
(* blocked readers (src/zeos/devices.c, interrupt.c).                      *)
(*                                                                         *)
(* A character is the number of the key stroke it comes from.  A program   *)
(* reads into a buffer at the start of its first data page, so the frame   *)
(* behind that page is what a read writes.  The program empties it as soon *)
(* as the read is over (last is what it found).  The fields pending_chars, *)
(* size and buffer of a process matter only while it is blocked: every     *)
(* read writes them before they are used, and outside a blocked read they  *)
(* are 0 here.  The tests that sys_read makes on the descriptor are those  *)
(* of Files.                                                               *)
(***************************************************************************)
EXTENDS Sched

CONSTANTS
    CIRCULAR_SIZE,      \* characters of the circular buffer
    ReadSizes,          \* sizes that programs ask for
    Unruly,             \* TRUE if programs also make the reads that may_read names
    MaxKeys             \* bound on the number of key strokes

ASSUME KeyboardAssumption ==
    /\ CIRCULAR_SIZE \in Nat \ {0}
    /\ ReadSizes \subseteq Nat
    /\ Unruly \in BOOLEAN
    /\ MaxKeys \in Nat

VARIABLES
    circular,           \* the buffer
    p,                  \* where the next character goes
    start,              \* where the next read takes from
    circ_chars,         \* characters in the buffer
    pending_chars,      \* task[t].pending_chars
    size,               \* task[t].size
    buffer,             \* task[t].buffer, from the start of the program's buffer
    mem,                \* the programs' buffers, by frame
    typed,              \* key strokes so far
    taken,              \* characters that completed reads were for
    last,               \* what the last completed read left in its buffer
    overrun             \* a key came for a full buffer, which has not been empty since

circVars   == <<circular, p, start, circ_chars>>
readVars   == <<pending_chars, size, buffer, mem>>
streamVars == <<typed, taken, last>>
kbdVars    == <<circVars, readVars, streamVars, overrun>>
kernelVars == <<vars, kbdVars>>

-----------------------------------------------------------------------------
Circ == 0 .. CIRCULAR_SIZE - 1

\* Places of a program's buffer that matter: those of the longest read.
Places == UNION {0 .. n - 1 : n \in ReadSizes}

\* No character.
NUL == 0

Emptied == [i \in Places |-> NUL]

init_keyboard ==
    /\ p = 0
    /\ start = 0
    /\ circ_chars = 0
    /\ circular = [i \in Circ |-> NUL]

KInit ==
    /\ Init
    /\ init_keyboard
    /\ pending_chars = [t \in Slots |-> 0]
    /\ size = [t \in Slots |-> 0]
    /\ buffer = [t \in Slots |-> 0]
    /\ mem = [f \in Frames |-> Emptied]
    /\ typed = 0
    /\ taken = 0
    /\ last = <<>>
    /\ overrun = FALSE

\* A character more than the buffer holds has replaced the oldest one, and
\* circ_chars counts both until the buffer is empty.  The code keeps no such flag.
overruns == overrun' = (circ_chars' > 0 /\ (overrun \/ circ_chars' > CIRCULAR_SIZE))

step_circ_buffer == IF p = CIRCULAR_SIZE - 1 THEN 0 ELSE p + 1

-----------------------------------------------------------------------------
(* Copying to the buffer of a process that does not run *)

\* Mutant of window: the entries are left as they are.
window_unset(t) == pagusr_table

\* The page table with the pages of t behind those of the running process.
window(t) ==
    [i \in Entries |-> IF i \in Pages THEN pagusr_table[i] ELSE ph_pages[t][i - NUM_PAG_DATA]]

\* The first page of the window, where the buffer of the reader is reached.
buffer_page == NUM_PAG_DATA

\* Mutant of circ_at: counted from the place that is written next.
circ_at_p(i) == (p + i) % CIRCULAR_SIZE

\* Place of the i-th character that is taken out.
circ_at(i) == (start + i) % CIRCULAR_SIZE

\* The programs' buffers once n characters of circ are at the place that
\* t->buffer points to.  The window is left on the pages of the running process.
copy_from_circ_buffer(t, n, circ) ==
    [mem EXCEPT ![window(t)[buffer_page]] =
        [i \in Places |-> IF i \in buffer[t] .. buffer[t] + n - 1
                          THEN circ[circ_at(i - buffer[t])]
                          ELSE @[i]]]

\* More characters than the local array of copy_from_circ_buffer holds: what
\* happens then is not defined, and the model goes no further.
overflows(n) == n > CIRCULAR_SIZE

\* The last k characters for the read of t, which was for n, are copied from
\* circ.  The program finds them in its first data page, wherever that is.
completed(t, n, k, circ) ==
    LET after == copy_from_circ_buffer(t, k, circ)
        page  == IF t = current THEN pagusr_table[0] ELSE ph_pages[t][0]
    IN  /\ mem' = [after EXCEPT ![page] = Emptied]
        /\ last' = [i \in 1 .. n |-> after[page][i - 1]]
        /\ taken' = taken + n
        /\ pagusr_table' = window(current)

-----------------------------------------------------------------------------
(* read *)

\* What the programs do.  Init, as long as it runs in the frames mapped at boot
\* (see MemoryKept), takes no characters: they would go to its other frames.
\* Unless Unruly, a program waits only for characters none of which is there,
\* and does not read 0 characters while another one waits: sys_read_keyboard
\* tests neither, and blocks the second with nothing pending, so that the key
\* that wakes it is lost.
may_read(n) ==
    \/ /\ n <= circ_chars /\ keyboard_queue = <<>>
       /\ \A i \in Pages : pagusr_table[i] = ph_pages[current][i]
    \/ circ_chars = 0 /\ n > 0
    \/ task_pid[current] = 0 /\ (n > circ_chars \/ keyboard_queue # <<>>)
    \/ Unruly /\ (n > circ_chars \/ keyboard_queue # <<>>)

\* Characters that are still missing for a read of n.
missing(n) == IF n > circ_chars THEN n - circ_chars ELSE 0

\* Mutant of start_after: start is left where it is.
start_after_none(n) == start

\* start once n characters are taken out.
start_after(n) == (start + n) % CIRCULAR_SIZE

\* There are enough characters, and nobody waits for them.
read_now(n) ==
    /\ missing(n) <= 0 /\ keyboard_queue = <<>>
    /\ IF overflows(n)
       THEN /\ mode' = "halted"
            /\ UNCHANGED <<mem, pagusr_table, streamVars, start, circ_chars, eax>>
       ELSE /\ completed(current, n, n, circular)
            /\ circ_chars' = circ_chars - n
            /\ start' = start_after(n)
            /\ Return(n)
            /\ UNCHANGED <<mode, typed>>
    /\ UNCHANGED <<pending_chars, size, buffer, cpuVars, runqueue, keyboard_queue>>

\* Mutant of block_into_kbd: the reader stays on the runqueue.
block_into_kbd_linked ==
    /\ runqueue' = runqueue
    /\ keyboard_queue' = list_add_tail(keyboard_queue, current)

block_into_kbd ==
    /\ runqueue' = list_del(runqueue, current)
    /\ keyboard_queue' = list_add_tail(keyboard_queue, current)

read_blocks(n) ==
    /\ missing(n) > 0 \/ keyboard_queue # <<>>
    /\ task_pid[current] # 0
    /\ start' = p
    /\ block_into_kbd
    /\ pending_chars' = [pending_chars EXCEPT ![current] = missing(n)]
    /\ size' = [size EXCEPT ![current] = n]
    /\ Return(n)
    /\ task_switch(next_task(runqueue'), remaining, FALSE, 0)
    /\ UNCHANGED <<mode, circ_chars, buffer, mem, streamVars>>

\* Init may not block.
read_refused(n) ==
    /\ missing(n) > 0 \/ keyboard_queue # <<>>
    /\ task_pid[current] = 0
    /\ Return(-EPERM)
    /\ UNCHANGED <<mode, start, circ_chars, readVars, streamVars>>
    /\ UNCHANGED <<cpuVars, pagusr_table, runqueue, keyboard_queue>>

sys_read_keyboard(n) ==
    /\ Running
    /\ may_read(n)
    /\ read_now(n) \/ read_blocks(n) \/ read_refused(n)
    /\ overruns
    /\ UNCHANGED <<circular, p>>
    /\ UNCHANGED <<procVars, semVars, ph_pages, phys_mem, exit_sem>>

-----------------------------------------------------------------------------
(* The interrupt of a key that is pressed; the release changes nothing *)

\* Nobody waits: the character is kept, whether there is room for it or not.
key_kept ==
    /\ keyboard_queue = <<>>
    /\ circ_chars' = circ_chars + 1
    /\ UNCHANGED <<start, readVars, taken, last, mode, pagusr_table, runqueue, keyboard_queue>>

\* The first reader needs more characters, and the buffer has room for them.
key_awaited(b) ==
    /\ pending_chars[b] - 1 > 0 /\ circ_chars + 1 < CIRCULAR_SIZE
    /\ pending_chars' = [pending_chars EXCEPT ![b] = @ - 1]
    /\ circ_chars' = circ_chars + 1
    /\ UNCHANGED <<start, size, buffer, mem, taken, last, mode, pagusr_table, runqueue, keyboard_queue>>

\* Mutant of still_to_come: the size is not updated.
still_to_come_all(b) == size[b]

\* What is left of the size of the reader once the full buffer is copied.
still_to_come(b) == size[b] - (circ_chars + 1)

\* The buffer is full: the first reader gets it and waits on.
key_fills(b, circ) ==
    /\ pending_chars[b] - 1 > 0 /\ circ_chars + 1 >= CIRCULAR_SIZE
    /\ mem' = copy_from_circ_buffer(b, CIRCULAR_SIZE, circ)
    /\ pagusr_table' = window(current)
    /\ pending_chars' = [pending_chars EXCEPT ![b] = @ - 1]
    /\ size' = [size EXCEPT ![b] = still_to_come(b)]
    /\ buffer' = [buffer EXCEPT ![b] = @ + circ_chars + 1]
    /\ circ_chars' = 0
    /\ start' = p'
    /\ UNCHANGED <<taken, last, mode, runqueue, keyboard_queue>>

\* The process that was first to block is ready again.
unblock_and_enqueque(b) ==
    /\ keyboard_queue' = list_del(keyboard_queue, b)
    /\ runqueue' = list_add_tail(runqueue, b)

\* The last character the first reader needs.
key_completes(b, circ) ==
    /\ pending_chars[b] - 1 <= 0
    /\ IF overflows(size[b])
       THEN /\ mode' = "halted"
            /\ UNCHANGED <<start, circ_chars, readVars, taken, last>>
            /\ UNCHANGED <<pagusr_table, runqueue, keyboard_queue>>
       ELSE /\ completed(b, eax[b], size[b], circ)
            /\ circ_chars' = 0
            /\ start' = p'
            /\ unblock_and_enqueque(b)
            /\ pending_chars' = [pending_chars EXCEPT ![b] = 0]
            /\ size' = [size EXCEPT ![b] = 0]
            /\ buffer' = [buffer EXCEPT ![b] = 0]
            /\ UNCHANGED mode

keyboard_routine ==
    LET c    == typed + 1
        circ == [circular EXCEPT ![p] = c]
        b    == Head(keyboard_queue)
    IN  /\ mode = "user"
        /\ ~in_service
        /\ typed < MaxKeys
        /\ typed' = c
        /\ circular' = circ
        /\ p' = step_circ_buffer
        /\ \/ key_kept
           \/ /\ keyboard_queue # <<>>
              /\ key_awaited(b) \/ key_fills(b, circ) \/ key_completes(b, circ)
        /\ overruns
        /\ UNCHANGED <<procVars, semVars, cpuVars, ph_pages, phys_mem, exit_sem, eax>>

-----------------------------------------------------------------------------
\* Everything else the kernel does.  fork copies the task structure and the
\* pages of a father that is not in a read, so with nothing in these fields.
other_step == Next /\ UNCHANGED kbdVars

KNext ==
    \/ other_step
    \/ \E n \in ReadSizes : sys_read_keyboard(n)
    \/ keyboard_routine

KSpec == KInit /\ [][KNext]_kernelVars

-----------------------------------------------------------------------------
(* Properties *)

Stream == INSTANCE CharStream WITH Capacity <- CIRCULAR_SIZE

\* The circular buffer "stores an amount of datas and returns them to the
\* processes which want them" (devices.c:43): the reads take the characters in
\* the order they were typed in, whether they were typed ahead, arrive while
\* the reader is blocked, or come through a full buffer in several parts.  Once
\* more are typed ahead than the buffer holds, until it has been emptied, every
\* read still gets as many characters as it was for, but out of order.
StreamSpec == Stream!Spec

\* What a blocked reader asked for is what it has been given, what the buffer
\* holds for it and what it still waits for; so it is woken by exactly the key
\* stroke that completes its read, and the last copy has the right size.
Accounted ==
    \A k \in 1 .. Len(keyboard_queue) :
        LET t == keyboard_queue[k]
        IN  /\ size[t] = eax[t] - buffer[t]
            /\ pending_chars[t] = size[t] - IF k = 1 THEN circ_chars ELSE 0
            /\ pending_chars[t] > 0

\* The memory of a process changes only by its own reads: until a read is over
\* what it has got so far lies in the frame of the reader, wherever the window
\* has led to before and whoever is running.
OthersUntouched ==
    \A f \in Frames : mem[f] # Emptied =>
        keyboard_queue # <<>> /\ f = ph_pages[Head(keyboard_queue)][0]

\* start, p and circ_chars agree, also when circ_chars has grown beyond the
\* buffer (interrupt.c:296) and after the reads that bring it back, and the
\* characters up to p, as many as are counted and fit, are the last ones typed
\* in their order, so that no read takes one that was there before.
BufferExact ==
    /\ p = (start + circ_chars) % CIRCULAR_SIZE
    /\ \A i \in 0 .. circ_chars - 1 :
          circ_chars - i <= CIRCULAR_SIZE =>
              circular[(start + i) % CIRCULAR_SIZE] = typed - circ_chars + 1 + i

=============================================================================
