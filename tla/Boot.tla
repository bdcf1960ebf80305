--------------------------------- MODULE Boot ---------------------------------
(***************************************************************************)
(* From the object files to the first user instruction: build.c writes the *)
(* disk image, the boot sector (bootsect.S) loads it with the BIOS, and    *)
(* main (system.c) sets up paging and moves the user program.              *)
(*                                                                         *)
(* Sector 0 of the image is the boot sector, sector k > 0 holds the bytes  *)
(* 512 * (k - 1) ... of the system followed by the user program.  Memory   *)
(* below 1 MB is kept by slots of 512 bytes; a slot holds the number of a  *)
(* sector.  The BIOS is external: it reads what it is asked to read.       *)
(***************************************************************************)
EXTENDS Integers, Sequences, FiniteSets, Functions, PageFrames

CONSTANTS
    Images,             \* sizes <<system, user>> of the two programs, in bytes
    Protected           \* the pages of task[i].task_protect

SECTOR    == 512
PAGE_SIZE == 4096
WORD      == 65536      \* values of a 16-bit register
SYSSEG    == 4096       \* 0x1000, segment where the system is loaded
INITSEG   == 36864      \* 0x9000, segment of the boot sector and of its GDT
SYSSIZE   == 32512      \* 0x7F00, "kernel size" in paragraphs of 16 bytes
sectors   == 18         \* per track
heads     == 2

ASSUME BootAssumption ==
    /\ Images \subseteq Nat \X Nat
    /\ \A im \in Images : im[1] > 16 /\ im[1] + im[2] <= 16 * SYSSIZE
    /\ Protected \subseteq 0 .. NUM_PAG_KERNEL - 1

VARIABLES
    phase,              \* the step that comes next
    image,              \* <<sys_size, usr_size>> as fstat reports them
    written,            \* bytes written to the image so far
    header,             \* the words that build patches into the image
    sread, head, track, \* position on the disk
    es, bx,             \* where the next sector goes
    mem,                \* memory below 1 MB
    table,              \* frame of each logical page, -1 if not present
    phys_mem,           \* the frames marked USED_FRAME
    ph_pages,           \* task[0].ph_pages, as far as it is filled
    moved,              \* bytes of the user program moved so far
    user_mem            \* frames above 1 MB: the address their page was moved from

diskVars == <<image, written, header>>
loadVars == <<sread, head, track, es, bx, mem>>
pageVars == <<table, phys_mem, ph_pages, moved, user_mem>>
vars     == <<phase, diskVars, loadVars, pageVars>>

-----------------------------------------------------------------------------
Slots       == 0 .. 2047
LogicalPage == 0 .. TOTAL_PAGES - 1
EMPTY       == -1

\* The slot of a segment and an offset.
slot(seg, off) == seg \div 32 + off \div SECTOR

PAG_LOG_INIT_CODE_P0 == 256
PAG_LOG_INIT_DATA_P0 == PAG_LOG_INIT_CODE_P0 + NUM_PAG_CODE
KERNEL_START         == 16 * SYSSEG

Init ==
    /\ phase = "boot"
    /\ image \in Images
    /\ written = 0
    /\ header = [syssize |-> SYSSIZE, sys |-> 0, usr |-> 0]
    /\ sread = 0 /\ head = 0 /\ track = 0
    /\ es = 0 /\ bx = 0
    /\ mem = [s \in Slots |-> EMPTY]
    /\ table = [p \in LogicalPage |-> EMPTY]
    /\ phys_mem = {}
    /\ ph_pages = <<>>
    /\ moved = 0
    /\ user_mem = [f \in Frames |-> EMPTY]

-----------------------------------------------------------------------------
(* build *)

\* The boot sector has been found to be in order.
build_boot ==
    /\ phase = "boot"
    /\ written' = SECTOR
    /\ phase' = "system"
    /\ UNCHANGED <<image, header, loadVars, pageVars>>

\* What the loops over the system and then over the user program have to reach.
end_of(part) == SECTOR + image[1] + IF part = "user" THEN image[2] ELSE 0

\* Mutant of chunk: whole buffers only.
chunk_whole(sz) == IF sz > 1024 THEN 1024 ELSE 0

\* What one turn of a loop copies of the sz bytes that are left.
chunk(sz) == IF sz > 1024 THEN 1024 ELSE sz

build_copy ==
    /\ phase \in {"system", "user"}
    /\ written < end_of(phase)
    /\ written' = written + chunk(end_of(phase) - written)
    /\ UNCHANGED <<phase, image, header, loadVars, pageVars>>

build_copied ==
    /\ phase \in {"system", "user"}
    /\ written = end_of(phase)
    /\ phase' = IF phase = "system" THEN "user" ELSE "patch"
    /\ UNCHANGED <<diskVars, loadVars, pageVars>>

\* The size of the image in paragraphs.
im_size == (image[1] + image[2] + 15) \div 16

\* The low bytes of the three sizes.
build_patch ==
    /\ phase = "patch"
    /\ header' = [syssize |-> im_size % WORD, sys |-> image[1] % 2^24, usr |-> image[2] % 2^24]
    /\ phase' = "move"
    /\ UNCHANGED <<image, written, loadVars, pageVars>>

\* A file that is missing, has the wrong format or ends too early, or a failed write.
die ==
    /\ phase \in {"boot", "system", "user", "patch"}
    /\ phase' = "died"
    /\ UNCHANGED <<diskVars, loadVars, pageVars>>

-----------------------------------------------------------------------------
(* bootsect.S *)

\* The BIOS has loaded sector 0; it moves itself to INITSEG and calls read_it.
boot_main ==
    /\ phase = "move"
    /\ mem' = [mem EXCEPT ![slot(INITSEG, 0)] = 0]
    /\ sread' = 1
    /\ es' = SYSSEG
    /\ bx' = 0
    /\ phase' = "load"
    /\ UNCHANGED <<head, track, diskVars, pageVars>>

\* Mutant of transfer: the whole rest of the track, whatever the segment.
transfer_track == sectors - sread

\* Sectors to read next: the rest of the track, or of the 64 KB segment.
transfer ==
    IF (sectors - sread) * SECTOR + bx > WORD
    THEN ((WORD - bx) % WORD) \div SECTOR
    ELSE sectors - sread

\* The sector on the disk that comes next.
next_sector == (track * heads + head) * sectors + sread

\* int 0x13.  Errors are not looked at.
read_track(n) ==
    mem' = [s \in Slots |-> IF s \in slot(es, bx) .. slot(es, bx) + n - 1
                            THEN next_sector + s - slot(es, bx)
                            ELSE mem[s]]

\* Mutant of advance: the track moves on with every head.
advance_track(n) ==
    /\ sread' = (sread + n) % sectors
    /\ head' = IF sread + n = sectors THEN 1 - head ELSE head
    /\ track' = IF sread + n = sectors THEN track + 1 ELSE track

advance(n) ==
    \/ /\ sread + n # sectors
       /\ sread' = sread + n
       /\ UNCHANGED <<head, track>>
    \/ /\ sread + n = sectors
       /\ sread' = 0
       /\ head' = 1 - head
       /\ track' = IF head = 1 THEN track + 1 ELSE track

\* Mutant of more_to_read: the whole room below the boot sector, counted once too often.
more_to_read_all == (es - SYSSEG) % WORD <= INITSEG - SYSSEG

\* Whole segments are counted.
more_to_read == (es - SYSSEG) % WORD <= header.syssize

read_it ==
    /\ phase = "load"
    /\ more_to_read
    /\ read_track(transfer)
    /\ advance(transfer)
    /\ bx' = IF bx + transfer * SECTOR >= WORD THEN 0 ELSE bx + transfer * SECTOR
    /\ es' = IF bx + transfer * SECTOR >= WORD THEN (es + SYSSEG) % WORD ELSE es
    /\ UNCHANGED <<phase, diskVars, pageVars>>

\* Protected mode, and the jump to main.
enter_main ==
    /\ phase = "load"
    /\ ~more_to_read
    /\ phase' = "main"
    /\ UNCHANGED <<diskVars, loadVars, pageVars>>

-----------------------------------------------------------------------------
(* main.  The other structures it initialises are in Sched, Keyboard, Files. *)

\* init_table_pages and init_frames; then paging is on.
init_mm ==
    /\ phase = "main"
    /\ table' = [q \in LogicalPage |->
                    IF q < NUM_PAG_KERNEL /\ q \notin Protected THEN q ELSE EMPTY]
    /\ phys_mem' = 0 .. NUM_PAG_KERNEL - 1
    /\ phase' = "code"
    /\ UNCHANGED <<diskVars, loadVars, ph_pages, moved, user_mem>>

\* Mutant of p0_frames: the frames of the code are not marked.
p0_frames_free == {}

\* initialize_P0_frames.
p0_frames == NUM_PAG_KERNEL .. NUM_PAG_KERNEL + NUM_PAG_CODE - 1

\* init_task0 marks the frames of the code, and set_user_pages maps them.
map_code ==
    /\ phase = "code"
    /\ phys_mem' = phys_mem \cup p0_frames
    /\ table' = [q \in LogicalPage |->
                    IF q \in PAG_LOG_INIT_CODE_P0 .. PAG_LOG_INIT_DATA_P0 - 1
                    THEN NUM_PAG_KERNEL + q - PAG_LOG_INIT_CODE_P0 ELSE table[q]]
    /\ phase' = "data"
    /\ UNCHANGED <<diskVars, loadVars, ph_pages, moved, user_mem>>

\* The frame that one call of alloc_frame returns.
lowest_free == {f \in Allocatable \ phys_mem : \A g \in Allocatable \ phys_mem : f <= g}

\* The data pages that set_user_pages has mapped so far.
mapped == {q \in LogicalPage : q >= PAG_LOG_INIT_DATA_P0 /\ table[q] # EMPTY}

\* The loop of set_user_pages over the data pages.
map_data ==
    LET q == PAG_LOG_INIT_DATA_P0 + Cardinality(mapped)
    IN  /\ phase = "data"
        /\ \E f \in lowest_free :
              /\ table' = [table EXCEPT ![q] = f]
              /\ phys_mem' = phys_mem \cup {f}
        /\ phase' = IF q + 1 = PAG_LOG_INIT_DATA_P0 + NUM_PAG_DATA THEN "task0" ELSE phase
        /\ UNCHANGED <<diskVars, loadVars, ph_pages, moved, user_mem>>

\* The loop of init_task0 over ph_pages.
fill_ph_pages ==
    /\ phase = "task0"
    /\ \E f \in lowest_free :
          /\ ph_pages' = Append(ph_pages, f)
          /\ phys_mem' = phys_mem \cup {f}
    /\ phase' = IF Len(ph_pages) + 1 = NUM_PAG_DATA THEN "copy" ELSE phase
    /\ UNCHANGED <<diskVars, loadVars, table, moved, user_mem>>

\* The sizes that build left in the first bytes of the system.
p_size(field) == IF mem[slot(SYSSEG, 0)] = 1 THEN header[field] ELSE 0

\* The page that copy_data writes next.
user_page == PAG_LOG_INIT_CODE_P0 + moved \div PAGE_SIZE

\* Mutant of user_source: the place of the user program without the system.
user_source_start == KERNEL_START

\* Where main takes the user program from.
user_source == KERNEL_START + p_size("sys")

\* copy_data, one page at a time.  A page that is not there is a page fault of
\* task 0, which ends in a loop.
copy_data ==
    /\ phase = "copy"
    /\ moved < p_size("usr")
    /\ \/ /\ table[user_page] # EMPTY
          /\ user_mem' = [user_mem EXCEPT ![table[user_page]] = user_source + moved]
          /\ moved' = IF p_size("usr") - moved > PAGE_SIZE THEN moved + PAGE_SIZE ELSE p_size("usr")
          /\ UNCHANGED phase
       \/ /\ table[user_page] = EMPTY
          /\ phase' = "halted"
          /\ UNCHANGED <<moved, user_mem>>
    /\ UNCHANGED <<diskVars, loadVars, table, phys_mem, ph_pages>>

return_gate ==
    /\ phase = "copy"
    /\ moved = p_size("usr")
    /\ phase' = "run"
    /\ UNCHANGED <<diskVars, loadVars, pageVars>>

-----------------------------------------------------------------------------
step ==
    \/ build_boot
    \/ build_copy
    \/ build_copied
    \/ build_patch
    \/ boot_main
    \/ read_it
    \/ enter_main
    \/ init_mm
    \/ map_code
    \/ map_data
    \/ fill_ph_pages
    \/ copy_data
    \/ return_gate

Next == step \/ die

Spec == Init /\ [][Next]_vars

\* Nothing stops these programs.
FairSpec == Spec /\ WF_vars(step)

-----------------------------------------------------------------------------
(* Properties *)

\* Sectors of the image after the boot sector.
ImageSectors == 1 .. (image[1] + image[2] + SECTOR - 1) \div SECTOR

Loaded == phase \in {"main", "code", "data", "task0", "copy", "halted", "run"}

\* read_it, which reads "whole tracks whenever we can" and stops at every 64 KB
\* (bootsect.S:200), loads the image without a gap, an overlap or a shift: when
\* main starts, every sector of it is where the system was linked to be.
LoadedInPlace ==
    Loaded => \A k \in ImageSectors : mem[slot(SYSSEG, 0) + k - 1] = k

\* "no 64kB boundaries are crossed" (bootsect.S:201), nor the end of a track,
\* and every call of the BIOS reads something.
TransfersFit ==
    phase = "load" =>
        /\ transfer > 0
        /\ sread + transfer <= sectors
        /\ bx + transfer * SECTOR <= WORD

\* The boot sector, which runs the loader and keeps the GDT of the kernel
\* (GDT_START, segment.h:19), is never loaded over.
BootSectorKept ==
    phase = "load" \/ Loaded => mem[slot(INITSEG, 0)] = 0

\* When task 0 starts, every page of its program is in the frame that the page
\* table maps for it, taken from where the loader has put it, and no other page
\* has that frame.
UserInPlace ==
    phase = "run" =>
        \A i \in 0 .. (image[2] - 1) \div PAGE_SIZE :
            LET f == table[PAG_LOG_INIT_CODE_P0 + i]
            IN  /\ user_mem[f] = KERNEL_START + image[1] + i * PAGE_SIZE
                /\ \A q \in LogicalPage : table[q] = f => q = PAG_LOG_INIT_CODE_P0 + i

\* The loops of set_user_pages and init_task0 leave the frames as Sched starts
\* with them.
StartsSched ==
    phase = "run" =>
        /\ phys_mem = Reserved \cup Range(BootMapped) \cup Range(BootPages)
        /\ \A i \in Pages : /\ table[PAG_LOG_INIT_DATA_P0 + i] = BootMapped[i]
                            /\ ph_pages[i + 1] = BootPages[i]
        /\ \A i \in Pages : table[PAG_LOG_INIT_DATA_P0 + NUM_PAG_DATA + i] = EMPTY

\* The loader's loop ends: an image that is built boots, unless the user
\* program is larger than the pages it has.
Boots ==
    <>(phase = "run" \/ phase = "died" \/
          (phase = "halted" /\ image[2] > (NUM_PAG_CODE + NUM_PAG_DATA) * PAGE_SIZE))

=============================================================================
