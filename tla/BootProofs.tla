------------------------------ MODULE BootProofs ------------------------------
(***************************************************************************)
(* The loader of the boot sector is right for every image that build.c may *)
(* write within SYSSIZE: not only for the sizes of a run.                  *)
(***************************************************************************)
EXTENDS Boot, TLAPS

\* g whole segments and k sectors of the next one have been read: where the
\* loader stands, on the disk and in memory, and what it has put there.
Progress(g, k) ==
    /\ es = 4096 * (g + 1)
    /\ bx = 512 * k
    /\ g = 8 => k = 0
    /\ sread \in 0 .. 17
    /\ head \in {0, 1}
    /\ track \in Nat
    /\ (track * 2 + head) * 18 + sread = 1 + 128 * g + k
    /\ \A s \in 128 .. 127 + 128 * g + k : mem[s] = s - 127

Started == phase \in {"boot", "system", "user", "patch", "move", "died"}

\* The invariant of the loader.
LoadInv ==
    /\ image \in Images
    /\ mem \in [Slots -> Int]
    /\ Started => head = 0 /\ track = 0
    /\ ~Started \/ phase = "move" => header.syssize = im_size
    /\ phase = "load" => \E g \in 0 .. 8, k \in 0 .. 127 : Progress(g, k)
    /\ phase = "load" \/ Loaded => mem[1152] = 0
    /\ LoadedInPlace

\* The constants of the layout.
LEMMA Layout == slot(SYSSEG, 0) = 128 /\ slot(INITSEG, 0) = 1152
BY SMT DEF slot, SYSSEG, INITSEG, SECTOR

\* The size of an image in paragraphs fits the word it is patched into.
LEMMA SizeFits ==
    ASSUME image \in Images
    PROVE  /\ image[1] \in Nat /\ image[2] \in Nat
           /\ im_size \in Nat /\ im_size <= 32512
           /\ im_size % WORD = im_size
           /\ image[1] + image[2] <= 16 * im_size
<1>1. image[1] \in Nat /\ image[2] \in Nat /\ image[1] + image[2] <= 520192
  BY BootAssumption, SMT DEF SYSSIZE
<1> DEFINE b == image[1] + image[2]
<1>2. b \in Nat /\ b <= 520192
  BY <1>1, SMT
<1> HIDE DEF b
<1>3. /\ (b + 15) \div 16 \in Nat /\ (b + 15) \div 16 <= 32512
      /\ b <= 16 * ((b + 15) \div 16)
  BY <1>2, SMT
<1>4. im_size = (b + 15) \div 16
  BY SMT DEF im_size, b
<1> DEFINE p == im_size
<1>5. p \in Nat /\ p <= 32512 /\ b <= 16 * p
  BY <1>3, <1>4, SMT
<1> HIDE DEF p
<1>6. p % 65536 = p
  BY <1>5, SMT
<1> QED
  BY <1>1, <1>5, <1>6, SMT DEF b, p, WORD

\* A transfer ends at the end of the track or of the segment, and is not empty.
LEMMA Transfer ==
    ASSUME NEW k \in 0 .. 127, bx = 512 * k, sread \in 0 .. 17
    PROVE  transfer \in 1 .. 18 /\ sread + transfer <= 18 /\ k + transfer <= 128
<1>1. CASE (18 - sread) * 512 + bx > 65536
  <2>1. 128 - k \in 1 .. 17 - sread
    BY <1>1, SMT
  <2>2. (65536 - 512 * k) % 65536 = 512 * (128 - k)
    BY <2>1, SMT
  <2>3. (512 * (128 - k)) \div 512 = 128 - k
    BY <2>1, SMT
  <2>4. transfer = 128 - k
    BY <1>1, <2>2, <2>3, SMT DEF transfer, sectors, SECTOR, WORD
  <2> QED
    BY <2>1, <2>4, SMT
<1>2. CASE ~((18 - sread) * 512 + bx > 65536)
  <2>1. transfer = 18 - sread
    BY <1>2, SMT DEF transfer, sectors, SECTOR, WORD
  <2> QED
    BY <1>2, <2>1, SMT
<1> QED
  BY <1>1, <1>2, SMT

\* A turn of read_it goes from one such position to a later one.
LEMMA ReadStep ==
    ASSUME LoadInv, read_it
    PROVE  /\ \E g \in 0 .. 8, k \in 0 .. 127 : Progress(g, k)'
           /\ mem' \in [Slots -> Int]
           /\ mem'[1152] = 0
<1>1. PICK g \in 0 .. 8, k \in 0 .. 127 : Progress(g, k)
  BY SMT DEF LoadInv, read_it
<1>2. PICK n \in 1 .. 18 : n = transfer /\ sread + n <= 18 /\ k + n <= 128
  BY <1>1, Transfer, SMT DEF Progress
<1>3. g <= 7
  <2>0. header.syssize = im_size /\ image \in Images
    BY SMT DEF LoadInv, read_it, Started
  <2>1. header.syssize \in Nat /\ header.syssize <= 32512
    BY <2>0, SizeFits, SMT
  <2>2. (es - 4096) % 65536 = 4096 * g
    BY <1>1, SMT DEF Progress
  <2>3. 4096 * g <= header.syssize
    BY <2>2, SMT DEF read_it, more_to_read, SYSSEG, WORD
  <2> QED
    BY <1>1, <2>1, <2>3, SMT
<1>4. slot(es, bx) = 128 * (g + 1) + k
  <2>1. (4096 * (g + 1)) \div 32 = 128 * (g + 1) /\ (512 * k) \div 512 = k
    BY <1>1, SMT
  <2> QED
    BY <1>1, <2>1, SMT DEF slot, SECTOR, Progress
<1>5. next_sector = 1 + 128 * g + k
  BY <1>1, SMT DEF next_sector, heads, sectors, Progress
<1> DEFINE base == 128 * (g + 1) + k
<1>6. \A s \in Slots : mem'[s] = IF s \in base .. base + n - 1 THEN s - 127 ELSE mem[s]
  <2>1. read_track(n)
    BY <1>2, SMT DEF read_it
  <2>2. \A s \in Int : 1 + 128 * g + k + s - base = s - 127
    BY SMT
  <2>3. mem' = [s \in Slots |-> IF s \in base .. base + n - 1
                                THEN 1 + 128 * g + k + s - base ELSE mem[s]]
    BY <1>4, <1>5, <2>1, SMT DEF read_track
  <2>4. Slots \subseteq Int
    BY SMT DEF Slots
  <2> HIDE DEF base
  <2> QED
    BY <2>2, <2>3, <2>4, SMT
<1>7. base + n - 1 <= 1151 /\ base \in Nat
  BY <1>2, <1>3, SMT
<1>8. mem' \in [Slots -> Int] /\ mem'[1152] = 0
  <2>1. mem' \in [Slots -> Int]
    <3>1. Slots \subseteq Int
      BY SMT DEF Slots
    <3>2. \A s \in Slots : mem[s] \in Int /\ s - 127 \in Int
      BY <3>1, SMT DEF LoadInv
    <3>3. mem' = [s \in Slots |-> mem'[s]]
      BY SMT DEF read_it, read_track
    <3> HIDE DEF base
    <3>4. \A s \in Slots : mem'[s] \in Int
      BY <1>6, <3>2, SMT
    <3> QED
      BY <3>3, <3>4, SMT
  <2>2. mem[1152] = 0 /\ 1152 \in Slots /\ 1152 \notin base .. base + n - 1
    <3>1. mem[1152] = 0
      BY SMT DEF LoadInv, read_it
    <3>2. 1152 \in Slots
      BY SMT DEF Slots
    <3> HIDE DEF base
    <3>3. 1152 \notin base .. base + n - 1
      BY <1>2, <1>7, SMT
    <3> QED
      BY <3>1, <3>2, <3>3, SMT
  <2> HIDE DEF base
  <2>3. mem'[1152] = 0
    BY <1>6, <2>2, SMTT(30)
  <2> QED
    BY <2>1, <2>3, SMT
<1>9. \A s \in 128 .. 127 + 128 * g + (k + n) : mem'[s] = s - 127
  <2> SUFFICES ASSUME NEW s \in 128 .. 127 + 128 * g + (k + n)
               PROVE  mem'[s] = s - 127
    BY SMT
  <2>1. s \in Int /\ 128 <= s /\ s <= base + n - 1
    BY <1>2, SMT
  <2>2. s \in Slots
    <3> HIDE DEF base
    <3>1. 0 <= s /\ s <= 2047
      BY <1>2, <1>7, <2>1, SMT
    <3> QED
      BY <2>1, <3>1, SMT DEF Slots
  <2>3. CASE s <= base - 1
    <3>1. s \in 128 .. 127 + 128 * g + k
      BY <2>1, <2>3, SMT
    <3>2. mem[s] = s - 127
      BY <1>1, <3>1, SMT DEF Progress
    <3>3. s \notin base .. base + n - 1
      BY <2>3, <3>1, SMT
    <3> HIDE DEF base
    <3> QED
      BY <1>6, <2>2, <3>2, <3>3, SMT
  <2>4. CASE ~(s <= base - 1)
    <3>1. s \in base .. base + n - 1
      BY <1>2, <2>1, <2>4, SMT
    <3> HIDE DEF base
    <3> QED
      BY <1>6, <2>2, <3>1, SMT
  <2> QED
    BY <2>3, <2>4, SMT
<1>10. /\ sread' \in 0 .. 17 /\ head' \in {0, 1} /\ track' \in Nat
       /\ (track' * 2 + head') * 18 + sread' = 1 + 128 * g + (k + n)
  <2>1. advance(n)
    BY <1>2, SMT DEF read_it
  <2>2. CASE sread + n # 18
    BY <1>1, <1>2, <2>1, <2>2, SMT DEF advance, sectors, Progress
  <2>3. CASE sread + n = 18
    BY <1>1, <1>2, <2>1, <2>3, SMT DEF advance, sectors, Progress
  <2> QED
    BY <2>2, <2>3, SMT
<1>11. CASE k + n = 128
  <2>1. bx' = 0 /\ es' = (es + 4096) % 65536
    BY <1>1, <1>2, <1>11, SMT DEF read_it, Progress, SECTOR, WORD, SYSSEG
  <2>2. es' = 4096 * (g + 1 + 1)
    BY <1>1, <1>3, <2>1, SMT DEF Progress
  <2>3. 1 + 128 * g + (k + n) = 1 + 128 * (g + 1) + 0
        /\ 127 + 128 * g + (k + n) = 127 + 128 * (g + 1) + 0
    BY <1>11, SMT
  <2>4. Progress(g + 1, 0)'
    <3>1. /\ (track' * 2 + head') * 18 + sread' = 1 + 128 * (g + 1) + 0
          /\ \A s \in 128 .. 127 + 128 * (g + 1) + 0 : mem'[s] = s - 127
      BY <1>9, <1>10, <2>3, ZenonT(60)
    <3>2. bx' = 512 * 0 /\ (g + 1 = 8 => 0 = 0)
      BY <2>1, SMT
    <3> QED
      BY <1>10, <2>2, <3>1, <3>2, ZenonT(60) DEF Progress
  <2>5. g + 1 \in 0 .. 8 /\ 0 \in 0 .. 127
    BY <1>3, SMT
  <2>6. \E h \in 0 .. 8, j \in 0 .. 127 : Progress(h, j)'
    BY <2>4, <2>5, SMT
  <2> QED
    BY <1>8, <2>6, SMT
<1>12. CASE k + n # 128
  <2>1. bx' = 512 * (k + n) /\ es' = es
    BY <1>1, <1>2, <1>12, SMT DEF read_it, Progress, SECTOR, WORD
  <2>2. es = 4096 * (g + 1) /\ g # 8
    BY <1>1, <1>3, SMT DEF Progress
  <2>3. Progress(g, k + n)'
    <3>1. es' = 4096 * (g + 1) /\ bx' = 512 * (k + n) /\ (g = 8 => k + n = 0)
      BY <2>1, <2>2, SMT
    <3> QED
      BY <1>9, <1>10, <3>1, ZenonT(60) DEF Progress
  <2>4. k + n \in 0 .. 127
    BY <1>2, <1>12, SMT
  <2>5. \E h \in 0 .. 8, j \in 0 .. 127 : Progress(h, j)'
    BY <2>3, <2>4, SMT
  <2> QED
    BY <1>8, <2>5, SMT
<1> QED
  BY <1>11, <1>12, SMT

\* When the loop ends, every sector of the image is in its place.
LEMMA EnterMain ==
    ASSUME LoadInv, enter_main
    PROVE  LoadedInPlace'
<1>1. PICK g \in 0 .. 8, k \in 0 .. 127 : Progress(g, k)
  BY SMT DEF LoadInv, enter_main
<1>2. header.syssize = im_size /\ image \in Images
  BY SMT DEF LoadInv, enter_main, Started
<1>3. im_size < 4096 * g
  <2>1. (es - 4096) % 65536 = 4096 * g
    BY <1>1, SMT DEF Progress
  <2>2. im_size \in Nat
    BY <1>2, SizeFits, SMT
  <2>3. ~(4096 * g <= im_size)
    BY <1>2, <2>1, SMT DEF enter_main, more_to_read, SYSSEG, WORD
  <2> QED
    BY <2>2, <2>3, SMT
<1> DEFINE b == image[1] + image[2]
           last == (b + 511) \div 512
<1>4. b \in Nat /\ b <= 16 * im_size /\ im_size \in Nat
  BY <1>2, SizeFits, SMT
<1> HIDE DEF b
<1>5. last \in Nat /\ last <= 128 * g
  BY <1>3, <1>4, SMT
<1> HIDE DEF last
<1>6. \A j \in 1 .. last : mem[128 + j - 1] = j
  <2> SUFFICES ASSUME NEW j \in 1 .. last
               PROVE  mem[128 + j - 1] = j
    BY SMT
  <2>1. 127 + j \in 128 .. 127 + 128 * g + k
    BY <1>5, SMT
  <2>2. mem[127 + j] = (127 + j) - 127
    BY <1>1, <2>1, SMT DEF Progress
  <2> QED
    BY <1>5, <2>2, SMT
<1>7. ImageSectors = 1 .. last
  BY SMT DEF ImageSectors, last, b, SECTOR
<1>8. mem' = mem /\ image' = image
  BY SMT DEF enter_main, diskVars, loadVars
<1>9. ImageSectors' = ImageSectors
  BY <1>8, SMT DEF ImageSectors
<1> HIDE DEF last
<1> QED
  BY <1>6, <1>7, <1>8, <1>9, Layout, SMT DEF LoadedInPlace

\* A step outside the loader.
LEMMA OutsideLoader ==
    ASSUME LoadInv, UNCHANGED <<image, mem, head, track>>,
           phase # "load", phase' # "load",
           Started' => Started,
           Loaded' => Loaded,
           ~Started' \/ phase' = "move" => header'.syssize = im_size
    PROVE  LoadInv'
<1>1. im_size' = im_size
  BY SMT DEF im_size
<1>2. LoadedInPlace'
  BY SMT DEF LoadInv, LoadedInPlace, ImageSectors
<1> QED
  BY <1>1, <1>2, SMT DEF LoadInv

\* Every step preserves the invariant.
THEOREM LoadStep == LoadInv /\ [Next]_vars => LoadInv'
<1> SUFFICES ASSUME LoadInv, [Next]_vars
             PROVE  LoadInv'
  BY SMT
<1>1. CASE build_boot \/ build_copy \/ build_copied \/ die
  <2>1. UNCHANGED <<image, mem, head, track>>
    BY <1>1, SMT DEF build_boot, build_copy, build_copied, die, diskVars, loadVars
  <2>2. /\ phase \in {"boot", "system", "user", "patch"}
        /\ phase' \in {"system", "user", "patch", "died"}
    BY <1>1, SMT DEF build_boot, build_copy, build_copied, die
  <2> QED
    BY <2>1, <2>2, OutsideLoader, SMT DEF Started, Loaded
<1>2. CASE build_patch
  <2>1. UNCHANGED <<image, mem, head, track>> /\ phase = "patch" /\ phase' = "move"
    BY <1>2, SMT DEF build_patch, loadVars
  <2>2. header'.syssize = im_size
    <3>1. header'.syssize = im_size % WORD
      BY <1>2, SMT DEF build_patch
    <3> QED
      BY <3>1, SizeFits, SMT DEF LoadInv
  <2> QED
    BY <2>1, <2>2, OutsideLoader, SMT DEF Started, Loaded
<1>3. CASE boot_main
  <2>1. /\ UNCHANGED <<image, header, head, track>>
        /\ phase = "move" /\ phase' = "load"
        /\ sread' = 1 /\ es' = 4096 /\ bx' = 0
        /\ mem' = [mem EXCEPT ![1152] = 0]
    <3>1. /\ UNCHANGED <<image, header, head, track>>
          /\ phase = "move" /\ phase' = "load"
          /\ sread' = 1 /\ es' = SYSSEG /\ bx' = 0
          /\ mem' = [mem EXCEPT ![slot(INITSEG, 0)] = 0]
      BY <1>3, SMT DEF boot_main, diskVars
    <3>2. slot(INITSEG, 0) = 1152 /\ SYSSEG = 4096
      BY Layout, SMT DEF SYSSEG
    <3> QED
      BY <3>1, <3>2, ZenonT(60)
  <2>2. mem' \in [Slots -> Int] /\ mem'[1152] = 0
    <3>a. 1152 \in Slots
      BY SMT DEF Slots
    <3>b. mem \in [Slots -> Int]
      BY SMT DEF LoadInv
    <3>1. 1152 \in Slots /\ mem \in [Slots -> Int]
      BY <3>a, <3>b, SMT
    <3>2. mem' = [mem EXCEPT ![1152] = 0]
      BY <2>1, SMT
    <3> QED
      BY <3>1, <3>2, SMTT(30)
  <2>3. head' = 0 /\ track' = 0
    BY <2>1, SMT DEF LoadInv, Started
  <2>4. Progress(0, 0)'
    BY <2>1, <2>3, SMT DEF Progress
  <2>5. \E g \in 0 .. 8, k \in 0 .. 127 : Progress(g, k)'
    <3>1. 0 \in 0 .. 8 /\ 0 \in 0 .. 127
      BY SMT
    <3> QED
      BY <2>4, <3>1, SMT
  <2>6. header'.syssize = im_size' /\ image' \in Images
    BY <2>1, SMT DEF LoadInv, im_size
  <2> QED
    BY <2>1, <2>2, <2>5, <2>6, SMT DEF LoadInv, Started, Loaded, LoadedInPlace
<1>4. CASE read_it
  <2>1. UNCHANGED <<image, header, phase>> /\ phase = "load"
    BY <1>4, SMT DEF read_it, diskVars
  <2>2. header'.syssize = im_size' /\ image' \in Images
    BY <2>1, SMT DEF LoadInv, im_size, Started
  <2>3. /\ \E g \in 0 .. 8, k \in 0 .. 127 : Progress(g, k)'
        /\ mem' \in [Slots -> Int]
        /\ mem'[1152] = 0
    BY <1>4, ReadStep, SMT
  <2> QED
    BY <2>1, <2>2, <2>3, SMT DEF LoadInv, Started, Loaded, LoadedInPlace
<1>5. CASE enter_main
  <2>1. UNCHANGED <<image, header, mem>> /\ phase = "load" /\ phase' = "main"
    BY <1>5, SMT DEF enter_main, diskVars, loadVars
  <2>2. LoadedInPlace'
    BY <1>5, EnterMain, SMT
  <2>3. header'.syssize = im_size'
    BY <2>1, SMT DEF LoadInv, im_size, Started
  <2> QED
    BY <2>1, <2>2, <2>3, SMT DEF LoadInv, Started, Loaded
<1>6. CASE init_mm \/ map_code \/ map_data \/ fill_ph_pages \/ copy_data \/ return_gate
  <2>1. UNCHANGED <<image, header, mem, head, track>>
    BY <1>6, SMT DEF init_mm, map_code, map_data, fill_ph_pages, copy_data, return_gate,
                     diskVars, loadVars
  <2>2. phase \in {"main", "code", "data", "task0", "copy"}
    BY <1>6, SMT DEF init_mm, map_code, map_data, fill_ph_pages, copy_data, return_gate
  <2>3. phase' \in {"code", "data", "task0", "copy", "halted", "run"}
    BY <1>6, SMT DEF init_mm, map_code, map_data, fill_ph_pages, copy_data, return_gate
  <2>4. header'.syssize = im_size
    BY <2>1, <2>2, SMT DEF LoadInv, Started
  <2> QED
    BY <2>1, <2>2, <2>3, <2>4, OutsideLoader, SMT DEF Started, Loaded
<1>7. CASE UNCHANGED vars
  <2>1. UNCHANGED <<phase, image, header, sread, head, track, es, bx, mem>>
    BY <1>7, SMT DEF vars, diskVars, loadVars
  <2>2. im_size' = im_size /\ ImageSectors' = ImageSectors
    BY <2>1, SMT DEF im_size, ImageSectors
  <2>3. LoadedInPlace' /\ Started' = Started /\ Loaded' = Loaded
    BY <2>1, <2>2, SMT DEF LoadInv, LoadedInPlace, Started, Loaded
  <2>4. ASSUME NEW g \in 0 .. 8, NEW k \in 0 .. 127, Progress(g, k)
        PROVE  Progress(g, k)'
    BY <2>1, <2>4, SMT DEF Progress
  <2>5. phase' = "load" => \E g \in 0 .. 8, k \in 0 .. 127 : Progress(g, k)'
    <3>1. phase = "load" => \E g \in 0 .. 8, k \in 0 .. 127 : Progress(g, k)
      BY SMT DEF LoadInv
    <3>2. phase' = phase
      BY <2>1, SMT
    <3> QED
      BY <2>4, <3>1, <3>2, SMT
  <2> QED
    BY <2>1, <2>2, <2>3, <2>5, SMT DEF LoadInv
<1> QED
  BY <1>1, <1>2, <1>3, <1>4, <1>5, <1>6, <1>7, SMT DEF Next, step

\* Nothing is loaded before the image is built.
LEMMA LoadStart == Init => LoadInv
<1> SUFFICES ASSUME Init PROVE LoadInv
  BY SMT
<1>1. /\ phase = "boot" /\ image \in Images /\ head = 0 /\ track = 0
      /\ mem = [s \in Slots |-> -1]
  BY SMT DEF Init, EMPTY
<1>2. mem \in [Slots -> Int]
  BY <1>1, SMT
<1> QED
  BY <1>1, <1>2, SMT DEF LoadInv, Started, Loaded, LoadedInPlace

-----------------------------------------------------------------------------
\* For every image of at most SYSSIZE paragraphs, bootsect.S loads every sector
\* where it belongs, in transfers that stay within a track and a segment, and
\* never over itself.
THEOREM LoaderCorrect == Spec => [](LoadedInPlace /\ TransfersFit /\ BootSectorKept)
<1>1. LoadInv => LoadedInPlace
  BY SMT DEF LoadInv
<1>2. LoadInv => TransfersFit
  <2> SUFFICES ASSUME LoadInv, phase = "load"
               PROVE  /\ transfer > 0
                      /\ sread + transfer <= 18
                      /\ bx + transfer * 512 <= 65536
    BY SMT DEF TransfersFit, sectors, SECTOR, WORD
  <2>1. PICK g \in 0 .. 8, k \in 0 .. 127 : Progress(g, k)
    BY SMT DEF LoadInv
  <2>2. bx = 512 * k /\ sread \in 0 .. 17
    BY <2>1, SMT DEF Progress
  <2>3. transfer \in 1 .. 18 /\ sread + transfer <= 18 /\ k + transfer <= 128
    BY <2>2, Transfer, SMT
  <2> QED
    BY <2>2, <2>3, SMT
<1>3. LoadInv => BootSectorKept
  BY Layout, SMT DEF LoadInv, BootSectorKept
<1> QED
  BY <1>1, <1>2, <1>3, LoadStart, LoadStep, PTL DEF Spec

=============================================================================
