------------------------------ MODULE PageFrames ------------------------------
(***************************************************************************)
(* The page frames of ZeOS and how alloc_frame hands them out (mm.c).      *)
(***************************************************************************)
EXTENDS Integers, Functions

CONSTANTS
    NUM_PAG_KERNEL,     \* frames of the kernel
    NUM_PAG_CODE,       \* frames of the user code, shared by all processes
    NUM_PAG_DATA,       \* data and stack pages of one process
    TOTAL_PAGES         \* frames in all

ASSUME FramesAssumption ==
    /\ NUM_PAG_KERNEL \in Nat \ {0}
    /\ NUM_PAG_CODE \in Nat
    /\ NUM_PAG_DATA \in Nat \ {0}
    /\ TOTAL_PAGES \in Nat
    /\ NUM_PAG_KERNEL + NUM_PAG_CODE <= TOTAL_PAGES

Pages  == 0 .. NUM_PAG_DATA - 1
Frames == 0 .. TOTAL_PAGES - 1

\* alloc_frame looks at every second frame from NUM_PAG_KERNEL on.
Allocatable == {f \in Frames : f >= NUM_PAG_KERNEL /\ (f - NUM_PAG_KERNEL) % 2 = 0}

\* fr is what NUM_PAG_DATA successive calls of alloc_frame return: each takes
\* the lowest frame that is still free.
Successive(fr, used) ==
    /\ fr \in [Pages -> Allocatable \ used]
    /\ \A i, j \in Pages : i < j => fr[i] < fr[j]
    /\ \A i \in Pages : \A f \in Allocatable \ used :
          f < fr[i] => \E j \in Pages : j < i /\ fr[j] = f

\* Every way alloc_frame can serve NUM_PAG_DATA calls; empty when it returns -1.
alloc_frame(used) == {fr \in [Pages -> Allocatable \ used] : Successive(fr, used)}

\* What the calls before the one that returns -1 have returned: all that was
\* free, and fewer than NUM_PAG_DATA.
alloc_frame_fails(used) ==
    {fr \in UNION {[0 .. i - 1 -> Allocatable \ used] : i \in Pages} :
        /\ Range(fr) = Allocatable \ used
        /\ \A j, k \in DOMAIN fr : j < k => fr[j] < fr[k]}

\* init_frames and initialize_P0_frames: the kernel and the user code.
Reserved == 0 .. NUM_PAG_KERNEL + NUM_PAG_CODE - 1

\* set_user_pages maps one set of frames for task 0 ...
BootMapped == CHOOSE fr \in alloc_frame(Reserved) : TRUE

\* ... and init_task0 allocates another one for its ph_pages.
BootPages == CHOOSE fr \in alloc_frame(Reserved \cup Range(BootMapped)) : TRUE

ASSUME BootFits ==
    /\ alloc_frame(Reserved) # {}
    /\ alloc_frame(Reserved \cup Range(BootMapped)) # {}

=============================================================================
