-------------------------------- MODULE MCBoot --------------------------------
(***************************************************************************)
(* Boot for TLC, with the real geometry of the disk and the real layout of *)
(* memory.  The sizes are an empty user program, images that end in the    *)
(* middle of a sector or fill the last one, the last segment or two whole  *)
(* segments, the largest image, and a user program that does not fit.      *)
(***************************************************************************)
EXTENDS Boot

Segment == 16 * SYSSEG

Sizes ==
    { <<17, 0>>,
      <<9217, 4097>>,
      <<Segment - 512, 512>>,
      <<Segment, 1>>,
      <<2 * Segment - 40960, 40960>>,
      <<3 * Segment + 700, 11 * PAGE_SIZE>>,
      <<Segment + 3, 11 * PAGE_SIZE + 1>>,
      <<16 * SYSSIZE - 9 * PAGE_SIZE, 9 * PAGE_SIZE>> }

=============================================================================
