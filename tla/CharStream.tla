------------------------------ MODULE CharStream ------------------------------
(***************************************************************************)
(* What the keyboard promises to programs: the characters that are typed   *)
(* form one stream, and every read takes the next ones, in their order,    *)
(* without leaving one out or giving one twice, as long as the programs    *)
(* keep up with the typing.  A character is the number of the key stroke   *)
(* it comes from.                                                          *)
(***************************************************************************)
EXTENDS Naturals

CONSTANT
    Capacity            \* characters that can be kept for later reads

VARIABLES
    typed,              \* characters typed so far
    taken,              \* characters given to programs so far
    last,               \* what the last read that ended put in its buffer
    overrun             \* more were kept than can be, and not all are taken yet

vars == <<typed, taken, last, overrun>>

Init == typed = 0 /\ taken = 0 /\ last = <<>> /\ overrun = FALSE

\* Only a character beyond the capacity may overrun the stream.
type ==
    /\ typed' = typed + 1
    /\ overrun => overrun'
    /\ overrun' => overrun \/ typed' - taken > Capacity
    /\ UNCHANGED <<taken, last>>

\* A read of n characters ends, when that many are there.  In a stream that was
\* overrun they are any that were typed, until all that were counted are taken.
read(n) ==
    /\ taken + n <= typed'
    /\ IF overrun
       THEN last' \in [1 .. n -> 1 .. typed']
       ELSE last' = [i \in 1 .. n |-> taken + i]
    /\ taken' = taken + n
    /\ overrun' = (overrun /\ taken' < typed')

\* A key stroke may end the read that waits for it.
Next ==
    \/ type
    \/ \E n \in 0 .. typed + 1 :
          /\ typed' \in {typed, typed + 1}
          /\ read(n)

Spec == Init /\ [][Next]_vars

=============================================================================
