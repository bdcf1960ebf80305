------------------------------ MODULE FileStore ------------------------------
(***************************************************************************)
(* What the file system of ZeOS promises to programs that write at the end *)
(* of their files: a file is a sequence of bytes under a name; it starts   *)
(* empty, only grows, and changes by what is written to it and by nothing  *)
(* else.  Directory, FAT and disk (Files) implement it.                    *)
(***************************************************************************)
EXTENDS Integers, Sequences

CONSTANTS
    Names,              \* names of files
    NoWrite             \* the call was not a write to a file

VARIABLES
    content,            \* the bytes of each file that exists
    arg                 \* the last call: name and data of a write, and whether
                        \* the call was done or came back for want of room

vars == <<content, arg>>

Init == content = [n \in {} |-> <<>>] /\ arg = NoWrite

create(n) == content' = [m \in DOMAIN content \cup {n} |-> IF m = n THEN <<>> ELSE content[m]]

unlink(n) == content' = [m \in DOMAIN content \ {n} |-> content[m]]

\* The bytes of data go behind those of the file n: all of them if the write
\* was done, else the first ones.
append(n, data, done) ==
    \E k \in 0 .. Len(data) :
        /\ done => k = Len(data)
        /\ content' = [content EXCEPT ![n] = @ \o SubSeq(data, 1, k)]

Next ==
    \/ /\ arg' = NoWrite
       /\ \/ UNCHANGED content
          \/ \E n \in Names \ DOMAIN content : create(n)
          \/ \E n \in DOMAIN content : unlink(n)
    \/ /\ arg' # NoWrite
       /\ arg'.name \in DOMAIN content
       /\ append(arg'.name, arg'.data, arg'.done)

Spec == Init /\ [][Next]_vars

=============================================================================
