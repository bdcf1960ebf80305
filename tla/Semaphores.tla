------------------------------ MODULE Semaphores ------------------------------
(***************************************************************************)
(* What the semaphores of ZeOS promise: Dijkstra's counting semaphores.    *)
(* The value of a semaphore is the number of units it has left or, below   *)
(* zero, the number of processes that wait for one.  A semaphore can be    *)
(* destroyed, which releases all that wait.                                *)
(***************************************************************************)
EXTENDS Integers

CONSTANTS
    Procs,              \* processes
    Sem,                \* semaphores
    Span                \* number of values of the counter

VARIABLES
    open,               \* the semaphores that are initialised
    value,              \* their values, 0 for the others
    waiting             \* who waits on each

vars == <<open, value, waiting>>

Init ==
    /\ open = {}
    /\ value = [s \in Sem |-> 0]
    /\ waiting = [s \in Sem |-> {}]

create(s, v) ==
    /\ s \notin open
    /\ open' = open \cup {s}
    /\ value' = [value EXCEPT ![s] = v]
    /\ UNCHANGED waiting

\* A process that is not waiting anywhere takes a unit, or waits for one.
P(s, t) ==
    /\ s \in open
    /\ \A r \in Sem : t \notin waiting[r]
    /\ value' = [value EXCEPT ![s] = @ - 1]
    /\ waiting' = IF value[s] > 0 THEN waiting ELSE [waiting EXCEPT ![s] = @ \cup {t}]
    /\ UNCHANGED open

\* One that waits gets the unit; if there is none the semaphore keeps it.
V(s) ==
    /\ s \in open
    /\ \/ /\ value[s] < 0
          /\ value' = [value EXCEPT ![s] = @ + 1]
          /\ \E t \in waiting[s] : waiting' = [waiting EXCEPT ![s] = @ \ {t}]
       \/ /\ value[s] >= 0
          /\ value' = [value EXCEPT ![s] = (@ + 1) % Span]
          /\ UNCHANGED waiting
    /\ UNCHANGED open

destroy(s) ==
    /\ s \in open
    /\ open' = open \ {s}
    /\ value' = [value EXCEPT ![s] = 0]
    /\ waiting' = [waiting EXCEPT ![s] = {}]

Next ==
    \E s \in Sem :
        \/ \E v \in 0 .. Span - 1 : create(s, v)
        \/ \E t \in Procs : P(s, t)
        \/ V(s)
        \/ destroy(s)

Spec == Init /\ [][Next]_vars

=============================================================================
