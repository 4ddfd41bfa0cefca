----------------------------- MODULE LossyFifo ------------------------------
(***************************************************************************)
(* What a packet queue of the library promises, whatever its locking:      *)
(* packets are numbered in the order in which they are put; the reader     *)
(* gets each at most once and in that order; a packet that is lost was the *)
(* oldest one waiting, or was skipped by a reader that wants the newest.   *)
(***************************************************************************)
EXTENDS Integers

VARIABLES
    waiting,    \* numbers of the packets put and neither taken nor lost
    put,        \* how many packets have been put
    taken       \* the number of the last packet the reader got, 0 before the first

fifoVars == <<waiting, put, taken>>

IsOldest(n) == n \in waiting /\ \A m \in waiting : n <= m
IsNewest(n) == n \in waiting /\ \A m \in waiting : m <= n

Init == waiting = {} /\ put = 0 /\ taken = 0

Put ==
    /\ put' = put + 1
    /\ waiting' = waiting \cup {put + 1}
    /\ UNCHANGED taken

LoseOldest ==
    /\ \E n \in waiting : IsOldest(n) /\ waiting' = waiting \ {n}
    /\ UNCHANGED <<put, taken>>

TakeOldest ==
    /\ \E n \in waiting : IsOldest(n) /\ taken' = n /\ waiting' = waiting \ {n}
    /\ taken' > taken
    /\ UNCHANGED put

TakeNewest ==
    /\ \E n \in waiting : IsNewest(n) /\ taken' = n
    /\ taken' > taken
    /\ waiting' = {}
    /\ UNCHANGED put

Next == Put \/ LoseOldest \/ TakeOldest \/ TakeNewest

Spec == Init /\ [][Next]_fifoVars

=============================================================================
