---------------------------- MODULE GuestMemory ----------------------------
(***************************************************************************)
(* What page deduplication promises the guests: the memory of a guest page *)
(* is what the guest last put there.  Whatever the scanner merges, splits, *)
(* undoes or forgets, memory changes only by an operation of the guest,    *)
(* and an operation on one page changes no other page.                     *)
(***************************************************************************)
EXTENDS Integers

CONSTANTS
    Items,    \* guest pages
    Hashes,   \* page contents
    NullHash  \* the page is not there

VARIABLES
    mem,  \* page -> content
    ops   \* guest operations so far

Init ==
    /\ mem \in [Items -> Hashes \cup {NullHash}]
    /\ ops = 0

\* The guest writes to page i, touches it for the first time or drops it.
GuestOp(i, v) ==
    /\ mem' = [mem EXCEPT ![i] = v]
    /\ ops' = ops + 1

Next == \E i \in Items, v \in Hashes \cup {NullHash} : GuestOp(i, v)

Spec == Init /\ [][Next]_<<mem, ops>>
=============================================================================
