----------------------------- MODULE SerialScan -----------------------------
(***************************************************************************)
(* What one call of do_ksm_v3 promises to on_established: the pages of the *)
(* shadow page tables are looked at one after the other, in the order of   *)
(* the tables, each with the hash of its own content, and the number of    *)
(* pages is returned; or the scan fails.  How three threads, a reader, a   *)
(* page worker and a pre-hash worker, keep this promise is the subject of  *)
(* module ScanPipeline.  Module BaskServer builds on it: there a page is   *)
(* taken, compared and put down before the next one.                       *)
(***************************************************************************)
EXTENDS Integers, Sequences

CONSTANTS
    PageCounts    \* entry_cnt of each shadow page table of the descriptor (none is 0)

VARIABLES
    last,      \* the page looked at last, and the hash used for it
    seen,      \* how many pages have been looked at
    result     \* -1: scanning, -2: failed, else what do_ksm_v3 returned

\* Table and index of a page; pages are numbered from 0 as in the code.
Page == [tbl : Nat, idx : Nat]

\* Before the first page.
NoneYet == [tbl |-> 0, idx |-> 0]

\* The page after page p.
NextPage(p) ==
    IF p.tbl \in DOMAIN PageCounts /\ p.idx + 1 < PageCounts[p.tbl]
    THEN [tbl |-> p.tbl, idx |-> p.idx + 1]
    ELSE [tbl |-> p.tbl + 1, idx |-> 0]

IsLastPage(p) ==
    /\ p.tbl = Len(PageCounts)
    /\ p.idx + 1 = PageCounts[p.tbl]

SerialInit ==
    /\ last = [page |-> NoneYet, hash |-> NoneYet]
    /\ seen = 0
    /\ result = -1

\* The next page is looked at, with its own hash.  The thread that looks at
\* the pages may still do so after the scan has failed.
LookAtPage ==
    /\ result \in {-1, -2}
    /\ ~IsLastPage(last.page)
    /\ last' = [page |-> NextPage(last.page), hash |-> NextPage(last.page)]
    /\ seen' = seen + 1
    /\ UNCHANGED result

\* All pages have been looked at: their number is returned.
Return ==
    /\ result = -1
    /\ IsLastPage(last.page)
    /\ result' = seen
    /\ UNCHANGED <<last, seen>>

Fail ==
    /\ result = -1
    /\ result' = -2
    /\ UNCHANGED <<last, seen>>

SerialNext == LookAtPage \/ Return \/ Fail

SerialSpec == SerialInit /\ [][SerialNext]_<<last, seen, result>>
=============================================================================
