---------------------------- MODULE ScanPipeline ----------------------------
(***************************************************************************)
(* The three threads that scan the pages of one metadata descriptor        *)
(* (codes/bask/server.c do_ksm_v3 and ksm_page_worker, codes/bask/server.h *)
(* pre_hash_worker):                                                       *)
(*                                                                         *)
(*   - the main thread reads the pages of each shadow page table from the  *)
(*     host, MAX_PAGES_IN_SGL at a time, into a new buffer, hands the      *)
(*     buffer to the page worker through worker_todo, and frees the buffer *)
(*     handed over before;                                                 *)
(*   - the page worker looks at the pages of the buffer one by one, holding*)
(*     page_worker_mutex for the whole job, and has the pre-hash worker    *)
(*     work ahead of it, PRE_HASH_NUM pages at a time;                     *)
(*   - the pre-hash worker fills pre_hash_pair_chunk with hashes and counts*)
(*     them in pre_hash_pair_curr_idx, until it is done or told to STOP.   *)
(*                                                                         *)
(* A page is its table and its index in the table; the hash of a page's    *)
(* content is written as the page itself, so a wrong hash shows.  A turn   *)
(* of a loop that finds its condition false and tries again (the spins on  *)
(* the mutex and on the spin lock) changes nothing and is no step.  malloc *)
(* may return an address that was freed before.  A read of a freed buffer  *)
(* yields anything, or ends the process.                                   *)
(***************************************************************************)
EXTENDS Integers, Sequences, FiniteSets

CONSTANTS
    PageCounts,        \* entry_cnt of each shadow page table of the descriptor
    MAX_PAGES_IN_SGL,  \* most pages of one buffer
    PRE_HASH_NUM,      \* entries of pre_hash_pair_chunk
    PRE_HASH_ON,       \* FALSE: started with "no_pre_hash_opt"
    Buffers,           \* addresses malloc may return
    NoBuf              \* NULL

ASSUME PipelineAssumption ==
    /\ PageCounts \in Seq(Nat \ {0})
    /\ PageCounts # <<>>
    /\ MAX_PAGES_IN_SGL \in Nat \ {0}
    /\ PRE_HASH_NUM \in Nat \ {0}
    /\ PRE_HASH_ON \in BOOLEAN
    /\ NoBuf \notin Buffers

VARIABLES
    main_pc, tbl, sgl_idx,             \* do_ksm_v3: where it is, i, sgl_idx
    page_buf, prev_page_buf,           \* its two buffers
    scanned_cnt,
    worker_todo,                       \* the job of the page worker
    worker_pc, worker_i, pre_hit,      \* ksm_page_worker: where it is, i, the lookup
    pre_hash_worker_status,
    pre_hash_base,                     \* pre_hash_pair_table_base_ptr
    pre_hash_max_idx, pre_hash_curr_idx, pre_hash_pair_chunk,
    pre_pc, pre_i,                     \* pre_hash_worker: where it is, i
    heap,                              \* buffers allocated and what they hold
    last, seen                         \* history: the page looked at last, how many

mainVars == <<main_pc, tbl, sgl_idx, page_buf, prev_page_buf, scanned_cnt>>
workerVars == <<worker_pc, worker_i, pre_hit, last, seen>>
preShared == <<pre_hash_worker_status, pre_hash_base, pre_hash_max_idx, pre_hash_curr_idx>>
preVars == <<pre_pc, pre_i, pre_hash_pair_chunk>>
vars == <<mainVars, worker_todo, workerVars, preShared, preVars, heap>>

-----------------------------------------------------------------------------
(***************************************************************************)
(* Data                                                                    *)
(***************************************************************************)
Tables == DOMAIN PageCounts

\* Pages; the hash of a page is the page.  NoHash is a cleared entry of the
\* chunk, Garbage what hashing a freed buffer gives.
Page == [tbl : Nat, idx : Nat]
NoneYet == [tbl |-> 0, idx |-> 0]
NoHash == NoneYet
Garbage == [tbl |-> 0, idx |-> 1]

Slots == 0..PRE_HASH_NUM - 1

\* A buffer holds num pages of table tbl, the first of them with index first.
Unused == [tbl |-> 0, first |-> 0, num |-> 0]
Allocated(b) == heap[b].num > 0
Holds(b, off) == Allocated(b) /\ off < heap[b].num
PageAt(b, off) == [tbl |-> heap[b].tbl, idx |-> heap[b].first + off]

NoJob == [tbl |-> 0, pages_buf |-> NoBuf, num_pages |-> 0, idx_adjust |-> 0,
          status |-> "WORKER_READY"]

sgl_nums(t) == (PageCounts[t] + MAX_PAGES_IN_SGL - 1) \div MAX_PAGES_IN_SGL

this_sgl_size(t, s) ==
    IF s = sgl_nums(t) - 1 THEN PageCounts[t] - s * MAX_PAGES_IN_SGL
                           ELSE MAX_PAGES_IN_SGL

-----------------------------------------------------------------------------
(***************************************************************************)
(* do_ksm_v3                                                               *)
(***************************************************************************)

\* page_worker_mutex is free.  The page worker holds it during a job.
MutexFree == worker_pc = "idle"

\* The next buffer is allocated and filled by an RDMA read.
ReadPages ==
    /\ main_pc = "read"
    /\ \E b \in Buffers :
         /\ ~Allocated(b)
         /\ heap' = [heap EXCEPT ![b] = [tbl |-> tbl,
                                         first |-> sgl_idx * MAX_PAGES_IN_SGL,
                                         num |-> this_sgl_size(tbl, sgl_idx)]]
         /\ page_buf' = b
    /\ main_pc' = "handoff"
    /\ UNCHANGED <<tbl, sgl_idx, prev_page_buf, scanned_cnt, worker_todo,
                   workerVars, preShared, preVars>>

\* An allocation, a registration or a read fails: do_ksm_v3 returns -1.
ReadFails ==
    /\ main_pc = "read"
    /\ main_pc' = "failed"
    /\ UNCHANGED <<tbl, sgl_idx, page_buf, prev_page_buf, scanned_cnt, worker_todo,
                   workerVars, preShared, preVars, heap>>

\* The buffer is handed to the page worker once it has no other job.
HandOff ==
    /\ main_pc = "handoff"
    /\ MutexFree
    /\ worker_todo.status \in {"WORK_DONE", "WORKER_READY"}
    /\ scanned_cnt' = scanned_cnt + worker_todo.num_pages
    /\ worker_todo' = [tbl |-> tbl, pages_buf |-> page_buf,
                       num_pages |-> this_sgl_size(tbl, sgl_idx),
                       idx_adjust |-> sgl_idx * MAX_PAGES_IN_SGL,
                       status |-> "DATA_READY"]
    /\ main_pc' = "free"
    /\ UNCHANGED <<tbl, sgl_idx, page_buf, prev_page_buf,
                   workerVars, preShared, preVars, heap>>

FreeBuf(b) == IF b = NoBuf THEN heap ELSE [heap EXCEPT ![b] = Unused]

\* The buffer handed over before is freed; the next one is read, or the
\* table is at its end.
\* Mutant: the buffer just handed over is freed.
FreePrev_TooEarly ==
    /\ main_pc = "free"
    /\ heap' = FreeBuf(page_buf)
    /\ prev_page_buf' = page_buf
    /\ \/ /\ sgl_idx + 1 < sgl_nums(tbl)
          /\ sgl_idx' = sgl_idx + 1
          /\ main_pc' = "read"
       \/ /\ sgl_idx + 1 >= sgl_nums(tbl)
          /\ main_pc' = "join"
          /\ UNCHANGED sgl_idx
    /\ UNCHANGED <<tbl, page_buf, scanned_cnt, worker_todo,
                   workerVars, preShared, preVars>>

FreePrev ==
    /\ main_pc = "free"
    /\ heap' = FreeBuf(prev_page_buf)
    /\ prev_page_buf' = page_buf
    /\ \/ /\ sgl_idx + 1 < sgl_nums(tbl)
          /\ sgl_idx' = sgl_idx + 1
          /\ main_pc' = "read"
       \/ /\ sgl_idx + 1 >= sgl_nums(tbl)
          /\ main_pc' = "join"
          /\ UNCHANGED sgl_idx
    /\ UNCHANGED <<tbl, page_buf, scanned_cnt, worker_todo,
                   workerVars, preShared, preVars>>

\* Mutant: the pages of the last job of a table are not counted.
Join_NotCounted ==
    /\ main_pc = "join"
    /\ MutexFree
    /\ worker_todo.status = "WORK_DONE"
    /\ worker_todo' = NoJob
    /\ main_pc' = "freelast"
    /\ UNCHANGED <<tbl, sgl_idx, page_buf, prev_page_buf, scanned_cnt,
                   workerVars, preShared, preVars, heap>>

\* At the end of a table the last job is waited for.
Join ==
    /\ main_pc = "join"
    /\ MutexFree
    /\ worker_todo.status = "WORK_DONE"
    /\ scanned_cnt' = scanned_cnt + worker_todo.num_pages
    /\ worker_todo' = NoJob
    /\ main_pc' = "freelast"
    /\ UNCHANGED <<tbl, sgl_idx, page_buf, prev_page_buf,
                   workerVars, preShared, preVars, heap>>

\* Its buffer is freed, and the next table is read or the scan returns.
FreeLast ==
    /\ main_pc = "freelast"
    /\ heap' = FreeBuf(prev_page_buf)
    /\ prev_page_buf' = NoBuf
    /\ sgl_idx' = 0
    /\ \/ /\ tbl + 1 \in Tables
          /\ tbl' = tbl + 1
          /\ main_pc' = "read"
       \/ /\ tbl + 1 \notin Tables
          /\ main_pc' = "done"
          /\ UNCHANGED tbl
    /\ UNCHANGED <<page_buf, scanned_cnt, worker_todo,
                   workerVars, preShared, preVars>>

do_ksm_v3 == ReadPages \/ ReadFails \/ HandOff \/ FreePrev \/ Join \/ FreeLast

-----------------------------------------------------------------------------
(***************************************************************************)
(* ksm_page_worker                                                         *)
(***************************************************************************)

\* The worker locks the mutex and finds a job.
TakeJob ==
    /\ worker_pc = "idle"
    /\ worker_todo.status = "DATA_READY"
    /\ worker_pc' = "loop"
    /\ worker_i' = 0
    /\ UNCHANGED <<mainVars, worker_todo, pre_hit, last, seen,
                   preShared, preVars, heap>>

\* The pre-hash worker is set to work on the next pages before this one.
StartsPreHash == PRE_HASH_ON /\ worker_i % PRE_HASH_NUM = 0

\* start_pre_hash_pair_table, the pre-hash worker being free.
\* Mutant: a worker that has been told to stop counts as free.
PreHashFree_Stopping == pre_hash_worker_status \in {"WORKER_READY", "WORK_DONE", "STOP"}

PreHashFree == pre_hash_worker_status \in {"WORKER_READY", "WORK_DONE"}

\* The pages the pre-hash worker is to hash: the rest of the job, as far as
\* the chunk has room.
\* Mutant: the room is not looked at.
max_idx_NoCap == worker_todo.num_pages - worker_i

max_idx ==
    LET diff == worker_todo.num_pages - worker_i
    IN  IF diff > PRE_HASH_NUM THEN PRE_HASH_NUM ELSE diff

start_pre_hash_pair_table ==
    /\ worker_pc = "loop"
    /\ worker_i < worker_todo.num_pages
    /\ StartsPreHash
    /\ PreHashFree
    /\ pre_hash_max_idx' = max_idx
    /\ pre_hash_base' = [buf |-> worker_todo.pages_buf, off |-> worker_i]
    /\ pre_hash_curr_idx' = 0
    /\ pre_hash_worker_status' = "DATA_READY"
    /\ worker_pc' = "lookup"
    /\ UNCHANGED <<mainVars, worker_todo, worker_i, pre_hit, last, seen,
                   preVars, heap>>

\* start_pre_hash_pair_table, the pre-hash worker being at work.
StopPreHash ==
    /\ worker_pc = "loop"
    /\ worker_i < worker_todo.num_pages
    /\ StartsPreHash
    /\ pre_hash_worker_status = "IN_PROGRESS"
    /\ pre_hash_worker_status' = "STOP"
    /\ UNCHANGED <<mainVars, worker_todo, workerVars, pre_hash_base,
                   pre_hash_max_idx, pre_hash_curr_idx, preVars, heap>>

NoPreHashStart ==
    /\ worker_pc = "loop"
    /\ worker_i < worker_todo.num_pages
    /\ ~StartsPreHash
    /\ worker_pc' = "lookup"
    /\ UNCHANGED <<mainVars, worker_todo, worker_i, pre_hit, last, seen,
                   preShared, preVars, heap>>

\* The entry of the chunk for the page in hand.
page_idx == worker_i - pre_hash_base.off

\* lookup_pre_hash_pair: has the page been hashed already?
lookup_pre_hash_pair ==
    /\ worker_pc = "lookup"
    /\ pre_hit' = (PRE_HASH_ON /\ page_idx < pre_hash_curr_idx)
    /\ worker_pc' = "use"
    /\ UNCHANGED <<mainVars, worker_todo, worker_i, last, seen,
                   preShared, preVars, heap>>

\* The page is looked at, with the hash calculate_hash_pair returns: the one
\* of the chunk, or one computed from the buffer.
LookAt(hash) ==
    /\ last' = [page |-> [tbl |-> worker_todo.tbl, idx |-> worker_todo.idx_adjust + worker_i],
                hash |-> hash]
    /\ seen' = seen + 1
    /\ worker_i' = worker_i + 1
    /\ worker_pc' = "loop"

calculate_hash_pair ==
    /\ worker_pc = "use"
    /\ \/ /\ pre_hit
          /\ LookAt(pre_hash_pair_chunk[page_idx])
       \/ /\ ~pre_hit
          /\ Holds(worker_todo.pages_buf, worker_i)
          /\ LookAt(PageAt(worker_todo.pages_buf, worker_i))
    /\ UNCHANGED <<mainVars, worker_todo, pre_hit, preShared, preVars, heap>>

\* All pages of the job have been looked at; the mutex is released.
FinishJob ==
    /\ worker_pc = "loop"
    /\ worker_i >= worker_todo.num_pages
    /\ worker_todo' = [worker_todo EXCEPT !.status = "WORK_DONE"]
    /\ worker_pc' = "idle"
    /\ UNCHANGED <<mainVars, worker_i, pre_hit, last, seen,
                   preShared, preVars, heap>>

ksm_page_worker ==
    \/ TakeJob
    \/ start_pre_hash_pair_table
    \/ StopPreHash
    \/ NoPreHashStart
    \/ lookup_pre_hash_pair
    \/ calculate_hash_pair
    \/ FinishJob

-----------------------------------------------------------------------------
(***************************************************************************)
(* pre_hash_worker                                                         *)
(***************************************************************************)

\* New work is taken under the lock.
PreHashTake ==
    /\ pre_pc = "poll"
    /\ pre_hash_worker_status = "DATA_READY"
    /\ pre_hash_worker_status' = "IN_PROGRESS"
    /\ pre_pc' = "clear"
    /\ UNCHANGED <<mainVars, worker_todo, workerVars, pre_hash_base, pre_hash_max_idx,
                   pre_hash_curr_idx, pre_i, pre_hash_pair_chunk, heap>>

\* The chunk is cleared.
PreHashClear ==
    /\ pre_pc = "clear"
    /\ pre_hash_pair_chunk' = [k \in Slots |-> NoHash]
    /\ pre_i' = 0
    /\ pre_pc' = "check"
    /\ UNCHANGED <<mainVars, worker_todo, workerVars, preShared, heap>>

\* Head of the loop: at its end, or told to stop, or on with page pre_i.
PreHashCheck ==
    /\ pre_pc = "check"
    /\ pre_pc' = IF pre_i < pre_hash_max_idx /\ pre_hash_worker_status # "STOP"
                 THEN "hash" ELSE "finish"
    /\ UNCHANGED <<mainVars, worker_todo, workerVars, preShared, pre_i,
                   pre_hash_pair_chunk, heap>>

\* One page is hashed.  The main thread may have freed its buffer.
PreHashOne ==
    /\ pre_pc = "hash"
    /\ LET off == pre_hash_base.off + pre_i
       IN  \/ /\ Holds(pre_hash_base.buf, off)
              /\ pre_hash_pair_chunk' =
                    [pre_hash_pair_chunk EXCEPT ![pre_i] = PageAt(pre_hash_base.buf, off)]
           \/ /\ ~Holds(pre_hash_base.buf, off)
              /\ pre_hash_pair_chunk' = [pre_hash_pair_chunk EXCEPT ![pre_i] = Garbage]
    /\ pre_pc' = "count"
    /\ UNCHANGED <<mainVars, worker_todo, workerVars, preShared, pre_i, heap>>

\* Reading the freed buffer ends the process, and the scan if it is not over.
PreHashFault ==
    /\ pre_pc = "hash"
    /\ ~Holds(pre_hash_base.buf, pre_hash_base.off + pre_i)
    /\ pre_pc' = "dead"
    /\ worker_pc' = "dead"
    /\ main_pc' = IF main_pc = "done" THEN "done" ELSE "failed"
    /\ UNCHANGED <<tbl, sgl_idx, page_buf, prev_page_buf, scanned_cnt, worker_todo,
                   worker_i, pre_hit, last, seen, preShared, pre_i,
                   pre_hash_pair_chunk, heap>>

\* The page is counted.
PreHashCount ==
    /\ pre_pc = "count"
    /\ pre_hash_curr_idx' = pre_hash_curr_idx + 1
    /\ pre_i' = pre_i + 1
    /\ pre_pc' = "check"
    /\ UNCHANGED <<mainVars, worker_todo, workerVars, pre_hash_worker_status, pre_hash_base,
                   pre_hash_max_idx, pre_hash_pair_chunk, heap>>

\* The end is reported, also the one that was asked for.
\* Mutant: only a loop that ran to its end is reported.
PreHashFinish_NotWhenStopped ==
    /\ pre_pc = "finish"
    /\ pre_hash_worker_status' = IF pre_hash_worker_status = "STOP" THEN "STOP" ELSE "WORK_DONE"
    /\ pre_pc' = "poll"
    /\ UNCHANGED <<mainVars, worker_todo, workerVars, pre_hash_base, pre_hash_max_idx,
                   pre_hash_curr_idx, pre_i, pre_hash_pair_chunk, heap>>

PreHashFinish ==
    /\ pre_pc = "finish"
    /\ pre_hash_worker_status' = "WORK_DONE"
    /\ pre_pc' = "poll"
    /\ UNCHANGED <<mainVars, worker_todo, workerVars, pre_hash_base, pre_hash_max_idx,
                   pre_hash_curr_idx, pre_i, pre_hash_pair_chunk, heap>>

pre_hash_worker ==
    \/ PreHashTake
    \/ PreHashClear
    \/ PreHashCheck
    \/ PreHashOne
    \/ PreHashFault
    \/ PreHashCount
    \/ PreHashFinish

-----------------------------------------------------------------------------
Init ==
    /\ main_pc = "read" /\ tbl = 1 /\ sgl_idx = 0
    /\ page_buf = NoBuf /\ prev_page_buf = NoBuf
    /\ scanned_cnt = 0
    /\ worker_todo = NoJob
    /\ worker_pc = "idle" /\ worker_i = 0 /\ pre_hit = FALSE
    /\ pre_hash_worker_status = "WORKER_READY"
    /\ pre_hash_base = [buf |-> NoBuf, off |-> 0]
    /\ pre_hash_max_idx = 0 /\ pre_hash_curr_idx = 0
    /\ pre_hash_pair_chunk = [k \in Slots |-> NoHash]
    /\ pre_pc = "poll" /\ pre_i = 0
    /\ heap = [b \in Buffers |-> Unused]
    /\ last = [page |-> NoneYet, hash |-> NoneYet]
    /\ seen = 0

\* The scan is over and no thread has anything left to do.
Over ==
    /\ main_pc \in {"done", "failed"}
    /\ \/ worker_pc = "dead"
       \/ /\ worker_pc = "idle" /\ worker_todo.status # "DATA_READY"
          /\ pre_pc = "poll" /\ pre_hash_worker_status # "DATA_READY"
    /\ UNCHANGED vars

Next == do_ksm_v3 \/ ksm_page_worker \/ pre_hash_worker \/ Over

Spec == Init /\ [][Next]_vars

\* Each thread runs on; a lock that is free again and again is got in the end.
FairSpec ==
    /\ Spec
    /\ WF_vars(do_ksm_v3)
    /\ WF_vars(ksm_page_worker)
    /\ WF_vars(pre_hash_worker)

-----------------------------------------------------------------------------
(***************************************************************************)
(* Properties                                                              *)
(***************************************************************************)

\* Every variable has its type.
TypeOK ==
    /\ main_pc \in {"read", "handoff", "free", "join", "freelast", "done", "failed"}
    /\ tbl \in Tables /\ sgl_idx \in Nat
    /\ page_buf \in Buffers \cup {NoBuf} /\ prev_page_buf \in Buffers \cup {NoBuf}
    /\ scanned_cnt \in Nat
    /\ worker_todo \in [tbl : Nat, pages_buf : Buffers \cup {NoBuf}, num_pages : Nat,
                        idx_adjust : Nat,
                        status : {"WORKER_READY", "DATA_READY", "WORK_DONE"}]
    /\ worker_pc \in {"idle", "loop", "lookup", "use", "dead"}
    /\ worker_i \in Nat /\ pre_hit \in BOOLEAN
    /\ pre_hash_worker_status \in
          {"WORKER_READY", "DATA_READY", "IN_PROGRESS", "WORK_DONE", "STOP"}
    /\ pre_hash_base \in [buf : Buffers \cup {NoBuf}, off : Nat]
    /\ pre_hash_max_idx \in 0..PRE_HASH_NUM /\ pre_hash_curr_idx \in 0..PRE_HASH_NUM
    /\ pre_hash_pair_chunk \in [Slots -> Page]
    /\ pre_pc \in {"poll", "clear", "check", "hash", "count", "finish", "dead"}
    /\ pre_i \in 0..PRE_HASH_NUM
    /\ heap \in [Buffers -> [tbl : Nat, first : Nat, num : Nat]]
    /\ last \in [page : Page, hash : Page]
    /\ seen \in Nat

\* The buffer of a job is allocated, with the pages the job is about, from
\* the hand-over until the worker is done, and the main thread never owns a
\* third buffer (double buffering: the next read overlaps with the job).
JobBufferHeld ==
    /\ worker_todo.status = "DATA_READY" =>
         /\ Allocated(worker_todo.pages_buf)
         /\ heap[worker_todo.pages_buf] =
              [tbl |-> worker_todo.tbl, first |-> worker_todo.idx_adjust,
               num |-> worker_todo.num_pages]
    /\ Cardinality({b \in Buffers : Allocated(b)}) <= 2
    /\ main_pc = "done" => \A b \in Buffers : ~Allocated(b)

\* The test page_idx >= PRE_HASH_NUM of lookup_pre_hash_pair never stops the
\* server: the chunk always belongs to the pages the worker is at, and what
\* counts as hashed is what the pre-hash worker filled in for them.
PreHashInStep ==
    (PRE_HASH_ON /\ worker_pc \in {"lookup", "use"}) =>
        /\ pre_hash_base.buf = worker_todo.pages_buf
        /\ page_idx \in Slots
        /\ \A k \in Slots : k < pre_hash_curr_idx =>
              pre_hash_pair_chunk[k] = PageAt(pre_hash_base.buf, pre_hash_base.off + k)

\* The scan implements the serial scan: every page once, in order, with the
\* hash of its own content, whatever the pre-hash worker has been doing in
\* the meantime, and the returned count is the number of pages.
Serial == INSTANCE SerialScan WITH
    result <- IF main_pc = "done" THEN scanned_cnt
              ELSE IF main_pc = "failed" THEN -2 ELSE -1

ScansSerially == Serial!SerialSpec

\* The scan ends: no thread waits for ever for another one.
ScanEnds == <>(main_pc \in {"done", "failed"})
=============================================================================
