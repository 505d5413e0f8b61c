------------------------- MODULE ScanPipeline_proofs -------------------------
(***************************************************************************)
(* ScanPipeline for all page counts, buffer sizes, chunk sizes and sets of *)
(* addresses: no thread of the scan touches a page that is not in memory,  *)
(* the chunk of hashes is never taken for one of other pages, and the      *)
(* three threads together do what the serial scan of SerialScan does.      *)
(*                                                                         *)
(* PipeInv ties the three threads together: which buffers are allocated at *)
(* each place of do_ksm_v3 and which of them is the job's; how far the     *)
(* page worker is, and with it the history variables; and for which pages  *)
(* the pre-hash worker fills the chunk.  The last part is only claimed     *)
(* while the worker is InStep with the chunk, since the pre-hash worker    *)
(* may go on with a buffer that is gone after the worker has left it.      *)
(***************************************************************************)
EXTENDS ScanPipeline, FiniteSetTheorems, TLAPS

\* The first page of buffer s of a table, and the page behind its last one.
FirstOf(s) == s * MAX_PAGES_IN_SGL

\* What the next read of the main thread puts into a buffer.
ThisBuffer == [tbl |-> tbl, first |-> FirstOf(sgl_idx), num |-> this_sgl_size(tbl, sgl_idx)]

AllocatedSet == {b \in Buffers : Allocated(b)}

\* A job is handed over and not done.
Busy == worker_todo.status = "DATA_READY"

-----------------------------------------------------------------------------
(* The main thread: its buffers, and the job it last handed over.          *)

\* The job that is left from the buffer before this one, if there was one.
OldJob ==
  /\ sgl_idx = 0 => worker_todo = NoJob /\ prev_page_buf = NoBuf
  /\ sgl_idx > 0 => /\ prev_page_buf \in Buffers
                    /\ worker_todo.pages_buf = prev_page_buf
                    /\ worker_todo.tbl = tbl
                    /\ worker_todo.idx_adjust + worker_todo.num_pages = FirstOf(sgl_idx)
                    /\ worker_todo.status # "WORKER_READY"

\* The job of this buffer.
ThisJob ==
  /\ page_buf \in Buffers
  /\ worker_todo.pages_buf = page_buf
  /\ worker_todo.tbl = tbl
  /\ worker_todo.idx_adjust = FirstOf(sgl_idx)
  /\ worker_todo.num_pages = this_sgl_size(tbl, sgl_idx)
  /\ worker_todo.status # "WORKER_READY"

MainInv ==
  /\ sgl_idx < sgl_nums(tbl)
  /\ main_pc = "read" => OldJob /\ AllocatedSet = {prev_page_buf} \ {NoBuf}
  /\ main_pc = "handoff" =>
       /\ OldJob
       /\ page_buf \in Buffers /\ page_buf # prev_page_buf
       /\ AllocatedSet = {page_buf, prev_page_buf} \ {NoBuf}
       /\ heap[page_buf] = ThisBuffer
  /\ main_pc = "free" =>
       /\ ThisJob
       /\ page_buf # prev_page_buf
       /\ AllocatedSet = {page_buf, prev_page_buf} \ {NoBuf}
  /\ main_pc = "join" =>
       /\ ThisJob
       /\ prev_page_buf = page_buf /\ sgl_idx + 1 = sgl_nums(tbl)
       /\ AllocatedSet = {page_buf}
  /\ main_pc = "freelast" =>
       /\ worker_todo = NoJob
       /\ prev_page_buf \in Buffers /\ AllocatedSet = {prev_page_buf}
       /\ sgl_idx + 1 = sgl_nums(tbl)
  /\ main_pc = "done" => worker_todo = NoJob /\ AllocatedSet = {} /\ tbl = Len(PageCounts)
  /\ main_pc = "failed" => AllocatedSet \subseteq {page_buf, prev_page_buf}

\* The job in hand has its pages in memory.
JobInv ==
  Busy => /\ worker_todo.pages_buf \in Buffers
          /\ worker_todo.tbl \in Tables
          /\ worker_todo.num_pages > 0
          /\ worker_todo.idx_adjust + worker_todo.num_pages <= PageCounts[worker_todo.tbl]
          /\ heap[worker_todo.pages_buf] =
               [tbl |-> worker_todo.tbl, first |-> worker_todo.idx_adjust,
                num |-> worker_todo.num_pages]

\* The page worker has its mutex for as long as its job lasts.
WorkerInv ==
  /\ worker_pc \in {"loop", "lookup", "use"} => Busy /\ worker_i <= worker_todo.num_pages
  /\ worker_pc \in {"lookup", "use"} => worker_i < worker_todo.num_pages
  /\ worker_pc = "dead" => main_pc \in {"done", "failed"}
  /\ worker_pc = "dead" <=> pre_pc = "dead"

-----------------------------------------------------------------------------
(* The pre-hash worker.                                                    *)

\* The worker is at a page of the chunk that was started last.
AtChunk ==
  /\ pre_hash_base.buf = worker_todo.pages_buf
  /\ pre_hash_base.off % PRE_HASH_NUM = 0
  /\ pre_hash_base.off <= worker_i /\ worker_i < pre_hash_base.off + PRE_HASH_NUM
  /\ pre_hash_base.off + pre_hash_max_idx <= worker_todo.num_pages

InStep ==
  /\ PRE_HASH_ON
  /\ \/ worker_pc \in {"lookup", "use"}
     \/ worker_pc = "loop" /\ worker_i % PRE_HASH_NUM # 0

\* Entry k of the chunk has the hash of its page.
Filled(k) == pre_hash_pair_chunk[k] = PageAt(pre_hash_base.buf, pre_hash_base.off + k)

PreInv ==
  /\ pre_pc = "poll" => pre_hash_worker_status \in {"WORKER_READY", "DATA_READY", "WORK_DONE"}
  /\ pre_pc \in {"clear", "check", "hash", "count", "finish"} =>
       pre_hash_worker_status \in {"IN_PROGRESS", "STOP"}
  /\ pre_hash_worker_status = "DATA_READY" \/ pre_pc = "clear" => pre_hash_curr_idx = 0
  /\ pre_pc \in {"check", "hash", "count", "finish"} => pre_hash_curr_idx = pre_i
  /\ pre_pc \in {"hash", "count"} => pre_i < pre_hash_max_idx
  /\ pre_hash_curr_idx <= pre_hash_max_idx
  /\ pre_hash_worker_status # "WORKER_READY" => pre_hash_base.buf \in Buffers

StepInv ==
  /\ InStep => /\ AtChunk
               /\ \A k \in Slots : k < pre_hash_curr_idx => Filled(k)
               /\ pre_pc = "count" => Filled(pre_i)
  /\ worker_pc = "use" => (pre_hit => PRE_HASH_ON /\ page_idx < pre_hash_curr_idx)

-----------------------------------------------------------------------------
(* The history variables.                                                  *)

\* Pages of the job looked at.
Looked ==
  IF Busy THEN (IF worker_pc = "idle" THEN 0 ELSE worker_i) ELSE worker_todo.num_pages

\* The page before page idx of table t.
Before(t, idx) ==
  IF idx > 0 THEN [tbl |-> t, idx |-> idx - 1]
  ELSE IF t = 1 THEN NoneYet ELSE [tbl |-> t - 1, idx |-> PageCounts[t - 1] - 1]

HistoryInv ==
  /\ last.hash = last.page
  /\ main_pc \in {"read", "handoff", "free", "join", "freelast", "done"} =>
       seen = scanned_cnt + Looked
  /\ Busy /\ worker_pc # "dead" =>
       last.page = Before(worker_todo.tbl, worker_todo.idx_adjust + Looked)
  /\ ~Busy => /\ main_pc \in {"read", "handoff"} => last.page = Before(tbl, FirstOf(sgl_idx))
              /\ main_pc \in {"free", "join"} =>
                   last.page = Before(tbl, worker_todo.idx_adjust + worker_todo.num_pages)
              /\ main_pc \in {"freelast", "done"} => last.page = Before(tbl, PageCounts[tbl])

\* TypeOK in three parts.
TypeMain ==
  /\ main_pc \in {"read", "handoff", "free", "join", "freelast", "done", "failed"}
  /\ tbl \in Tables /\ sgl_idx \in Nat
  /\ page_buf \in Buffers \cup {NoBuf} /\ prev_page_buf \in Buffers \cup {NoBuf}
  /\ scanned_cnt \in Nat
  /\ heap \in [Buffers -> [tbl : Nat, first : Nat, num : Nat]]

TypeWorker ==
  /\ worker_todo \in [tbl : Nat, pages_buf : Buffers \cup {NoBuf}, num_pages : Nat,
                      idx_adjust : Nat,
                      status : {"WORKER_READY", "DATA_READY", "WORK_DONE"}]
  /\ worker_pc \in {"idle", "loop", "lookup", "use", "dead"}
  /\ worker_i \in Nat /\ pre_hit \in BOOLEAN
  /\ last \in [page : Page, hash : Page]
  /\ seen \in Nat

TypePre ==
  /\ pre_hash_worker_status \in
        {"WORKER_READY", "DATA_READY", "IN_PROGRESS", "WORK_DONE", "STOP"}
  /\ pre_hash_base \in [buf : Buffers \cup {NoBuf}, off : Nat]
  /\ pre_hash_max_idx \in 0..PRE_HASH_NUM /\ pre_hash_curr_idx \in 0..PRE_HASH_NUM
  /\ pre_hash_pair_chunk \in [Slots -> Page]
  /\ pre_pc \in {"poll", "clear", "check", "hash", "count", "finish", "dead"}
  /\ pre_i \in 0..PRE_HASH_NUM

PipeInv ==
  /\ TypeMain /\ TypeWorker /\ TypePre
  /\ MainInv /\ JobInv /\ WorkerInv /\ PreInv /\ StepInv /\ HistoryInv

-----------------------------------------------------------------------------
(* Arithmetic.                                                             *)

\* Quotient and remainder.
LEMMA DivFacts ==
  ASSUME NEW a \in Nat, NEW m \in Nat \ {0}
  PROVE  /\ a \div m \in Nat /\ a % m \in 0 .. m - 1
         /\ (a \div m) * m <= a /\ a < (a \div m) * m + m
  OBVIOUS

LEMMA MulMonotone ==
  ASSUME NEW a \in Nat, NEW b \in Nat, NEW m \in Nat, a <= b
  PROVE  a * m \in Nat /\ b * m \in Nat /\ a * m <= b * m
  OBVIOUS

LEMMA MulNext ==
  ASSUME NEW a \in Nat, NEW m \in Nat
  PROVE  (a + 1) * m = a * m + m
  OBVIOUS

LEMMA ModZero ==
  ASSUME NEW n \in Nat \ {0}
  PROVE  0 % n = 0
  OBVIOUS

LEMMA ModOfProduct ==
  ASSUME NEW q \in Nat, NEW r \in Nat, NEW k \in Nat, NEW n \in Nat \ {0},
         r < n, q * n = k * n + r
  PROVE  r = 0
<1>1. CASE q <= k
  <2>1. q * n <= k * n /\ q * n \in Nat /\ k * n \in Nat
    BY <1>1, MulMonotone
  <2>2. QED
    BY <2>1
<1>2. CASE q >= k + 1
  <2>1. (k + 1) * n <= q * n /\ q * n \in Nat /\ k * n \in Nat
    BY <1>2, MulMonotone
  <2>2. (k + 1) * n = k * n + n
    BY MulNext
  <2>3. QED
    BY <2>1, <2>2
<1>3. QED
  BY <1>1, <1>2

\* A multiple of n is followed by the next one after n steps.
LEMMA ModNext ==
  ASSUME NEW a \in Nat, NEW n \in Nat \ {0}, a % n = 0
  PROVE  (a + n) % n = 0
<1>1. PICK q \in Nat : q = a \div n /\ a = q * n
  BY DivFacts
<1>2. PICK k \in Nat, r \in 0 .. n - 1 :
        k = (a + n) \div n /\ r = (a + n) % n /\ a + n = k * n + r
  BY DivFacts
<1>3. PICK p \in Nat : p = q + 1
  OBVIOUS
<1>4. p * n = k * n + r
  BY <1>1, <1>2, <1>3, MulNext
<1>5. r \in Nat /\ r < n
  OBVIOUS
<1>6. r = 0
  BY <1>4, <1>5, ModOfProduct
<1>7. QED
  BY <1>2, <1>6

\* The buffers of a table cover its pages: all but the last are full.
LEMMA SglFacts ==
  ASSUME NEW t \in Tables
  PROVE  /\ PageCounts[t] \in Nat \ {0} /\ sgl_nums(t) \in Nat \ {0}
         /\ \A s \in Nat : s < sgl_nums(t) =>
              /\ FirstOf(s) \in Nat /\ this_sgl_size(t, s) \in Nat \ {0}
              /\ FirstOf(s) + this_sgl_size(t, s) <= PageCounts[t]
              /\ s + 1 = sgl_nums(t) => FirstOf(s) + this_sgl_size(t, s) = PageCounts[t]
              /\ s + 1 # sgl_nums(t) => FirstOf(s) + this_sgl_size(t, s) = FirstOf(s + 1)
<1> DEFINE M == MAX_PAGES_IN_SGL
           p == PageCounts[t]
           q == sgl_nums(t)
<1>1. p \in Nat \ {0} /\ M \in Nat \ {0}
  BY PipelineAssumption DEF Tables
<1>2. q \in Nat /\ q * M <= p + M - 1 /\ p + M - 1 < q * M + M
  <2>1. PICK a \in Nat : a = p + M - 1
    BY <1>1
  <2>2. q = a \div M
    BY <2>1 DEF sgl_nums
  <2>3. a \div M \in Nat /\ (a \div M) * M <= a /\ a < (a \div M) * M + M
    BY <1>1, DivFacts
  <2>4. QED
    BY <2>1, <2>2, <2>3
<1>3. q # 0
  <2> HIDE DEF p, q, M
  <2>1. SUFFICES ASSUME q = 0 PROVE FALSE
    OBVIOUS
  <2>2. p + M - 1 < 0 * M + M
    BY <1>2, <2>1
  <2>3. QED
    BY <1>1, <2>2
<1>4. ASSUME NEW s \in Nat, s < q
      PROVE  /\ FirstOf(s) \in Nat /\ this_sgl_size(t, s) \in Nat \ {0}
             /\ FirstOf(s) + this_sgl_size(t, s) <= p
             /\ s + 1 = q => FirstOf(s) + this_sgl_size(t, s) = p
             /\ s + 1 # q => FirstOf(s) + this_sgl_size(t, s) = FirstOf(s + 1)
  <2>1. s * M \in Nat /\ (s + 1) * M = s * M + M
    BY <1>1, MulMonotone, MulNext
  <2>2. CASE s + 1 = q
    <3>1. this_sgl_size(t, s) = p - s * M
      BY <1>2, <2>2 DEF this_sgl_size
    <3>2. s * M < p
      BY <1>1, <1>2, <2>1, <2>2
    <3>3. QED
      BY <1>1, <2>1, <2>2, <3>1, <3>2 DEF FirstOf
  <2>3. CASE s + 1 # q
    <3>1. this_sgl_size(t, s) = M
      BY <1>2, <1>4, <2>3 DEF this_sgl_size
    <3>2. PICK k \in Nat : k = s + 2
      OBVIOUS
    <3>3. k <= q /\ k * M = s * M + M + M
      <4>1. (s + 1 + 1) * M = (s + 1) * M + M
        BY <1>1, MulNext
      <4>2. QED
        BY <1>2, <1>4, <2>1, <2>3, <3>2, <4>1
    <3>4. k * M <= q * M /\ q * M \in Nat
      BY <1>1, <1>2, <3>3, MulMonotone
    <3>5. s * M + M <= p
      BY <1>1, <1>2, <2>1, <3>3, <3>4
    <3>6. QED
      BY <1>1, <2>1, <2>3, <3>1, <3>5 DEF FirstOf
  <2>4. QED
    BY <2>2, <2>3
<1>5. QED
  BY <1>1, <1>2, <1>3, <1>4

-----------------------------------------------------------------------------
(* Frames: what one thread leaves to the others.                           *)

\* The pre-hash worker changes nothing that the other two go by.
LEMMA PreFrame ==
  ASSUME PipeInv, UNCHANGED <<mainVars, worker_todo, workerVars, heap>>,
         pre_pc' = "dead" <=> pre_pc = "dead"
  PROVE  /\ TypeMain' /\ TypeWorker'
         /\ MainInv' /\ JobInv' /\ WorkerInv' /\ HistoryInv'
<1> USE DEF mainVars, workerVars
<1>1. TypeMain' /\ TypeWorker'
  BY DEF PipeInv, TypeMain, TypeWorker
<1>2. MainInv'
  BY DEF PipeInv, MainInv, OldJob, ThisJob, ThisBuffer, AllocatedSet, Allocated
<1>3. JobInv' /\ WorkerInv'
  BY DEF PipeInv, JobInv, WorkerInv, Busy
<1>4. HistoryInv'
  BY DEF PipeInv, HistoryInv, Looked, Busy
<1>5. QED
  BY <1>1, <1>2, <1>3, <1>4

\* The main thread replaces a job only when the page worker has none, and leaves
\* the buffer of a job alone.
LEMMA MainFrame ==
  ASSUME PipeInv, UNCHANGED <<workerVars, preShared, preVars>>,
         main_pc \notin {"done", "failed"},
         worker_pc = "idle" \/ worker_todo' = worker_todo,
         Busy /\ worker_todo' = worker_todo =>
           heap'[worker_todo.pages_buf] = heap[worker_todo.pages_buf]
  PROVE  TypePre' /\ WorkerInv' /\ PreInv' /\ StepInv'
<1> USE DEF workerVars, preShared, preVars
<1>1. TypePre' /\ PreInv'
  BY DEF PipeInv, TypePre, PreInv
<1>2. WorkerInv'
  BY DEF PipeInv, WorkerInv, Busy
<1>3. StepInv'
  <2>1. CASE InStep
    <3>1. Busy /\ worker_pc # "idle" /\ AtChunk
      BY <2>1 DEF PipeInv, InStep, WorkerInv, StepInv
    <3>2. /\ worker_todo' = worker_todo /\ pre_hash_base.buf = worker_todo.pages_buf
          /\ heap'[pre_hash_base.buf] = heap[pre_hash_base.buf]
      BY <3>1 DEF AtChunk
    <3>3. AtChunk'
      BY <3>1, <3>2 DEF AtChunk
    <3>4. \A k : Filled(k)' <=> Filled(k)
      BY <3>2 DEF Filled, PageAt
    <3>5. QED
      BY <2>1, <3>2, <3>3, <3>4 DEF PipeInv, StepInv, InStep, page_idx
  <2>2. CASE ~InStep
    BY <2>2 DEF PipeInv, StepInv, InStep, page_idx
  <2>3. QED
    BY <2>1, <2>2
<1>4. QED
  BY <1>1, <1>2, <1>3

-----------------------------------------------------------------------------
(* The main thread.                                                        *)

LEMMA ReadPagesKeeps ==
  ASSUME PipeInv, ReadPages
  PROVE  PipeInv'
<1> USE PipelineAssumption
<1>0. TypeMain /\ TypeWorker /\ MainInv /\ JobInv /\ WorkerInv /\ HistoryInv
  BY DEF PipeInv
<1>1. PICK b \in Buffers :
        /\ ~Allocated(b) /\ heap' = [heap EXCEPT ![b] = ThisBuffer] /\ page_buf' = b
  BY DEF ReadPages, ThisBuffer, FirstOf
<1>2. /\ main_pc = "read" /\ main_pc' = "handoff"
      /\ UNCHANGED <<tbl, sgl_idx, prev_page_buf, scanned_cnt, worker_todo,
                     workerVars, preShared, preVars>>
  BY DEF ReadPages
<1>3. ThisBuffer \in [tbl : Nat, first : Nat, num : Nat] /\ ThisBuffer.num > 0
  BY <1>0, SglFacts DEF TypeMain, MainInv, ThisBuffer, Tables
<1>4. TypeMain'
  BY <1>0, <1>1, <1>2, <1>3 DEF TypeMain
<1>5. TypeWorker'
  BY <1>0, <1>2 DEF TypeWorker, workerVars
<1>6. Busy => worker_todo.pages_buf \in Buffers /\ worker_todo.pages_buf # b
  BY <1>0, <1>1 DEF JobInv, Allocated
<1>7. JobInv'
  BY <1>0, <1>1, <1>2, <1>6 DEF JobInv, Busy, TypeMain
<1>8. TypePre' /\ WorkerInv' /\ PreInv' /\ StepInv'
  BY <1>0, <1>1, <1>2, <1>6, MainFrame DEF TypeMain
<1>9. MainInv'
  <2>1. heap'[b] = ThisBuffer /\ \A c \in Buffers : c # b => heap'[c] = heap[c]
    BY <1>0, <1>1 DEF TypeMain
  <2>2. AllocatedSet' = AllocatedSet \cup {b}
    BY <1>3, <2>1 DEF AllocatedSet, Allocated
  <2>3. OldJob /\ AllocatedSet = {prev_page_buf} \ {NoBuf} /\ b \notin AllocatedSet
    BY <1>0, <1>1, <1>2 DEF MainInv, AllocatedSet
  <2>4. OldJob' /\ ThisBuffer' = ThisBuffer
    BY <1>2, <2>3 DEF OldJob, ThisBuffer
  <2>5. b # prev_page_buf /\ b # NoBuf
    BY <2>3, <1>0 DEF TypeMain
  <2>6. QED
    BY <1>0, <1>1, <1>2, <2>1, <2>2, <2>3, <2>4, <2>5 DEF MainInv
<1>10. HistoryInv'
  BY <1>0, <1>2 DEF HistoryInv, Looked, Busy, workerVars
<1>11. QED
  BY <1>4, <1>5, <1>7, <1>8, <1>9, <1>10 DEF PipeInv

\* A read that fails ends the scan and nothing else.
LEMMA ReadFailsKeeps ==
  ASSUME PipeInv, ReadFails
  PROVE  PipeInv'
<1> USE PipelineAssumption
<1>0. TypeMain /\ TypeWorker /\ MainInv /\ JobInv /\ WorkerInv /\ HistoryInv
  BY DEF PipeInv
<1>1. /\ main_pc = "read" /\ main_pc' = "failed"
      /\ UNCHANGED <<tbl, sgl_idx, page_buf, prev_page_buf, scanned_cnt, worker_todo,
                     workerVars, preShared, preVars, heap>>
  BY DEF ReadFails
<1>2. TypeMain' /\ TypeWorker'
  BY <1>0, <1>1 DEF TypeMain, TypeWorker, workerVars
<1>3. JobInv'
  BY <1>0, <1>1 DEF JobInv, Busy
<1>4. TypePre' /\ WorkerInv' /\ PreInv' /\ StepInv'
  BY <1>0, <1>1, MainFrame
<1>5. MainInv'
  BY <1>0, <1>1 DEF MainInv, AllocatedSet, Allocated
<1>6. HistoryInv'
  BY <1>0, <1>1 DEF HistoryInv, Looked, Busy, workerVars
<1>7. QED
  BY <1>2, <1>3, <1>4, <1>5, <1>6 DEF PipeInv

\* HandOff: the worker has no job, so the new one is about the pages after the
\* last page that was looked at.
LEMMA HandOffKeeps ==
  ASSUME PipeInv, HandOff
  PROVE  PipeInv'
<1> USE PipelineAssumption
<1>0. TypeMain /\ TypeWorker /\ MainInv /\ JobInv /\ WorkerInv /\ HistoryInv
  BY DEF PipeInv
<1>1. /\ main_pc = "handoff" /\ main_pc' = "free" /\ worker_pc = "idle"
      /\ ~Busy
      /\ scanned_cnt' = scanned_cnt + worker_todo.num_pages
      /\ UNCHANGED <<tbl, sgl_idx, page_buf, prev_page_buf,
                     workerVars, preShared, preVars, heap>>
  BY DEF HandOff, MutexFree, Busy
<1>2. worker_todo' = [tbl |-> tbl, pages_buf |-> page_buf,
                      num_pages |-> this_sgl_size(tbl, sgl_idx),
                      idx_adjust |-> FirstOf(sgl_idx),
                      status |-> "DATA_READY"]
  BY DEF HandOff, FirstOf
<1>3. /\ sgl_idx < sgl_nums(tbl) /\ page_buf \in Buffers /\ page_buf # prev_page_buf
      /\ AllocatedSet = {page_buf, prev_page_buf} \ {NoBuf} /\ heap[page_buf] = ThisBuffer
  BY <1>0, <1>1 DEF MainInv
<1>4. /\ this_sgl_size(tbl, sgl_idx) \in Nat \ {0} /\ FirstOf(sgl_idx) \in Nat /\ tbl \in Nat
      /\ FirstOf(sgl_idx) + this_sgl_size(tbl, sgl_idx) <= PageCounts[tbl]
  BY <1>0, <1>3, SglFacts DEF TypeMain, Tables
<1>5. TypeMain'
  BY <1>0, <1>1 DEF TypeMain, TypeWorker
<1>6. TypeWorker'
  <2>1. worker_todo' \in [tbl : Nat, pages_buf : Buffers \cup {NoBuf}, num_pages : Nat,
                          idx_adjust : Nat,
                          status : {"WORKER_READY", "DATA_READY", "WORK_DONE"}]
    BY <1>2, <1>3, <1>4
  <2>2. QED
    BY <1>0, <1>1, <2>1 DEF TypeWorker, workerVars
<1>7. JobInv'
  BY <1>0, <1>1, <1>2, <1>3, <1>4 DEF JobInv, ThisBuffer, TypeMain
<1>8. TypePre' /\ WorkerInv' /\ PreInv' /\ StepInv'
  BY <1>1, MainFrame
<1>9. MainInv'
  <2>1. ThisJob'
    BY <1>1, <1>2, <1>3 DEF ThisJob
  <2>2. AllocatedSet' = AllocatedSet
    BY <1>1 DEF AllocatedSet, Allocated
  <2>3. QED
    BY <1>1, <1>3, <2>1, <2>2 DEF MainInv
<1>10. HistoryInv'
  <2>1. Busy' /\ Looked' = 0 /\ Looked = worker_todo.num_pages
    BY <1>1, <1>2 DEF Busy, Looked, workerVars
  <2>2. seen' = scanned_cnt' + Looked'
    BY <1>0, <1>1, <2>1 DEF HistoryInv, TypeMain, TypeWorker, workerVars
  <2>3. last' = last /\ last.page = Before(tbl, FirstOf(sgl_idx))
    BY <1>0, <1>1 DEF HistoryInv, workerVars
  <2>4. worker_todo'.tbl = tbl /\ worker_todo'.idx_adjust + Looked' = FirstOf(sgl_idx)
    BY <1>2, <1>4, <2>1
  <2>5. last'.page = Before(worker_todo'.tbl, worker_todo'.idx_adjust + Looked')
    BY <2>3, <2>4
  <2>6. QED
    BY <1>0, <1>1, <2>1, <2>2, <2>3, <2>5 DEF HistoryInv, Before
<1>11. QED
  BY <1>5, <1>6, <1>7, <1>8, <1>9, <1>10 DEF PipeInv

\* What free does to the heap.
LEMMA FreeBufFacts ==
  ASSUME TypeMain, NEW b \in Buffers \cup {NoBuf}, heap' = FreeBuf(b)
  PROVE  /\ heap' \in [Buffers -> [tbl : Nat, first : Nat, num : Nat]]
         /\ \A c \in Buffers : c # b => heap'[c] = heap[c]
         /\ AllocatedSet' = AllocatedSet \ {b}
<1> USE PipelineAssumption DEF TypeMain
<1>1. CASE b = NoBuf
  BY <1>1 DEF FreeBuf, AllocatedSet, Allocated
<1>2. CASE b \in Buffers
  <2>1. heap' = [heap EXCEPT ![b] = Unused]
    BY <1>2 DEF FreeBuf
  <2>2. heap' \in [Buffers -> [tbl : Nat, first : Nat, num : Nat]]
    <3>1. Unused \in [tbl : Nat, first : Nat, num : Nat]
      BY DEF Unused
    <3>2. QED
      BY <2>1, <3>1
  <2>3. heap'[b].num = 0 /\ \A c \in Buffers : c # b => heap'[c] = heap[c]
    BY <1>2, <2>1 DEF Unused
  <2>4. \A c \in Buffers : Allocated(c)' <=> Allocated(c) /\ c # b
    BY <2>3 DEF Allocated
  <2>5. QED
    BY <1>2, <2>2, <2>3, <2>4 DEF AllocatedSet
<1>3. QED
  BY <1>1, <1>2

\* FreePrev: the buffer that is freed is not the job's.
LEMMA FreePrevKeeps ==
  ASSUME PipeInv, FreePrev
  PROVE  PipeInv'
<1> USE PipelineAssumption
<1>0. TypeMain /\ TypeWorker /\ MainInv /\ JobInv /\ WorkerInv /\ HistoryInv
  BY DEF PipeInv
<1>1. /\ main_pc = "free" /\ heap' = FreeBuf(prev_page_buf) /\ prev_page_buf' = page_buf
      /\ UNCHANGED <<tbl, page_buf, scanned_cnt, worker_todo, workerVars, preShared, preVars>>
  BY DEF FreePrev
<1>2. \/ sgl_idx + 1 < sgl_nums(tbl) /\ sgl_idx' = sgl_idx + 1 /\ main_pc' = "read"
      \/ sgl_idx + 1 >= sgl_nums(tbl) /\ main_pc' = "join" /\ sgl_idx' = sgl_idx
  BY DEF FreePrev
<1>3. /\ sgl_idx < sgl_nums(tbl) /\ ThisJob /\ page_buf # prev_page_buf
      /\ AllocatedSet = {page_buf, prev_page_buf} \ {NoBuf}
  BY <1>0, <1>1 DEF MainInv
<1>4. /\ heap' \in [Buffers -> [tbl : Nat, first : Nat, num : Nat]]
      /\ heap'[page_buf] = heap[page_buf] /\ AllocatedSet' = {page_buf}
  <2>1. page_buf \in Buffers /\ prev_page_buf \in Buffers \cup {NoBuf}
    BY <1>0, <1>3 DEF ThisJob, TypeMain
  <2>2. AllocatedSet' = AllocatedSet \ {prev_page_buf}
    BY <1>0, <1>1, <2>1, FreeBufFacts
  <2>3. QED
    BY <1>0, <1>1, <1>3, <2>1, <2>2, FreeBufFacts
<1>5. /\ sgl_nums(tbl) \in Nat /\ sgl_idx \in Nat /\ FirstOf(sgl_idx) \in Nat
      /\ sgl_idx + 1 = sgl_nums(tbl) =>
           FirstOf(sgl_idx) + this_sgl_size(tbl, sgl_idx) = PageCounts[tbl]
      /\ sgl_idx + 1 # sgl_nums(tbl) =>
           FirstOf(sgl_idx) + this_sgl_size(tbl, sgl_idx) = FirstOf(sgl_idx + 1)
  BY <1>0, <1>3, SglFacts DEF TypeMain
<1>6. TypeMain'
  BY <1>0, <1>1, <1>2, <1>4 DEF TypeMain
<1>7. TypeWorker'
  BY <1>0, <1>1 DEF TypeWorker, workerVars
<1>8. JobInv'
  BY <1>0, <1>1, <1>3, <1>4 DEF JobInv, Busy, ThisJob
<1>9. TypePre' /\ WorkerInv' /\ PreInv' /\ StepInv'
  BY <1>1, <1>3, <1>4, MainFrame DEF ThisJob
<1>10. MainInv'
  <2>1. CASE main_pc' = "read"
    <3>1. OldJob'
      BY <1>1, <1>2, <1>3, <1>5, <2>1 DEF OldJob, ThisJob
    <3>2. {prev_page_buf'} \ {NoBuf} = {page_buf}
      BY <1>1, <1>3 DEF ThisJob
    <3>3. QED
      BY <1>1, <1>2, <1>4, <1>5, <2>1, <3>1, <3>2 DEF MainInv
  <2>2. CASE main_pc' = "join"
    <3>1. ThisJob'
      BY <1>1, <1>2, <1>3, <2>2 DEF ThisJob
    <3>2. sgl_idx' = sgl_idx /\ sgl_idx + 1 = sgl_nums(tbl)
      BY <1>2, <1>3, <1>5, <2>2
    <3>3. QED
      BY <1>1, <1>3, <1>4, <2>2, <3>1, <3>2 DEF MainInv
  <2>3. QED
    BY <1>2, <2>1, <2>2
<1>11. HistoryInv'
  <2>1. Looked' = Looked /\ Busy' = Busy /\ last' = last /\ seen' = seen
    BY <1>1 DEF Looked, Busy, workerVars
  <2>2. ~Busy => last.page = Before(tbl, FirstOf(sgl_idx) + this_sgl_size(tbl, sgl_idx))
    BY <1>0, <1>1, <1>3 DEF HistoryInv, ThisJob
  <2>3. /\ last'.hash = last'.page /\ seen' = scanned_cnt' + Looked'
        /\ Busy' /\ worker_pc' # "dead" =>
             last'.page = Before(worker_todo'.tbl, worker_todo'.idx_adjust + Looked')
    BY <1>0, <1>1, <2>1 DEF HistoryInv, workerVars
  <2>4. ~Busy' /\ main_pc' = "read" => last'.page = Before(tbl', FirstOf(sgl_idx'))
    BY <1>1, <1>2, <1>5, <2>1, <2>2
  <2>5. ~Busy' /\ main_pc' = "join" =>
          last'.page = Before(tbl', worker_todo'.idx_adjust + worker_todo'.num_pages)
    BY <1>1, <1>3, <2>1, <2>2 DEF ThisJob
  <2>6. QED
    BY <1>2, <2>3, <2>4, <2>5 DEF HistoryInv, Before
<1>12. QED
  BY <1>6, <1>7, <1>8, <1>9, <1>10, <1>11 DEF PipeInv

\* Join: the worker has done the last job of the table, and so has the table.
LEMMA JoinKeeps ==
  ASSUME PipeInv, Join
  PROVE  PipeInv'
<1> USE PipelineAssumption
<1>0. TypeMain /\ TypeWorker /\ MainInv /\ JobInv /\ WorkerInv /\ HistoryInv
  BY DEF PipeInv
<1>1. /\ main_pc = "join" /\ main_pc' = "freelast" /\ worker_pc = "idle" /\ ~Busy
      /\ worker_todo' = NoJob
      /\ scanned_cnt' = scanned_cnt + worker_todo.num_pages
      /\ UNCHANGED <<tbl, sgl_idx, page_buf, prev_page_buf,
                     workerVars, preShared, preVars, heap>>
  BY DEF Join, MutexFree, Busy
<1>2. /\ sgl_idx < sgl_nums(tbl) /\ ThisJob /\ prev_page_buf = page_buf
      /\ sgl_idx + 1 = sgl_nums(tbl) /\ AllocatedSet = {page_buf}
  BY <1>0, <1>1 DEF MainInv
<1>3. FirstOf(sgl_idx) + this_sgl_size(tbl, sgl_idx) = PageCounts[tbl]
  BY <1>0, <1>2, SglFacts DEF TypeMain
<1>4. TypeMain'
  BY <1>0, <1>1 DEF TypeMain, TypeWorker
<1>5. TypeWorker'
  <2>1. NoJob \in [tbl : Nat, pages_buf : Buffers \cup {NoBuf}, num_pages : Nat,
                   idx_adjust : Nat,
                   status : {"WORKER_READY", "DATA_READY", "WORK_DONE"}]
    BY DEF NoJob
  <2>2. QED
    BY <1>0, <1>1, <2>1 DEF TypeWorker, workerVars
<1>6. ~Busy' /\ Looked' = 0 /\ Looked = worker_todo.num_pages
  BY <1>1 DEF Busy, Looked, NoJob
<1>7. JobInv'
  BY <1>6 DEF JobInv
<1>8. TypePre' /\ WorkerInv' /\ PreInv' /\ StepInv'
  BY <1>1, MainFrame
<1>9. MainInv'
  BY <1>1, <1>2 DEF MainInv, ThisJob, AllocatedSet, Allocated
<1>10. HistoryInv'
  <2>1. last' = last /\ last.page = Before(tbl, PageCounts[tbl])
    BY <1>0, <1>1, <1>2, <1>3 DEF HistoryInv, ThisJob, workerVars
  <2>2. seen' = scanned_cnt' + Looked'
    BY <1>0, <1>1, <1>6 DEF HistoryInv, TypeMain, TypeWorker, workerVars
  <2>3. last'.hash = last'.page
    BY <1>0, <2>1 DEF HistoryInv
  <2>4. QED
    BY <1>1, <1>6, <2>1, <2>2, <2>3 DEF HistoryInv, Before
<1>11. QED
  BY <1>4, <1>5, <1>7, <1>8, <1>9, <1>10 DEF PipeInv

\* FreeLast: nothing is left of the table.
LEMMA FreeLastKeeps ==
  ASSUME PipeInv, FreeLast
  PROVE  PipeInv'
<1> USE PipelineAssumption
<1>0. TypeMain /\ TypeWorker /\ MainInv /\ JobInv /\ WorkerInv /\ HistoryInv
  BY DEF PipeInv
<1>1. /\ main_pc = "freelast" /\ heap' = FreeBuf(prev_page_buf) /\ prev_page_buf' = NoBuf
      /\ sgl_idx' = 0
      /\ UNCHANGED <<page_buf, scanned_cnt, worker_todo, workerVars, preShared, preVars>>
  BY DEF FreeLast
<1>2. \/ tbl + 1 \in Tables /\ tbl' = tbl + 1 /\ main_pc' = "read"
      \/ tbl + 1 \notin Tables /\ tbl' = tbl /\ main_pc' = "done"
  BY DEF FreeLast
<1>3. worker_todo = NoJob /\ prev_page_buf \in Buffers /\ AllocatedSet = {prev_page_buf}
  BY <1>0, <1>1 DEF MainInv
<1>4. heap' \in [Buffers -> [tbl : Nat, first : Nat, num : Nat]] /\ AllocatedSet' = {}
  <2>1. AllocatedSet' = AllocatedSet \ {prev_page_buf}
    BY <1>0, <1>1, <1>3, FreeBufFacts
  <2>2. QED
    BY <1>0, <1>1, <1>3, <2>1, FreeBufFacts
<1>5. /\ tbl' \in Tables /\ tbl \in Tables /\ tbl \in Nat \ {0} /\ PageCounts[tbl] \in Nat \ {0}
      /\ sgl_nums(tbl') > 0 /\ Len(PageCounts) \in Nat
      /\ tbl + 1 \notin Tables => tbl = Len(PageCounts)
  <2>1. tbl \in Tables /\ tbl' \in Tables
    BY <1>0, <1>2 DEF TypeMain
  <2>2. PageCounts[tbl] \in Nat \ {0} /\ sgl_nums(tbl') > 0
    BY <2>1, SglFacts
  <2>3. Tables = 1 .. Len(PageCounts) /\ Len(PageCounts) \in Nat
    BY DEF Tables
  <2>4. QED
    BY <2>1, <2>2, <2>3
<1>6. TypeMain'
  BY <1>0, <1>1, <1>2, <1>4, <1>5 DEF TypeMain
<1>7. TypeWorker'
  BY <1>0, <1>1 DEF TypeWorker, workerVars
<1>8. ~Busy /\ ~Busy' /\ Looked = 0 /\ Looked' = 0
  BY <1>1, <1>3 DEF Busy, Looked, NoJob
<1>9. JobInv'
  BY <1>8 DEF JobInv
<1>10. TypePre' /\ WorkerInv' /\ PreInv' /\ StepInv'
  BY <1>1, <1>8, MainFrame
<1>11. MainInv'
  <2>1. CASE main_pc' = "read"
    BY <1>1, <1>3, <1>4, <1>5, <2>1 DEF MainInv, OldJob
  <2>2. CASE main_pc' = "done"
    BY <1>1, <1>2, <1>3, <1>4, <1>5, <2>2 DEF MainInv
  <2>3. QED
    BY <1>2, <2>1, <2>2
<1>12. HistoryInv'
  <2>1. /\ last' = last /\ seen' = seen /\ last.page = Before(tbl, PageCounts[tbl])
        /\ last.hash = last.page /\ seen = scanned_cnt + Looked
    BY <1>0, <1>1, <1>8 DEF HistoryInv, workerVars
  <2>2. CASE main_pc' = "read"
    <3>1. FirstOf(sgl_idx') = 0
      BY <1>1 DEF FirstOf
    <3>2. Before(tbl, PageCounts[tbl]) = Before(tbl', 0)
      BY <1>2, <1>5, <2>2 DEF Before
    <3>3. last'.page = Before(tbl', FirstOf(sgl_idx'))
      BY <2>1, <3>1, <3>2
    <3>4. QED
      BY <1>1, <1>8, <2>1, <2>2, <3>3 DEF HistoryInv, Before
  <2>3. CASE main_pc' = "done"
    BY <1>1, <1>2, <1>8, <2>1, <2>3 DEF HistoryInv, Before
  <2>4. QED
    BY <1>2, <2>2, <2>3
<1>13. QED
  BY <1>6, <1>7, <1>9, <1>10, <1>11, <1>12 DEF PipeInv

-----------------------------------------------------------------------------
(* The page worker.                                                        *)

\* As long as the job stays, the worker changes nothing the main thread goes by.
LEMMA WorkerFrame ==
  ASSUME PipeInv, UNCHANGED <<mainVars, worker_todo, heap>>
  PROVE  TypeMain' /\ MainInv' /\ JobInv'
<1> USE DEF mainVars
<1>1. TypeMain'
  BY DEF PipeInv, TypeMain
<1>2. MainInv'
  BY DEF PipeInv, MainInv, OldJob, ThisJob, ThisBuffer, AllocatedSet, Allocated
<1>3. JobInv'
  BY DEF PipeInv, JobInv, Busy
<1>4. QED
  BY <1>1, <1>2, <1>3

\* TakeJob: the worker is at the first page of the job.
LEMMA TakeJobKeeps ==
  ASSUME PipeInv, TakeJob
  PROVE  PipeInv'
<1> USE PipelineAssumption DEF workerVars, preShared, preVars
<1>0. TypeWorker /\ TypePre /\ WorkerInv /\ PreInv /\ StepInv /\ HistoryInv
  BY DEF PipeInv
<1>1. /\ worker_pc = "idle" /\ Busy /\ worker_pc' = "loop" /\ worker_i' = 0
      /\ UNCHANGED <<mainVars, worker_todo, pre_hit, last, seen, preShared, preVars, heap>>
  BY DEF TakeJob, Busy
<1>2. TypeMain' /\ MainInv' /\ JobInv'
  BY <1>1, WorkerFrame
<1>3. TypeWorker'
  BY <1>0, <1>1 DEF TypeWorker
<1>4. TypePre' /\ PreInv'
  BY <1>0, <1>1 DEF TypePre, PreInv
<1>5. WorkerInv'
  BY <1>0, <1>1 DEF WorkerInv, Busy, TypeWorker
<1>6. StepInv'
  <2>1. worker_i' % PRE_HASH_NUM = 0
    BY <1>1, ModZero
  <2>2. QED
    BY <1>1, <2>1 DEF StepInv, InStep
<1>7. HistoryInv'
  <2>1. Looked = 0 /\ Looked' = 0 /\ Busy'
    BY <1>1 DEF Looked, Busy
  <2>2. QED
    BY <1>0, <1>1, <2>1 DEF HistoryInv, mainVars, Busy
<1>8. QED
  BY <1>2, <1>3, <1>4, <1>5, <1>6, <1>7 DEF PipeInv

\* The worker moves within its job and looks at no page: what it has looked at
\* stays.
LEMMA NoLookHistory ==
  ASSUME PipeInv, UNCHANGED <<mainVars, worker_todo, worker_i, last, seen>>,
         worker_pc \notin {"idle", "dead"}, worker_pc' \notin {"idle", "dead"}
  PROVE  HistoryInv'
<1> USE DEF mainVars
<1>1. HistoryInv /\ Busy' = Busy /\ Looked' = Looked
  BY DEF PipeInv, Busy, Looked
<1>2. QED
  BY <1>1 DEF HistoryInv

\* start_pre_hash_pair_table: the pre-hash worker is free, so the new chunk
\* belongs to the worker's page and nothing of it is filled.
LEMMA StartKeeps ==
  ASSUME PipeInv, start_pre_hash_pair_table
  PROVE  PipeInv'
<1> USE PipelineAssumption DEF workerVars, preVars
<1>0. TypeWorker /\ TypePre /\ WorkerInv /\ PreInv /\ StepInv
  BY DEF PipeInv
<1>1. /\ worker_pc = "loop" /\ worker_i < worker_todo.num_pages
      /\ worker_i % PRE_HASH_NUM = 0
      /\ pre_hash_worker_status \in {"WORKER_READY", "WORK_DONE"}
      /\ pre_hash_max_idx' = max_idx
      /\ pre_hash_base' = [buf |-> worker_todo.pages_buf, off |-> worker_i]
      /\ pre_hash_curr_idx' = 0 /\ pre_hash_worker_status' = "DATA_READY"
      /\ worker_pc' = "lookup"
      /\ UNCHANGED <<mainVars, worker_todo, worker_i, pre_hit, last, seen, preVars, heap>>
  BY DEF start_pre_hash_pair_table, StartsPreHash, PreHashFree
<1>2. TypeMain' /\ MainInv' /\ JobInv'
  BY <1>1, WorkerFrame
<1>3. worker_i \in Nat /\ worker_todo.num_pages \in Nat /\ worker_todo.pages_buf \in Buffers \cup {NoBuf}
  BY <1>0 DEF TypeWorker
<1>4. max_idx \in 0..PRE_HASH_NUM /\ worker_i + max_idx <= worker_todo.num_pages
  BY <1>1, <1>3 DEF max_idx
<1>5. TypeWorker'
  BY <1>0, <1>1 DEF TypeWorker
<1>6. TypePre'
  <2>1. pre_hash_base' \in [buf : Buffers \cup {NoBuf}, off : Nat]
    BY <1>1, <1>3
  <2>2. QED
    BY <1>0, <1>1, <1>4, <2>1 DEF TypePre
<1>7. pre_pc = "poll"
  BY <1>0, <1>1 DEF TypePre, PreInv, WorkerInv
<1>8. WorkerInv'
  BY <1>0, <1>1, <1>3 DEF WorkerInv, Busy
<1>9. PreInv'
  <2>1. worker_todo.pages_buf \in Buffers
    BY <1>0, <1>1 DEF PipeInv, WorkerInv, JobInv
  <2>2. QED
    BY <1>0, <1>1, <1>4, <1>7, <2>1 DEF PreInv
<1>10. StepInv'
  <2>1. AtChunk'
    BY <1>1, <1>3, <1>4 DEF AtChunk
  <2>2. QED
    BY <1>1, <1>7, <2>1 DEF StepInv, InStep, Slots
<1>11. HistoryInv'
  BY <1>1, NoLookHistory
<1>12. QED
  BY <1>2, <1>5, <1>6, <1>8, <1>9, <1>10, <1>11 DEF PipeInv

\* StopPreHash: only a flag is set.
LEMMA StopKeeps ==
  ASSUME PipeInv, StopPreHash
  PROVE  PipeInv'
<1> USE PipelineAssumption DEF workerVars, preVars
<1>0. TypeWorker /\ TypePre /\ WorkerInv /\ PreInv /\ StepInv
  BY DEF PipeInv
<1>1. /\ worker_pc = "loop"
      /\ pre_hash_worker_status = "IN_PROGRESS" /\ pre_hash_worker_status' = "STOP"
      /\ UNCHANGED <<mainVars, worker_todo, workerVars, pre_hash_base,
                     pre_hash_max_idx, pre_hash_curr_idx, preVars, heap>>
  BY DEF StopPreHash
<1>2. TypeMain' /\ MainInv' /\ JobInv'
  BY <1>1, WorkerFrame
<1>3. TypeWorker' /\ TypePre'
  BY <1>0, <1>1 DEF TypeWorker, TypePre
<1>4. WorkerInv'
  BY <1>0, <1>1 DEF WorkerInv, Busy
<1>5. PreInv'
  BY <1>0, <1>1 DEF PreInv
<1>6. StepInv'
  BY <1>0, <1>1 DEF StepInv, InStep, AtChunk, Filled, PageAt, page_idx
<1>7. HistoryInv'
  BY <1>1, NoLookHistory
<1>8. QED
  BY <1>2, <1>3, <1>4, <1>5, <1>6, <1>7 DEF PipeInv

\* NoPreHashStart: the worker is not at the first page of a chunk, so it is
\* within the one started last.
LEMMA NoStartKeeps ==
  ASSUME PipeInv, NoPreHashStart
  PROVE  PipeInv'
<1> USE PipelineAssumption DEF workerVars, preShared, preVars
<1>0. TypeWorker /\ TypePre /\ WorkerInv /\ PreInv /\ StepInv
  BY DEF PipeInv
<1>1. /\ worker_pc = "loop" /\ worker_i < worker_todo.num_pages /\ worker_pc' = "lookup"
      /\ PRE_HASH_ON => worker_i % PRE_HASH_NUM # 0
      /\ UNCHANGED <<mainVars, worker_todo, worker_i, pre_hit, last, seen,
                     preShared, preVars, heap>>
  BY DEF NoPreHashStart, StartsPreHash
<1>2. TypeMain' /\ MainInv' /\ JobInv'
  BY <1>1, WorkerFrame
<1>3. TypeWorker' /\ TypePre'
  BY <1>0, <1>1 DEF TypeWorker, TypePre
<1>4. WorkerInv'
  BY <1>0, <1>1 DEF WorkerInv, Busy
<1>5. PreInv'
  BY <1>0, <1>1 DEF PreInv
<1>6. StepInv'
  BY <1>0, <1>1 DEF StepInv, InStep, AtChunk, Filled, PageAt
<1>7. HistoryInv'
  BY <1>1, NoLookHistory
<1>8. QED
  BY <1>2, <1>3, <1>4, <1>5, <1>6, <1>7 DEF PipeInv

\* lookup_pre_hash_pair.
LEMMA LookupKeeps ==
  ASSUME PipeInv, lookup_pre_hash_pair
  PROVE  PipeInv'
<1> USE PipelineAssumption DEF workerVars, preShared, preVars
<1>0. TypeWorker /\ TypePre /\ WorkerInv /\ PreInv /\ StepInv
  BY DEF PipeInv
<1>1. /\ worker_pc = "lookup" /\ worker_pc' = "use"
      /\ UNCHANGED <<mainVars, worker_todo, worker_i, last, seen, preShared, preVars, heap>>
  BY DEF lookup_pre_hash_pair
<1>hit. /\ pre_hit' \in BOOLEAN
        /\ pre_hit' => PRE_HASH_ON /\ page_idx < pre_hash_curr_idx
  BY Zenon DEF lookup_pre_hash_pair
<1>2. TypeMain' /\ MainInv' /\ JobInv'
  BY <1>1, WorkerFrame
<1>3. TypeWorker' /\ TypePre'
  BY <1>0, <1>1, <1>hit DEF TypeWorker, TypePre
<1>4. WorkerInv'
  BY <1>0, <1>1 DEF WorkerInv, Busy
<1>5. PreInv'
  BY <1>0, <1>1 DEF PreInv
<1>6. StepInv'
  BY <1>0, <1>1, <1>hit DEF StepInv, InStep, AtChunk, Filled, PageAt, page_idx
<1>7. HistoryInv'
  BY <1>1, NoLookHistory
<1>8. QED
  BY <1>2, <1>3, <1>4, <1>5, <1>6, <1>7 DEF PipeInv

\* Whichever hash calculate_hash_pair takes, it is the one of the page in hand.
LEMMA HashIsOfPage ==
  ASSUME PipeInv, calculate_hash_pair
  PROVE  LET p == [tbl |-> worker_todo.tbl, idx |-> worker_todo.idx_adjust + worker_i]
         IN  p \in Page /\ last' = [page |-> p, hash |-> p]
<1> USE PipelineAssumption
<1> DEFINE p == [tbl |-> worker_todo.tbl, idx |-> worker_todo.idx_adjust + worker_i]
<1>0. TypeWorker /\ TypePre /\ WorkerInv /\ PreInv /\ StepInv /\ JobInv
  BY DEF PipeInv
<1>1. worker_pc = "use" /\ Busy /\ worker_i \in Nat
  BY <1>0 DEF calculate_hash_pair, WorkerInv, TypeWorker
<1>2. p \in Page
  BY <1>0, <1>1 DEF TypeWorker, Page
<1>3. PageAt(worker_todo.pages_buf, worker_i) = p
  BY <1>0, <1>1 DEF JobInv, PageAt
<1>4. CASE pre_hit
  <2>1. InStep /\ AtChunk /\ page_idx < pre_hash_curr_idx
    BY <1>0, <1>1, <1>4 DEF StepInv, InStep
  <2>2. page_idx \in Slots /\ pre_hash_base.off + page_idx = worker_i
    BY <1>0, <1>1, <2>1 DEF AtChunk, TypePre, page_idx, Slots
  <2>3. Filled(page_idx)
    BY <1>0, <2>1, <2>2 DEF StepInv
  <2>4. pre_hash_pair_chunk[page_idx] = p
    BY <1>3, <2>1, <2>2, <2>3 DEF Filled, AtChunk
  <2>5. LookAt(pre_hash_pair_chunk[page_idx])
    BY <1>4 DEF calculate_hash_pair
  <2>6. QED
    BY <1>2, <2>4, <2>5 DEF LookAt
<1>5. CASE ~pre_hit
  <2>1. LookAt(PageAt(worker_todo.pages_buf, worker_i))
    BY <1>5 DEF calculate_hash_pair
  <2>2. QED
    BY <1>2, <1>3, <2>1 DEF LookAt
<1>6. QED
  BY <1>4, <1>5

\* calculate_hash_pair: the page is looked at; the next one belongs to the chunk
\* or is the first page of the next chunk.
LEMMA CalculateKeeps ==
  ASSUME PipeInv, calculate_hash_pair
  PROVE  PipeInv'
<1> USE PipelineAssumption DEF preShared, preVars
<1>0. TypeWorker /\ TypePre /\ WorkerInv /\ PreInv /\ StepInv /\ JobInv /\ HistoryInv
  BY DEF PipeInv
<1>1. /\ worker_pc = "use" /\ worker_pc' = "loop" /\ worker_i' = worker_i + 1
      /\ seen' = seen + 1
      /\ UNCHANGED <<mainVars, worker_todo, pre_hit, preShared, preVars, heap>>
  BY DEF calculate_hash_pair, LookAt
<1>2. PICK p \in Page :
        /\ p = [tbl |-> worker_todo.tbl, idx |-> worker_todo.idx_adjust + worker_i]
        /\ last' = [page |-> p, hash |-> p]
  BY HashIsOfPage
<1>3. /\ worker_i \in Nat /\ worker_todo.num_pages \in Nat /\ worker_todo.idx_adjust \in Nat
      /\ Busy /\ worker_i < worker_todo.num_pages
  BY <1>0, <1>1 DEF TypeWorker, WorkerInv
<1>4. TypeMain' /\ MainInv' /\ JobInv'
  BY <1>1, WorkerFrame
<1>5. TypeWorker'
  <2>1. last' \in [page : Page, hash : Page] /\ seen' \in Nat /\ worker_i' \in Nat
    BY <1>0, <1>1, <1>2 DEF TypeWorker
  <2>2. QED
    BY <1>0, <1>1, <2>1 DEF TypeWorker
<1>6. TypePre' /\ PreInv'
  BY <1>0, <1>1 DEF TypePre, PreInv
<1>7. WorkerInv'
  BY <1>0, <1>1, <1>3 DEF WorkerInv, Busy
<1>8. StepInv'
  <2>1. SUFFICES ASSUME PRE_HASH_ON, worker_i' % PRE_HASH_NUM # 0
                 PROVE  AtChunk' /\ (\A k \in Slots : k < pre_hash_curr_idx' => Filled(k)')
                        /\ (pre_pc' = "count" => Filled(pre_i)')
    BY <1>1 DEF StepInv, InStep
  <2>2. /\ AtChunk /\ (\A k \in Slots : k < pre_hash_curr_idx => Filled(k))
        /\ (pre_pc = "count" => Filled(pre_i))
    BY <1>0, <1>1, <2>1 DEF StepInv, InStep
  <2>3. pre_hash_base.off \in Nat
    BY <1>0 DEF TypePre
  <2>4. worker_i + 1 # pre_hash_base.off + PRE_HASH_NUM
    BY <1>1, <2>1, <2>2, <2>3, ModNext DEF AtChunk
  <2>5. AtChunk'
    <3>1. pre_hash_base.off <= worker_i + 1 /\ worker_i + 1 < pre_hash_base.off + PRE_HASH_NUM
      BY <1>3, <2>2, <2>3, <2>4 DEF AtChunk
    <3>2. QED
      BY <1>1, <2>2, <3>1 DEF AtChunk
  <2>6. \A k : Filled(k)' <=> Filled(k)
    BY <1>1 DEF Filled, PageAt
  <2>7. QED
    BY <1>1, <2>2, <2>5, <2>6
<1>9. HistoryInv'
  <2>1. Busy' /\ Looked = worker_i /\ Looked' = worker_i + 1
    BY <1>1, <1>3 DEF Looked, Busy
  <2>2. last'.hash = last'.page /\ last'.page = p
    BY <1>2
  <2>3. p = Before(worker_todo.tbl, worker_todo.idx_adjust + (worker_i + 1))
    <3>1. PICK n \in Nat : n = worker_todo.idx_adjust + (worker_i + 1)
      BY <1>3
    <3>2. n > 0 /\ n - 1 = worker_todo.idx_adjust + worker_i
      BY <1>3, <3>1
    <3>3. Before(worker_todo.tbl, n) = p
      BY <1>2, <3>2 DEF Before
    <3>4. QED
      BY <3>1, <3>3
  <2>4. last'.page = Before(worker_todo'.tbl, worker_todo'.idx_adjust + Looked')
    BY <1>1, <2>1, <2>2, <2>3
  <2>5. seen \in Nat /\ scanned_cnt \in Nat
    BY DEF PipeInv, TypeMain, TypeWorker
  <2>6. main_pc' \in {"read", "handoff", "free", "join", "freelast", "done"} =>
          seen' = scanned_cnt' + Looked'
    BY <1>0, <1>1, <1>3, <2>1, <2>5 DEF HistoryInv, mainVars
  <2>7. QED
    BY <2>1, <2>2, <2>4, <2>6 DEF HistoryInv
<1>10. QED
  BY <1>4, <1>5, <1>6, <1>7, <1>8, <1>9 DEF PipeInv

\* FinishJob: all pages of the job were looked at.
LEMMA FinishJobKeeps ==
  ASSUME PipeInv, FinishJob
  PROVE  PipeInv'
<1> USE PipelineAssumption DEF preShared, preVars
<1>0. /\ TypeMain /\ TypeWorker /\ TypePre /\ MainInv /\ JobInv /\ WorkerInv /\ PreInv
      /\ HistoryInv
  BY DEF PipeInv
<1>1. /\ worker_pc = "loop" /\ worker_pc' = "idle" /\ worker_i >= worker_todo.num_pages
      /\ worker_todo' = [worker_todo EXCEPT !.status = "WORK_DONE"]
      /\ UNCHANGED <<mainVars, worker_i, pre_hit, last, seen, preShared, preVars, heap>>
  BY DEF FinishJob
<1>2. /\ worker_todo'.status = "WORK_DONE" /\ worker_todo'.tbl = worker_todo.tbl
      /\ worker_todo'.pages_buf = worker_todo.pages_buf
      /\ worker_todo'.num_pages = worker_todo.num_pages
      /\ worker_todo'.idx_adjust = worker_todo.idx_adjust
  BY <1>0, <1>1 DEF TypeWorker
<1>3. Busy /\ ~Busy' /\ worker_todo # NoJob /\ worker_i = worker_todo.num_pages
  BY <1>0, <1>1, <1>2 DEF WorkerInv, TypeWorker, Busy, NoJob
<1>4. TypeMain'
  BY <1>0, <1>1 DEF TypeMain, mainVars
<1>5. TypeWorker'
  BY <1>0, <1>1 DEF TypeWorker
<1>6. TypePre' /\ PreInv'
  BY <1>0, <1>1 DEF TypePre, PreInv
<1>7. JobInv' /\ WorkerInv' /\ StepInv'
  BY <1>0, <1>1, <1>3 DEF JobInv, WorkerInv, StepInv, InStep
<1>8. MainInv'
  <2>1. OldJob => OldJob' /\ sgl_idx > 0
    BY <1>0, <1>1, <1>2, <1>3 DEF OldJob, mainVars, TypeMain
  <2>2. ThisJob => ThisJob'
    BY <1>1, <1>2 DEF ThisJob, mainVars
  <2>3. AllocatedSet' = AllocatedSet /\ ThisBuffer' = ThisBuffer
    BY <1>1 DEF AllocatedSet, Allocated, ThisBuffer, mainVars
  <2>4. QED
    BY <1>0, <1>1, <1>3, <2>1, <2>2, <2>3 DEF MainInv, mainVars
<1>9. HistoryInv'
  <2>1. Looked' = Looked /\ Looked = worker_todo.num_pages
    BY <1>1, <1>2, <1>3 DEF Looked
  <2>2. last' = last /\ last.hash = last.page
        /\ last.page = Before(worker_todo.tbl, worker_todo.idx_adjust + worker_todo.num_pages)
    BY <1>0, <1>1, <1>3, <2>1 DEF HistoryInv
  <2>3. main_pc \in {"read", "handoff"} => last.page = Before(tbl, FirstOf(sgl_idx))
    BY <1>0, <1>3, <2>2 DEF MainInv, OldJob, TypeMain
  <2>4. main_pc \in {"free", "join"} => worker_todo.tbl = tbl
    BY <1>0 DEF MainInv, ThisJob
  <2>5. main_pc \notin {"freelast", "done"}
    BY <1>0, <1>3 DEF MainInv
  <2>6. QED
    BY <1>0, <1>1, <1>2, <1>3, <2>1, <2>2, <2>3, <2>4, <2>5 DEF HistoryInv, mainVars
<1>10. QED
  BY <1>4, <1>5, <1>6, <1>7, <1>8, <1>9 DEF PipeInv

-----------------------------------------------------------------------------
(* The pre-hash worker.                                                    *)

\* PreHashTake, PreHashCheck and PreHashFinish fill and count nothing.
LEMMA PreMovesKeeps ==
  ASSUME PipeInv, PreHashTake \/ PreHashCheck \/ PreHashFinish
  PROVE  PipeInv'
<1> USE PipelineAssumption DEF preShared
<1>0. TypePre /\ PreInv /\ StepInv
  BY DEF PipeInv
<1>1. /\ UNCHANGED <<mainVars, worker_todo, workerVars, heap>>
      /\ UNCHANGED <<pre_hash_base, pre_hash_max_idx, pre_hash_curr_idx, pre_i,
                     pre_hash_pair_chunk>>
      /\ pre_pc \in {"poll", "check", "finish"} /\ pre_pc' \in {"clear", "hash", "finish", "poll"}
  BY DEF PreHashTake, PreHashCheck, PreHashFinish
<1>2. /\ TypeMain' /\ TypeWorker'
      /\ MainInv' /\ JobInv' /\ WorkerInv' /\ HistoryInv'
  BY <1>1, PreFrame
<1>3. TypePre'
  BY <1>0, <1>1 DEF TypePre, PreHashTake, PreHashCheck, PreHashFinish
<1>4. PreInv'
  <2>1. CASE PreHashTake
    BY <1>0, <1>1, <2>1 DEF PreInv, PreHashTake
  <2>2. CASE PreHashCheck
    BY <1>0, <1>1, <2>2 DEF PreInv, PreHashCheck
  <2>3. CASE PreHashFinish
    BY <1>0, <1>1, <2>3 DEF PreInv, PreHashFinish
  <2>4. QED
    BY <2>1, <2>2, <2>3
<1>5. StepInv'
  BY <1>0, <1>1 DEF StepInv, InStep, AtChunk, Filled, PageAt, page_idx, workerVars
<1>6. QED
  BY <1>2, <1>3, <1>4, <1>5 DEF PipeInv

\* PreHashClear: nothing counts as hashed.
LEMMA ClearKeeps ==
  ASSUME PipeInv, PreHashClear
  PROVE  PipeInv'
<1> USE PipelineAssumption DEF preShared
<1>0. TypePre /\ PreInv /\ StepInv
  BY DEF PipeInv
<1>1. /\ pre_pc = "clear" /\ pre_pc' = "check" /\ pre_i' = 0
      /\ pre_hash_pair_chunk' = [k \in Slots |-> NoHash]
      /\ UNCHANGED <<mainVars, worker_todo, workerVars, preShared, heap>>
  BY DEF PreHashClear
<1>2. /\ TypeMain' /\ TypeWorker'
      /\ MainInv' /\ JobInv' /\ WorkerInv' /\ HistoryInv'
  BY <1>1, PreFrame
<1>3. TypePre'
  <2>1. NoHash \in Page
    BY DEF NoHash, NoneYet, Page
  <2>2. pre_hash_pair_chunk' \in [Slots -> Page]
    BY <1>1, <2>1
  <2>3. QED
    BY <1>0, <1>1, <2>2 DEF TypePre
<1>4. PreInv' /\ pre_hash_curr_idx' = 0
  BY <1>0, <1>1 DEF PreInv
<1>5. StepInv'
  BY <1>0, <1>1, <1>4 DEF StepInv, InStep, AtChunk, page_idx, workerVars, Slots
<1>6. QED
  BY <1>2, <1>3, <1>4, <1>5 DEF PipeInv

\* PreHashOne: while the worker is in step with the chunk, the buffer is the
\* job's, which is held; otherwise it may be gone.
LEMMA HashOneKeeps ==
  ASSUME PipeInv, PreHashOne
  PROVE  PipeInv'
<1> USE PipelineAssumption DEF preShared
<1>0. TypeMain /\ TypeWorker /\ TypePre /\ PreInv /\ StepInv /\ JobInv /\ WorkerInv
  BY DEF PipeInv
<1> DEFINE off == pre_hash_base.off + pre_i
<1>1. /\ pre_pc = "hash" /\ pre_pc' = "count"
      /\ UNCHANGED <<mainVars, worker_todo, workerVars, preShared, pre_i, heap>>
  BY DEF PreHashOne
<1>2. PICK h : /\ pre_hash_pair_chunk' = [pre_hash_pair_chunk EXCEPT ![pre_i] = h]
               /\ \/ Holds(pre_hash_base.buf, off) /\ h = PageAt(pre_hash_base.buf, off)
                  \/ ~Holds(pre_hash_base.buf, off) /\ h = Garbage
  BY DEF PreHashOne
<1>3. pre_i \in Slots /\ pre_hash_curr_idx = pre_i /\ off \in Nat /\ pre_i < pre_hash_max_idx
  BY <1>0, <1>1 DEF TypePre, PreInv, Slots
<1>4. InStep => Holds(pre_hash_base.buf, off)
  <2>1. SUFFICES ASSUME InStep PROVE Holds(pre_hash_base.buf, off)
    OBVIOUS
  <2>2. AtChunk /\ Busy
    BY <1>0, <2>1 DEF StepInv, InStep, WorkerInv
  <2>3. off < worker_todo.num_pages /\ worker_todo.num_pages > 0
    BY <1>0, <1>3, <2>2 DEF AtChunk, JobInv, TypePre, TypeWorker
  <2>4. QED
    BY <1>0, <2>2, <2>3 DEF JobInv, AtChunk, Holds, Allocated
<1>5. h \in Page
  <2>1. CASE Holds(pre_hash_base.buf, off) /\ h = PageAt(pre_hash_base.buf, off)
    <3>1. pre_hash_base.buf \in Buffers
      BY <1>0, <1>1 DEF PreInv
    <3>2. QED
      BY <1>0, <1>3, <2>1, <3>1 DEF TypeMain, PageAt, Page
  <2>2. CASE h = Garbage
    BY <2>2 DEF Garbage, Page
  <2>3. QED
    BY <1>2, <2>1, <2>2
<1>6. /\ TypeMain' /\ TypeWorker'
      /\ MainInv' /\ JobInv' /\ WorkerInv' /\ HistoryInv'
  BY <1>1, PreFrame
<1>7. TypePre'
  BY <1>0, <1>1, <1>2, <1>5 DEF TypePre
<1>8. PreInv'
  BY <1>0, <1>1 DEF PreInv
<1>9. StepInv'
  <2>1. ASSUME InStep' PROVE AtChunk' /\ (\A k \in Slots : k < pre_hash_curr_idx' => Filled(k)')
                             /\ Filled(pre_i)'
    <3>1. InStep /\ AtChunk /\ AtChunk'
      BY <1>0, <1>1, <2>1 DEF StepInv, InStep, AtChunk, workerVars
    <3>2. h = PageAt(pre_hash_base.buf, off)
      BY <1>2, <1>4, <3>1
    <3>3. Filled(pre_i)'
      BY <1>0, <1>1, <1>2, <1>3, <3>2 DEF TypePre, Filled, PageAt
    <3>4. ASSUME NEW k \in Slots, k < pre_hash_curr_idx PROVE Filled(k)'
      BY <1>0, <1>1, <1>2, <1>3, <3>1, <3>4 DEF TypePre, StepInv, Filled, PageAt
    <3>5. QED
      BY <1>1, <3>1, <3>3, <3>4
  <2>2. worker_pc' = "use" => (pre_hit' => PRE_HASH_ON /\ page_idx' < pre_hash_curr_idx')
    BY <1>0, <1>1 DEF StepInv, page_idx, workerVars
  <2>3. QED
    BY <2>1, <2>2 DEF StepInv
<1>10. QED
  BY <1>6, <1>7, <1>8, <1>9 DEF PipeInv

\* PreHashCount: one entry more is filled.
LEMMA CountKeeps ==
  ASSUME PipeInv, PreHashCount
  PROVE  PipeInv'
<1> USE PipelineAssumption
<1>0. TypeWorker /\ TypePre /\ PreInv /\ StepInv
  BY DEF PipeInv
<1>1. /\ pre_pc = "count" /\ pre_pc' = "check"
      /\ pre_hash_curr_idx' = pre_hash_curr_idx + 1 /\ pre_i' = pre_i + 1
      /\ UNCHANGED <<mainVars, worker_todo, workerVars, pre_hash_worker_status, pre_hash_base,
                     pre_hash_max_idx, pre_hash_pair_chunk, heap>>
  BY DEF PreHashCount
<1>2. /\ pre_i \in Nat /\ pre_hash_curr_idx = pre_i /\ pre_i < pre_hash_max_idx
      /\ pre_hash_max_idx \in 0..PRE_HASH_NUM
  BY <1>0, <1>1 DEF TypePre, PreInv
<1>3. /\ TypeMain' /\ TypeWorker'
      /\ MainInv' /\ JobInv' /\ WorkerInv' /\ HistoryInv'
  BY <1>1, PreFrame
<1>4. TypePre'
  BY <1>0, <1>1, <1>2 DEF TypePre
<1>5. PreInv'
  BY <1>0, <1>1, <1>2 DEF PreInv
<1>6. StepInv'
  <2>1. ASSUME InStep' PROVE AtChunk' /\ \A k \in Slots : k < pre_hash_curr_idx' => Filled(k)'
    <3>1. InStep /\ AtChunk'
      BY <1>0, <1>1, <2>1 DEF StepInv, InStep, AtChunk, workerVars
    <3>2. \A k : Filled(k)' <=> Filled(k)
      BY <1>1 DEF Filled, PageAt
    <3>3. \A k \in Slots : k < pre_hash_curr_idx + 1 => Filled(k)
      BY <1>0, <1>1, <1>2, <3>1 DEF StepInv, Slots
    <3>4. QED
      BY <1>1, <3>1, <3>2, <3>3
  <2>2. worker_pc' = "use" => (pre_hit' => PRE_HASH_ON /\ page_idx' < pre_hash_curr_idx')
    BY <1>0, <1>1, <1>2 DEF StepInv, page_idx, workerVars, TypeWorker, TypePre
  <2>3. QED
    BY <1>1, <2>1, <2>2 DEF StepInv
<1>7. QED
  BY <1>3, <1>4, <1>5, <1>6 DEF PipeInv

\* PreHashFault: the process has ended, and the scan with it.
LEMMA FaultKeeps ==
  ASSUME PipeInv, PreHashFault
  PROVE  PipeInv'
<1> USE PipelineAssumption DEF preShared
<1>0. /\ TypeMain /\ TypeWorker /\ TypePre /\ MainInv /\ JobInv /\ WorkerInv /\ PreInv
      /\ HistoryInv
  BY DEF PipeInv
<1>1. /\ pre_pc' = "dead" /\ worker_pc' = "dead"
      /\ \/ main_pc = "done" /\ main_pc' = "done"
         \/ main_pc # "done" /\ main_pc' = "failed"
      /\ UNCHANGED <<tbl, sgl_idx, page_buf, prev_page_buf, scanned_cnt, worker_todo,
                     worker_i, pre_hit, last, seen, preShared, pre_i,
                     pre_hash_pair_chunk, heap>>
  BY DEF PreHashFault
<1>2. TypeMain' /\ TypeWorker' /\ TypePre'
  BY <1>0, <1>1 DEF TypeMain, TypeWorker, TypePre
<1>3. JobInv' /\ WorkerInv' /\ StepInv'
  BY <1>0, <1>1 DEF JobInv, WorkerInv, StepInv, InStep, Busy
<1>4. PreInv'
  BY <1>0, <1>1 DEF PreInv
<1>5. MainInv'
  <2>1. AllocatedSet' = AllocatedSet
    BY <1>1 DEF AllocatedSet, Allocated
  <2>2. AllocatedSet \subseteq {page_buf, prev_page_buf}
    BY <1>0 DEF MainInv, TypeMain
  <2>3. QED
    BY <1>0, <1>1, <2>1, <2>2 DEF MainInv
<1>6. HistoryInv'
  <2>1. main_pc = "done" => ~Busy
    BY <1>0 DEF MainInv, Busy, NoJob
  <2>2. QED
    BY <1>0, <1>1, <2>1 DEF HistoryInv, Looked, Busy
<1>7. QED
  BY <1>2, <1>3, <1>4, <1>5, <1>6 DEF PipeInv

-----------------------------------------------------------------------------
(* The inductive invariant.                                                *)

\* No buffer is allocated and no thread has anything to do.
LEMMA PipeInit == Init => PipeInv
<1> USE PipelineAssumption
<1> SUFFICES ASSUME Init PROVE PipeInv
  OBVIOUS
<1>0. 1 \in Tables
  BY DEF Tables
<1>1. TypeMain
  <2>1. Unused \in [tbl : Nat, first : Nat, num : Nat]
    BY DEF Unused
  <2>2. heap \in [Buffers -> [tbl : Nat, first : Nat, num : Nat]]
    BY <2>1 DEF Init
  <2>3. QED
    BY <1>0, <2>2 DEF Init, TypeMain
<1>2. TypeWorker
  <2>1. NoneYet \in Page
    BY DEF NoneYet, Page
  <2>2. last \in [page : Page, hash : Page]
    BY <2>1 DEF Init
  <2>3. worker_todo \in [tbl : Nat, pages_buf : Buffers \cup {NoBuf}, num_pages : Nat,
                         idx_adjust : Nat,
                         status : {"WORKER_READY", "DATA_READY", "WORK_DONE"}]
    BY DEF Init, NoJob
  <2>4. pre_hit \in BOOLEAN
    BY Zenon DEF Init
  <2>5. QED
    BY <2>2, <2>3, <2>4 DEF Init, TypeWorker
<1>3. TypePre
  <2>1. NoHash \in Page
    BY DEF NoHash, NoneYet, Page
  <2>2. pre_hash_pair_chunk \in [Slots -> Page]
    BY <2>1 DEF Init
  <2>3. pre_hash_base \in [buf : Buffers \cup {NoBuf}, off : Nat]
    BY DEF Init
  <2>4. QED
    BY <2>2, <2>3 DEF Init, TypePre
<1>4. MainInv
  <2>1. AllocatedSet = {}
    BY DEF Init, AllocatedSet, Allocated, Unused
  <2>2. sgl_nums(1) \in Nat \ {0}
    BY <1>0, SglFacts
  <2>3. QED
    BY <2>1, <2>2 DEF Init, MainInv, OldJob
<1>5. ~Busy /\ Looked = 0
  BY DEF Init, Busy, Looked, NoJob
<1>6. JobInv /\ WorkerInv /\ PreInv /\ StepInv
  BY <1>5 DEF Init, JobInv, WorkerInv, PreInv, StepInv, InStep
<1>7. HistoryInv
  <2>1. FirstOf(0) = 0
    BY DEF FirstOf
  <2>2. QED
    BY <1>5, <2>1 DEF Init, HistoryInv, Before
<1>8. QED
  BY <1>1, <1>2, <1>3, <1>4, <1>6, <1>7 DEF PipeInv

\* Every step keeps it.
LEMMA PipeStep == PipeInv /\ [Next]_vars => PipeInv'
<1> SUFFICES ASSUME PipeInv, [Next]_vars PROVE PipeInv'
  OBVIOUS
<1>1. CASE do_ksm_v3
  BY <1>1, ReadPagesKeeps, ReadFailsKeeps, HandOffKeeps, FreePrevKeeps, JoinKeeps, FreeLastKeeps
  DEF do_ksm_v3
<1>2. CASE ksm_page_worker
  BY <1>2, TakeJobKeeps, StartKeeps, StopKeeps, NoStartKeeps, LookupKeeps, CalculateKeeps,
     FinishJobKeeps
  DEF ksm_page_worker
<1>3. CASE pre_hash_worker
  BY <1>3, PreMovesKeeps, ClearKeeps, HashOneKeeps, FaultKeeps, CountKeeps DEF pre_hash_worker
<1>4. CASE UNCHANGED vars
  <2>1. UNCHANGED <<mainVars, worker_todo, workerVars, preShared, preVars, heap>>
    BY <1>4 DEF vars
  <2>2. /\ TypeMain' /\ TypeWorker'
        /\ MainInv' /\ JobInv' /\ WorkerInv' /\ HistoryInv'
    BY <2>1, PreFrame DEF preVars
  <2>3. TypePre' /\ PreInv'
    BY <2>1 DEF PipeInv, TypePre, PreInv, preVars, preShared
  <2>4. StepInv'
    BY <2>1 DEF PipeInv, StepInv, InStep, AtChunk, Filled, PageAt, page_idx, workerVars, preVars,
                preShared
  <2>5. QED
    BY <2>2, <2>3, <2>4 DEF PipeInv
<1>5. QED
  BY <1>1, <1>2, <1>3, <1>4 DEF Next, Over

\* PipeInv holds in every reachable state of the three threads.
THEOREM PipeInvariant == Spec => []PipeInv
BY PipeInit, PipeStep, PTL DEF Spec

-----------------------------------------------------------------------------
(* What follows from it.                                                   *)

LEMMA PipeInvTypes == PipeInv => TypeOK
BY Zenon DEF PipeInv, TypeMain, TypeWorker, TypePre, TypeOK

LEMMA PairCardinality ==
  ASSUME NEW a, NEW b, NEW S, S \subseteq {a, b}
  PROVE  Cardinality(S) <= 2
<1>1. /\ IsFiniteSet({}) /\ Cardinality({}) = 0
      /\ IsFiniteSet({a}) /\ Cardinality({a}) = 1
  BY FS_EmptySet, FS_Singleton
<1>2. /\ IsFiniteSet({a} \cup {b})
      /\ Cardinality({a} \cup {b}) = IF b \in {a} THEN Cardinality({a}) ELSE Cardinality({a}) + 1
  BY <1>1, FS_AddElement
<1>3. {a} \cup {b} = {a, b}
  OBVIOUS
<1>4. IsFiniteSet({a, b}) /\ Cardinality({a, b}) <= 2
  BY <1>1, <1>2, <1>3
<1>5. /\ Cardinality(S) <= Cardinality({a, b})
      /\ Cardinality(S) \in Nat /\ Cardinality({a, b}) \in Nat
  BY <1>4, FS_Subset, FS_CardinalityType
<1>6. QED
  BY <1>4, <1>5

LEMMA PipeInvBuffer == PipeInv => JobBufferHeld
<1> SUFFICES ASSUME PipeInv PROVE JobBufferHeld
  OBVIOUS
<1>0. TypeMain /\ MainInv /\ JobInv
  BY DEF PipeInv
<1>1. Busy => /\ Allocated(worker_todo.pages_buf)
              /\ heap[worker_todo.pages_buf] =
                   [tbl |-> worker_todo.tbl, first |-> worker_todo.idx_adjust,
                    num |-> worker_todo.num_pages]
  BY <1>0 DEF JobInv, Allocated
<1>2. AllocatedSet \subseteq {page_buf, prev_page_buf}
  BY <1>0 DEF MainInv, TypeMain
<1>3. Cardinality(AllocatedSet) <= 2
  BY <1>2, PairCardinality
<1>4. main_pc = "done" => \A b \in Buffers : ~Allocated(b)
  BY <1>0 DEF MainInv, AllocatedSet
<1>5. QED
  BY <1>1, <1>3, <1>4 DEF JobBufferHeld, Busy, AllocatedSet

LEMMA PipeInvInStep == PipeInv => PreHashInStep
<1> SUFFICES ASSUME PipeInv, PRE_HASH_ON, worker_pc \in {"lookup", "use"}
             PROVE  /\ pre_hash_base.buf = worker_todo.pages_buf
                    /\ page_idx \in Slots
                    /\ \A k \in Slots : k < pre_hash_curr_idx => Filled(k)
  BY DEF PreHashInStep, Filled
<1>0. TypeWorker /\ TypePre /\ StepInv
  BY DEF PipeInv
<1>1. AtChunk /\ \A k \in Slots : k < pre_hash_curr_idx => Filled(k)
  BY <1>0 DEF StepInv, InStep
<1>2. page_idx \in Slots
  BY <1>0, <1>1, PipelineAssumption DEF AtChunk, TypeWorker, TypePre, page_idx, Slots
<1>3. QED
  BY <1>1, <1>2 DEF AtChunk

\* The variables of the three threads keep their types: in particular
\* pre_hash_pair_curr_idx never runs beyond the chunk.
THEOREM PipeTypes == Spec => []TypeOK
BY PipeInvariant, PipeInvTypes, PTL

\* The buffer of a job stays allocated until ksm_page_worker is done with it,
\* do_ksm_v3 never has a third buffer, and none is left when it returns.
THEOREM JobBufferTheorem == Spec => []JobBufferHeld
BY PipeInvariant, PipeInvBuffer, PTL

\* lookup_pre_hash_pair always finds the chunk of the pages it is at, and what
\* counts as hashed there is hashed.
THEOREM PreHashTheorem == Spec => []PreHashInStep
BY PipeInvariant, PipeInvInStep, PTL

-----------------------------------------------------------------------------
(* The serial scan.                                                        *)

result == IF main_pc = "done" THEN scanned_cnt ELSE IF main_pc = "failed" THEN -2 ELSE -1

serialVars == <<last, seen, result>>

LEMMA SerialStart == Init => Serial!SerialInit
BY DEF Init, Serial!SerialInit, NoneYet, Serial!NoneYet

\* The page of a job is the one after the last page looked at.
LEMMA PageIsNext ==
  ASSUME NEW t \in Tables, NEW n \in Nat, n < PageCounts[t]
  PROVE  /\ Serial!NextPage(Before(t, n)) = [tbl |-> t, idx |-> n]
         /\ ~Serial!IsLastPage(Before(t, n))
<1> USE PipelineAssumption
<1>1. Tables = 1 .. Len(PageCounts) /\ Len(PageCounts) \in Nat /\ t \in Nat \ {0}
      /\ \A u \in Tables : PageCounts[u] \in Nat \ {0}
  BY DEF Tables
<1>2. CASE n > 0
  <2>1. Before(t, n) = [tbl |-> t, idx |-> n - 1]
    BY <1>2 DEF Before
  <2>2. n - 1 + 1 = n
    OBVIOUS
  <2>3. QED
    BY <1>1, <2>1, <2>2 DEF Serial!NextPage, Serial!IsLastPage, Tables
<1>3. CASE n = 0 /\ t = 1
  <2>1. Before(t, n) = [tbl |-> 0, idx |-> 0]
    BY <1>3 DEF Before, NoneYet
  <2>2. 0 \notin DOMAIN PageCounts /\ Len(PageCounts) # 0
    BY <1>1, <1>3 DEF Tables
  <2>3. QED
    BY <1>3, <2>1, <2>2 DEF Serial!NextPage, Serial!IsLastPage
<1>4. CASE n = 0 /\ t # 1
  <2>1. PICK u \in Tables : u = t - 1 /\ PageCounts[u] \in Nat \ {0}
    BY <1>1, <1>4
  <2>2. Before(t, n) = [tbl |-> u, idx |-> PageCounts[u] - 1]
    BY <1>4, <2>1 DEF Before
  <2>3. PageCounts[u] - 1 + 1 = PageCounts[u] /\ u # Len(PageCounts) /\ u + 1 = t
    BY <1>1, <2>1
  <2>4. ~(PageCounts[u] < PageCounts[u])
    BY <2>1
  <2>5. PICK p : p = Before(t, n) /\ p.tbl = u /\ p.idx + 1 = PageCounts[u]
    BY <2>2, <2>3
  <2>6. Serial!NextPage(p) = [tbl |-> u + 1, idx |-> 0]
    BY <2>4, <2>5 DEF Serial!NextPage
  <2>7. ~Serial!IsLastPage(p)
    BY <2>3, <2>5 DEF Serial!IsLastPage
  <2>8. QED
    BY <1>4, <2>3, <2>5, <2>6, <2>7
<1>5. QED
  BY <1>2, <1>3, <1>4

\* calculate_hash_pair looks at the next page.
LEMMA SerialLook ==
  ASSUME PipeInv, calculate_hash_pair
  PROVE  Serial!LookAtPage
<1>0. TypeWorker /\ MainInv /\ JobInv /\ WorkerInv /\ HistoryInv
  BY DEF PipeInv
<1>1. /\ worker_pc = "use" /\ seen' = seen + 1 /\ UNCHANGED mainVars
  BY DEF calculate_hash_pair, LookAt
<1>2. /\ Busy /\ worker_i < worker_todo.num_pages /\ worker_i \in Nat
      /\ worker_todo.tbl \in Tables /\ worker_todo.idx_adjust \in Nat
      /\ worker_todo.num_pages \in Nat
      /\ worker_todo.idx_adjust + worker_todo.num_pages <= PageCounts[worker_todo.tbl]
  BY <1>0, <1>1 DEF WorkerInv, JobInv, TypeWorker
<1>3. PICK n \in Nat : n = worker_todo.idx_adjust + worker_i /\ n < PageCounts[worker_todo.tbl]
  BY <1>2, SglFacts
<1>4. last.page = Before(worker_todo.tbl, n)
  BY <1>0, <1>1, <1>2, <1>3 DEF HistoryInv, Looked
<1>5. /\ Serial!NextPage(last.page) = [tbl |-> worker_todo.tbl, idx |-> n]
      /\ ~Serial!IsLastPage(last.page)
  BY <1>2, <1>3, <1>4, PageIsNext
<1>6. last' = [page |-> Serial!NextPage(last.page), hash |-> Serial!NextPage(last.page)]
  BY <1>3, <1>5, HashIsOfPage
<1>7. main_pc # "done" /\ main_pc' = main_pc
  BY <1>0, <1>1, <1>2 DEF MainInv, Busy, NoJob, mainVars
<1>8. QED
  BY <1>1, <1>5, <1>6, <1>7 DEF Serial!LookAtPage

\* FreeLast of the last table returns the number of pages.
LEMMA SerialReturn ==
  ASSUME PipeInv, FreeLast
  PROVE  Serial!Return \/ UNCHANGED serialVars
<1> USE PipelineAssumption
<1>0. TypeMain /\ TypeWorker /\ MainInv /\ HistoryInv /\ MainInv'
  BY FreeLastKeeps DEF PipeInv
<1>1. /\ main_pc = "freelast" /\ UNCHANGED <<last, seen, scanned_cnt>>
      /\ \/ main_pc' = "read"
         \/ main_pc' = "done" /\ tbl' = tbl
  <2>1. main_pc = "freelast" /\ UNCHANGED <<last, seen, scanned_cnt>>
    BY DEF FreeLast, workerVars
  <2>2. \/ main_pc' = "read"
        \/ main_pc' = "done" /\ tbl' = tbl
    BY DEF FreeLast
  <2>3. QED
    BY <2>1, <2>2
<1>2. CASE main_pc' = "read"
  BY <1>1, <1>2 DEF serialVars, result
<1>3. CASE main_pc' = "done" /\ tbl' = tbl
  <2>1. worker_todo = NoJob /\ tbl = Len(PageCounts)
    BY <1>0, <1>1, <1>3 DEF MainInv
  <2>2. ~Busy /\ Looked = 0
    BY <2>1 DEF Busy, Looked, NoJob
  <2>3. seen = scanned_cnt /\ last.page = Before(tbl, PageCounts[tbl])
    BY <1>0, <1>1, <2>2 DEF HistoryInv, TypeMain
  <2>4. PageCounts[tbl] \in Nat \ {0}
    BY <1>0, SglFacts DEF TypeMain
  <2>5. last.page = [tbl |-> tbl, idx |-> PageCounts[tbl] - 1]
    BY <2>3, <2>4 DEF Before
  <2>6. last.page.idx + 1 = PageCounts[tbl] /\ last.page.tbl = tbl
    BY <2>4, <2>5
  <2>7. Serial!IsLastPage(last.page)
    BY <2>1, <2>6 DEF Serial!IsLastPage
  <2>8. QED
    BY <1>1, <1>3, <2>3, <2>7 DEF Serial!Return
<1>4. QED
  BY <1>1, <1>2, <1>3

\* Every step of the three threads is a step of the serial scan, or none.
LEMMA SerialStep ==
  ASSUME PipeInv, [Next]_vars
  PROVE  [Serial!SerialNext]_serialVars
<1> USE DEF serialVars, result
<1>1. CASE do_ksm_v3
  <2>1. CASE ReadPages \/ HandOff \/ FreePrev \/ Join
    <3>1. /\ UNCHANGED <<last, seen>> /\ main_pc \notin {"done", "failed"}
          /\ main_pc' \notin {"done", "failed"}
      BY <2>1 DEF ReadPages, HandOff, FreePrev, Join, workerVars
    <3>2. QED
      BY <3>1
  <2>2. CASE ReadFails
    BY <2>2 DEF ReadFails, workerVars, Serial!SerialNext, Serial!Fail
  <2>3. CASE FreeLast
    BY <2>3, SerialReturn DEF Serial!SerialNext
  <2>4. QED
    BY <1>1, <2>1, <2>2, <2>3 DEF do_ksm_v3
<1>2. CASE ksm_page_worker
  <2>1. CASE calculate_hash_pair
    BY <2>1, SerialLook DEF Serial!SerialNext
  <2>2. CASE ~calculate_hash_pair
    <3>1. UNCHANGED <<main_pc, scanned_cnt, last, seen>>
      BY <1>2, <2>2 DEF ksm_page_worker, TakeJob, start_pre_hash_pair_table, StopPreHash,
           NoPreHashStart, lookup_pre_hash_pair, FinishJob, mainVars, workerVars
    <3>2. QED
      BY <3>1
  <2>3. QED
    BY <2>1, <2>2
<1>3. CASE pre_hash_worker
  <2>1. CASE PreHashFault
    <3>1. UNCHANGED <<last, seen, scanned_cnt>>
          /\ (\/ main_pc = "done" /\ main_pc' = "done"
              \/ main_pc # "done" /\ main_pc' = "failed")
      BY <2>1 DEF PreHashFault
    <3>2. CASE main_pc \in {"done", "failed"}
      BY <3>1, <3>2
    <3>3. CASE main_pc \notin {"done", "failed"}
      BY <3>1, <3>3 DEF Serial!SerialNext, Serial!Fail
    <3>4. QED
      BY <3>2, <3>3
  <2>2. CASE ~PreHashFault
    <3>1. UNCHANGED <<main_pc, scanned_cnt, last, seen>>
      BY <1>3, <2>2 DEF pre_hash_worker, PreHashTake, PreHashClear, PreHashCheck, PreHashOne,
           PreHashCount, PreHashFinish, mainVars, workerVars
    <3>2. QED
      BY <3>1
  <2>3. QED
    BY <2>1, <2>2
<1>4. CASE UNCHANGED vars
  BY <1>4 DEF vars, mainVars, workerVars
<1>5. QED
  BY <1>1, <1>2, <1>3, <1>4 DEF Next, Over

\* do_ksm_v3 with its two helper threads keeps the promise of the serial scan:
\* every page once, in order, each with the hash of its own content, and the
\* number of pages returned.
THEOREM SerialTheorem == Spec => ScansSerially
<1>1. PipeInv /\ [Next]_vars => [Serial!SerialNext]_serialVars
  BY SerialStep
<1>2. QED
  BY PipeInvariant, SerialStart, <1>1, PTL
  DEF Spec, ScansSerially, Serial!SerialSpec, serialVars, result
=============================================================================
