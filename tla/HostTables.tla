----------------------------- MODULE HostTables -----------------------------
(***************************************************************************)
(* The tables an offloaded iteration hands to the SmartNIC, and their life *)
(* on the host: the shadow page table of each address space (ksm_shadow.c),*)
(* the table of errors that outlives the iterations, their registration as *)
(* scatter lists (ksm_rdma.c), what the server makes of the descriptors    *)
(* (server.c), and the clean-up.                                           *)
(*                                                                         *)
(* A page of a mapping is its address in walking order, an error a number. *)
(* The sizes the code derives from PAGE_SIZE and KMALLOC_MAX_SIZE are      *)
(* parameters.  Every allocation of a growing table may fail.              *)
(***************************************************************************)
EXTENDS Integers, Sequences, SequencesExt

CONSTANTS
    EntriesPerPage,           \* PAGE_SIZE / sizeof(struct shadow_pte)
    MAX_CAPACITY_PER_TABLE,   \* entries of a full va_array
    MAX_VA_ARRAYS,
    LogsPerPage,              \* PAGE_SIZE / sizeof(struct ksm_event_log)
    MAX_RESULT_TABLE_ENTRIES, \* entries of a full entry_table
    MAX_PAGES_IN_SGL,         \* pages of one memory region
    SG_CHUNK_SIZE,            \* entries of one allocation of a scatter list
    MaxPages,                 \* bound: pages met in a walk
    MaxMms,                   \* bound: address spaces of an iteration, at most MAX_MM_DESCS
    MaxErrors,                \* bound: failed merges of an iteration
    MaxIterations             \* bound: iterations of a behaviour

\* A full array is a page's worth of entries doubled some number of times.
ASSUME TablesAssumption ==
    /\ EntriesPerPage \in Nat \ {0} /\ LogsPerPage \in Nat \ {0}
    /\ \E k \in 0 .. 20 : MAX_CAPACITY_PER_TABLE = EntriesPerPage * 2 ^ k
    /\ \E k \in 0 .. 20 : MAX_RESULT_TABLE_ENTRIES = LogsPerPage * 2 ^ k
    /\ MAX_VA_ARRAYS \in Nat \ {0} /\ MAX_PAGES_IN_SGL \in Nat \ {0}
    /\ SG_CHUNK_SIZE \in Nat \ {0, 1}
    /\ {MaxPages, MaxMms, MaxErrors, MaxIterations} \subseteq Nat

\* The map of a full table fits one region: MAX_VA_ARRAYS arrays of one half of
\* KMALLOC_MAX_SIZE are one half of MAX_PAGES_IN_SGL pages.
ASSUME MapAssumption ==
    MAX_VA_ARRAYS * MAX_CAPACITY_PER_TABLE < EntriesPerPage * MAX_PAGES_IN_SGL

VARIABLES
    phase,   \* where ksm_do_scan is
    iter,    \* iterations ended
    va,      \* pages met by the walk of the address space in hand
    shadow,  \* its table
    pts,     \* shadow_pt_list
    walked,  \* history: the pages listed for shadow and for each of pts
    errtab,  \* ksm_error_table
    errors,  \* history: the errors logged since it was cleared
    chunks   \* scatter-list allocations not freed: <<table, region, chunk>>

vars == <<phase, iter, va, shadow, pts, walked, errtab, errors, chunks>>

DivUp(a, b) == (a + b - 1) \div b

-----------------------------------------------------------------------------
(* Tables that grow: arrays of entries, filled one entry at a time.        *)

Zeros(n) == [i \in 1 .. n |-> 0]

\* The entry at pos, or -1 when its array does not reach that far.
At(t, max, pos) ==
    LET a == pos \div max + 1
        i == (pos % max) + 1
    IN  IF a <= Len(t.arrays) /\ i <= Len(t.arrays[a]) THEN t.arrays[a][i] ELSE -1

\* Mutant: the array is doubled whatever its size.
Grown_NoLimit(t, max, perPage) ==
    [t EXCEPT !.arrays[Len(t.arrays)] = @ \o Zeros(t.capacity), !.capacity = 2 * @]

\* The last array is doubled; when that is too much a new one of one page is added.
Grown(t, max, perPage) ==
    LET curr == t.capacity - max * (Len(t.arrays) - 1)
    IN  IF curr * 2 > max
        THEN [t EXCEPT !.arrays = Append(@, Zeros(perPage)), !.capacity = @ + perPage]
        ELSE [t EXCEPT !.arrays[Len(t.arrays)] = @ \o Zeros(curr), !.capacity = @ + curr]

\* A table there is room in: t, or t grown unless the allocation fails.
Roomy(t, max, perPage) ==
    IF t.cnt >= t.capacity THEN {t, Grown(t, max, perPage)} ELSE {t}

\* t is full, and Grown adds an array to it.
NeedsArray(t, max) ==
    t.cnt >= t.capacity /\ (t.capacity - max * (Len(t.arrays) - 1)) * 2 > max

\* The entry goes to the end, or is refused.
Stored(t, max, e) ==
    IF t.cnt >= t.capacity THEN t
    ELSE [t EXCEPT !.arrays[t.cnt \div max + 1][(t.cnt % max) + 1] = e, !.cnt = @ + 1]

-----------------------------------------------------------------------------
(* Scatter lists: regions of MAX_PAGES_IN_SGL pages, in chained chunks.    *)

Regions(pages) == DivUp(pages, MAX_PAGES_IN_SGL)

\* this_sgl_size of region r (from 0) of num.
RegionSize(pages, num, r) ==
    IF r = num - 1 THEN pages - r * MAX_PAGES_IN_SGL ELSE MAX_PAGES_IN_SGL

\* iters: all chunks but the last give one entry to the chain.
ChunkCount(n) ==
    IF n <= SG_CHUNK_SIZE THEN 1
    ELSE DivUp(n - SG_CHUNK_SIZE, SG_CHUNK_SIZE - 1) + 1

\* Pages put into chunk c (from 0) of a region of n.
ChunkPages(n, c) ==
    IF c = ChunkCount(n) - 1 THEN n - c * (SG_CHUNK_SIZE - 1) ELSE SG_CHUNK_SIZE - 1

\* The page numbers of a region in the order the chain lists them.
RegionPages(first, n) ==
    FlattenSeq([c \in 1 .. ChunkCount(n) |->
        [i \in 1 .. ChunkPages(n, c - 1) |-> first + (c - 1) * (SG_CHUNK_SIZE - 1) + i - 1]])

\* Mutant: the entry given to the chain is not counted.
FreedSize_NoChain(n, c) ==
    IF c = ChunkCount(n) - 1 THEN n - c * SG_CHUNK_SIZE ELSE SG_CHUNK_SIZE

\* this_size of the freeing loop: its last entry is the chain of chunk c, or the end.
FreedSize(n, c) ==
    IF c = ChunkCount(n) - 1 THEN n - c * (SG_CHUNK_SIZE - 1) ELSE SG_CHUNK_SIZE

\* The chunks the freeing loop gets to: it goes on as long as it finds a chain entry.
FreedChunks(n) ==
    LET Finds(c) == IF c = ChunkCount(n) - 1 THEN FreedSize(n, c) = ChunkPages(n, c)
                                             ELSE FreedSize(n, c) = ChunkPages(n, c) + 1
    IN  {c \in 0 .. ChunkCount(n) - 1 : \A d \in 0 .. c : Finds(d)}

Allocated(name, pages) ==
    UNION {{<<name, r, c>> : c \in 0 .. ChunkCount(RegionSize(pages, Regions(pages), r)) - 1}
            : r \in 0 .. Regions(pages) - 1}

Released(name, pages, num) ==
    UNION {{<<name, r, c>> : c \in FreedChunks(RegionSize(pages, num, r))} : r \in 0 .. num - 1}

-----------------------------------------------------------------------------
(* Shadow page tables.                                                     *)

NoTable == [cnt |-> -1]

\* kmalloc leaves pages_sgt_cnt, here sgls, as it was.
create_empty ==
    /\ phase = "walk" /\ shadow = NoTable /\ Len(pts) < MaxMms
    /\ \E garbage \in {0, 1} :
          shadow' = [arrays |-> <<Zeros(EntriesPerPage)>>, capacity |-> EntriesPerPage,
                     cnt |-> 0, xa |-> <<>>, sgls |-> garbage]
    /\ va' = 0
    /\ walked' = Append(walked, <<>>)
    /\ UNCHANGED <<phase, iter, pts, errtab, errors, chunks>>

\* scan_pte_entry met a page; insert_entry_to_shadow_mm lists it or fails.
insert_entry_to_shadow_mm ==
    /\ phase = "walk" /\ shadow # NoTable /\ va < MaxPages
    /\ va' = va + 1
    /\ \E t \in Roomy(shadow, MAX_CAPACITY_PER_TABLE, EntriesPerPage) :
          LET u == Stored(t, MAX_CAPACITY_PER_TABLE, va')
              listed == u.cnt > t.cnt
          IN  /\ shadow' = IF listed THEN [u EXCEPT !.xa = Append(@, va')] ELSE u
              /\ walked' = IF listed THEN [walked EXCEPT ![Len(walked)] = Append(@, va')] ELSE walked
    /\ UNCHANGED <<phase, iter, pts, errtab, errors, chunks>>

\* The end of create_shadow_mm: an empty table is freed at once, sgls lists of it included.
init_shadow_for_mm ==
    /\ phase = "walk" /\ shadow # NoTable
    /\ shadow' = NoTable
    /\ IF shadow.cnt > 0
         THEN pts' = Append(pts, shadow) /\ UNCHANGED <<walked, phase>>
         ELSE /\ walked' = Front(walked)
              /\ phase' = IF shadow.sgls = 0 THEN phase ELSE "undefined"
              /\ UNCHANGED pts
    /\ UNCHANGED <<iter, va, errtab, errors, chunks>>

\* get_va_at.
get_va_at(t, idx) == At(t, MAX_CAPACITY_PER_TABLE, idx)

\* Mutant: every page is taken from the first array.
MapPages_FirstArray(t) ==
    FlattenSeq([a \in 1 .. Len(t.arrays) |->
        [p \in 1 .. (IF a = Len(t.arrays) THEN t.capacity - (a - 1) * MAX_CAPACITY_PER_TABLE
                                          ELSE MAX_CAPACITY_PER_TABLE) \div EntriesPerPage |->
            <<1, (p - 1) * EntriesPerPage>>]])

\* The pages of the map's region: each array, a page's worth at a time.
MapPages(t) ==
    FlattenSeq([a \in 1 .. Len(t.arrays) |->
        [p \in 1 .. (IF a = Len(t.arrays) THEN t.capacity - (a - 1) * MAX_CAPACITY_PER_TABLE
                                          ELSE MAX_CAPACITY_PER_TABLE) \div EntriesPerPage |->
            <<a, (p - 1) * EntriesPerPage>>]])

\* What the registration loop insists on: the map fits one region and covers the table,
\* and the map and the xarray list the same pages.
Registrable(t) ==
    /\ Len(t.arrays) <= MAX_VA_ARRAYS
    /\ Len(MapPages(t)) < MAX_PAGES_IN_SGL
    /\ Len(MapPages(t)) * EntriesPerPage = t.capacity
    /\ Len(t.xa) >= t.cnt
    /\ \A idx \in 0 .. t.cnt - 1 : t.xa[idx + 1] = get_va_at(t, idx)

-----------------------------------------------------------------------------
(* The error table.                                                        *)

ErrorPages == DivUp(errtab.registered, LogsPerPage)

insert_error_log ==
    /\ phase = "apply" /\ Len(errors) < MaxErrors
    /\ \E t \in Roomy(errtab, MAX_RESULT_TABLE_ENTRIES, LogsPerPage) :
          LET e == Len(errors) + 1
              u == Stored(t, MAX_RESULT_TABLE_ENTRIES, e)
          IN  /\ errtab' = u
              /\ errors' = IF u.cnt > t.cnt THEN Append(errors, e) ELSE errors
    /\ UNCHANGED <<phase, iter, va, shadow, pts, walked, chunks>>

RegisteredErrors == errtab.cnt

\* prepare_metadata's end: rdma_register_shadow_mms and rdma_register_error_table.
RegisterAll ==
    /\ phase = "walk" /\ shadow = NoTable /\ pts # <<>>
    /\ pts' = [k \in DOMAIN pts |-> [pts[k] EXCEPT !.sgls = Regions(pts[k].cnt)]]
    /\ errtab' = [errtab EXCEPT !.registered = RegisteredErrors,
                                !.sgls = Regions(DivUp(RegisteredErrors, LogsPerPage))]
    /\ chunks' = (UNION {Allocated(k, pts[k].cnt) : k \in DOMAIN pts})
                   \cup Allocated(0, DivUp(RegisteredErrors, LogsPerPage))
    /\ phase' = IF \A k \in DOMAIN pts : Registrable(pts[k]) THEN "offload" ELSE "stopped"
    /\ UNCHANGED <<iter, va, shadow, walked, errors>>

\* Nothing was registered: the iteration is over.
NothingRegistered ==
    /\ phase = "walk" /\ shadow = NoTable /\ pts = <<>> /\ iter < MaxIterations
    /\ iter' = iter + 1
    /\ UNCHANGED <<phase, va, shadow, pts, walked, errtab, errors, chunks>>

\* Mutant: the entries stay in the table.
Cleared_KeepsCount(t) == [t EXCEPT !.registered = 0]

\* clear_error_table, when every entry was registered.
Cleared(t) == [t EXCEPT !.registered = 0, !.cnt = 0]

ErrorsReleased == Released(0, ErrorPages, errtab.sgls)

\* recv_offload_result came back: rdma_unregister_error_table, which insists on the end of
\* each chain, and clear_error_table, which insists on having registered every entry.
recv_offload_result ==
    /\ phase = "offload"
    /\ chunks' = chunks \ ErrorsReleased
    /\ IF /\ {c \in chunks : c[1] = 0} \subseteq ErrorsReleased
          /\ errtab.registered = errtab.cnt
         THEN /\ errtab' = Cleared(errtab) /\ errors' = <<>>
              /\ phase' \in {"apply", "lost"}
         ELSE phase' = "stopped" /\ UNCHANGED <<errtab, errors>>
    /\ UNCHANGED <<iter, va, shadow, pts, walked>>

\* rdma_unregister_shadow_mms: every table with its lists.
destroy_metadata ==
    /\ phase \in {"apply", "lost"} /\ iter < MaxIterations
    /\ chunks' = chunks \ UNION {Released(k, pts[k].cnt, pts[k].sgls) : k \in DOMAIN pts}
    /\ pts' = <<>> /\ walked' = <<>>
    /\ iter' = iter + 1
    /\ phase' = IF phase = "lost" THEN "alone" ELSE "walk"
    /\ UNCHANGED <<va, shadow, errtab, errors>>

\* krealloc of the array of pointers to the arrays fails in a Grown that adds one: NULL
\* replaces the pointer, which grow_shadow_page_table uses at once and whoever reads the
\* table of errors next does after grow_error_table.
PointersLost ==
    /\ \/ phase = "walk" /\ shadow # NoTable /\ va < MaxPages
            /\ NeedsArray(shadow, MAX_CAPACITY_PER_TABLE)
       \/ phase = "apply" /\ Len(errors) < MaxErrors
            /\ NeedsArray(errtab, MAX_RESULT_TABLE_ENTRIES)
    /\ phase' = "undefined"
    /\ UNCHANGED <<iter, va, shadow, pts, walked, errtab, errors, chunks>>

-----------------------------------------------------------------------------
(* The server's side.                                                      *)

\* One READ of entry_cnt entries from the region of the map.
ServerMap(t) ==
    [e \in 1 .. t.cnt |->
        LET pages == MapPages(t)
            p == (e - 1) \div EntriesPerPage + 1
        IN  IF p > Len(pages) THEN -1
            ELSE t.arrays[pages[p][1]][pages[p][2] + ((e - 1) % EntriesPerPage) + 1]]

\* The buffers of the regions, one after the other, cut as the server cuts them.
ServerPages(t) ==
    FlattenSeq([r \in 1 .. Regions(t.cnt) |->
        LET n == RegionSize(t.cnt, Regions(t.cnt), r - 1)
            listed == RegionPages((r - 1) * MAX_PAGES_IN_SGL, RegionSize(t.cnt, t.sgls, r - 1))
        IN  [i \in 1 .. n |-> IF i <= Len(listed) THEN t.xa[listed[i] + 1] ELSE -1]])

\* do_handle_error: the logs of each region, up to the total.
ServerErrors ==
    LET Log(p, j) == At(errtab, MAX_RESULT_TABLE_ENTRIES, LogsPerPage * p + j)
        InRegion(r) ==
            LET pages == RegionPages(r * MAX_PAGES_IN_SGL, RegionSize(ErrorPages, errtab.sgls, r))
            IN  FlattenSeq([i \in DOMAIN pages |-> [j \in 1 .. LogsPerPage |-> Log(pages[i], j - 1)]])
        Whole == FlattenSeq([r \in 1 .. errtab.sgls |-> InRegion(r - 1)])
    IN  SubSeq(Whole, 1, errtab.registered)

-----------------------------------------------------------------------------
Init ==
    /\ phase = "walk" /\ iter = 0 /\ va = 0
    /\ shadow = NoTable /\ pts = <<>> /\ walked = <<>>
    /\ errtab = [arrays |-> <<Zeros(LogsPerPage)>>, capacity |-> LogsPerPage, cnt |-> 0,
                 registered |-> 0, sgls |-> 0]
    /\ errors = <<>> /\ chunks = {}

Next ==
    \/ create_empty \/ insert_entry_to_shadow_mm \/ init_shadow_for_mm
    \/ RegisterAll \/ NothingRegistered \/ recv_offload_result
    \/ insert_error_log \/ destroy_metadata \/ PointersLost

Spec == Init /\ [][Next]_vars

-----------------------------------------------------------------------------
(* Properties.                                                             *)

TableOK(t, max) ==
    /\ t.cnt \in 0 .. t.capacity
    /\ \A a \in DOMAIN t.arrays : Len(t.arrays[a]) <= max

\* Counts stay inside the capacity and no array outgrows one allocation.
TablesTypeOK ==
    /\ phase \in {"walk", "offload", "apply", "lost", "alone", "stopped", "undefined"}
    /\ iter \in 0 .. MaxIterations /\ va \in 0 .. MaxPages
    /\ shadow # NoTable => TableOK(shadow, MAX_CAPACITY_PER_TABLE)
    /\ \A k \in DOMAIN pts : TableOK(pts[k], MAX_CAPACITY_PER_TABLE)
    /\ TableOK(errtab, MAX_RESULT_TABLE_ENTRIES)

\* Through the map's region and the regions of pages the server reads exactly the pages
\* the walk listed, each with its address, in the order of the walk, however often the
\* table grew, over however many regions and chunks.
ServerReadsWalk ==
    phase = "offload" =>
        \A k \in DOMAIN pts : ServerMap(pts[k]) = walked[k] /\ ServerPages(pts[k]) = walked[k]

\* do_handle_error handles exactly the errors of the iteration before, in order.
ServerReadsErrors == phase = "offload" => ServerErrors = errors

\* The clean-up walks each chain to its end: no chunk of a scatter list is left over
\* when the iteration is.
ListsFreed == phase \in {"walk", "alone"} => chunks = {}

\* Neither the registration's checks of the map and the xarray nor those of the clean-up
\* of the error table ever stop ksmd.
NeverStopped == phase # "stopped"

\* The clean-up of an iteration (rdma_unregister_error_table, rdma_unregister_shadow_mms)
\* passes all its checks and leaves nothing behind.
CleanUpComplete == ListsFreed /\ NeverStopped

=============================================================================
