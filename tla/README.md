# BASK in TLA+

BASK moves Linux's kernel same-page merging (KSM) to a SmartNIC. The host's
`ksmd` lists the pages to scan, a server on the SmartNIC reads them over RDMA,
decides which of them are equal, and sends back a log of merges; the host
carries the log out and reports the merges that failed with the next request.

This directory holds TLA+ models of that system, TLC configurations that check
them, and proofs that TLAPS checks. `PROJECT.json` relates every definition to
the lines it models, lists the runs, the mutants each property was tried
against, the findings, the hazards and the theorems.

Paths below are relative to the repository (`codes/bask/...`, `codes/mm/...`).

## 1. Inventory

| Part | Code | State | Operations |
|---|---|---|---|
| Metadata engine (SmartNIC) | `codes/bask/server.c`, `server.h` | rmap tree of items (`Volatile`, `Unstable`, `Stable`), stable nodes in chains, stable and unstable hash tables, event log, iteration count | `do_handle_error`, `lookup_rmap_item`, `cmp_and_merge_one`, `cmp_and_merge_one_old`, `prune_metadata`, the loop of `on_established` |
| Scan pipeline (SmartNIC) | `do_ksm_v3`, `ksm_page_worker`, `pre_hash_worker` | `worker_todo`, two page buffers, the pre-hash chunk with its status, base and indices | read pages, hand over, free, join; take a job, look at pages; hash ahead, stop, restart |
| Smart scan (SmartNIC) | `skip_volatile`, `should_skip_item` | `volatility_score`, `skip_cnt`, `age` of each item | skip or look at a volatile page, raise and lower its score |
| Client stub (host) | `codes/bask/client_stub.c`, `client_stub.h` | `cb->state`, the queue pair and completion queue, `result_desc`, the reserve of large buffers | connect, register memory, SEND, wait for the answer, READ the result, two event handlers; single operations (STYX) |
| Scan loop (host) | `codes/mm/ksm.c` `ksm_do_scan`, `prepare_metadata`, `apply_result`; `codes/mm/ksm_rdma.c` | `offload_server_status`, rmap items, the kernel's own stable nodes, what `page->mapping` says of each frame | list the pages, send, carry out the log entry by entry, report failures; fall back to scanning on the host |
| List of address spaces (host) | `codes/mm/ksm.c` `__ksm_enter`, `__ksm_exit`, `scan_get_next_rmap_item`, `unmerge_and_remove_all_rmap_items`, `prepare_metadata` | `ksm_mm_head`, `mm_slots_hash`, the cursor `ksm_scan` | enter, exit, three walks |
| Shadow page tables, error and result tables (host) | `codes/mm/ksm_shadow.c`, `ksm_rdma.c` | growing arrays, scatter lists, registrations | insert, register, unregister, clear |
| Connection set-up, clean-up, single-operation server | `server.c` | verbs objects | accept, release, answer a comparison or a hash |
| Not part of the system's logic | `rdma_common.c` (built into nothing), `rdma_stub.c`, `function_cost.c`, `time_util.h`, the rest of `codes/mm` (Linux 6.8), `cloud_workloads/`, `redis/` | | |

How they interact. `ksmd` makes one request at a time: it builds the shadow
tables, registers them, sends one descriptor, waits for one answer, reads the
log out of the server's memory, applies it, and puts the merges that failed
into the error table that travels with the next descriptor. On the server, the
main thread reads pages and hands buffers to the page worker, which owns the
metadata while a scan runs; the pre-hash worker computes hashes ahead of it.
On the host, `cb->state` is the only thing `ksmd`, the completion handler and
the connection manager's handler share.

What is hard in it:

- two copies of one truth. The server's metadata and the kernel's stable tree
  must stay in step over a log, a list of failures and the guests' writes in
  between, and each side stops for ever on an entry that does not fit;
- three threads that share buffers whose addresses come back, with status words
  and spinning in place of condition variables;
- one word that two handlers and a thread store to, waited on with `>=`;
- a list of processes walked with its lock dropped in every round, while
  processes come and go;
- guests that write, fault and give pages back between any two steps;
- shorts that wrap, fields that are never initialised, tables at their limit;
- the loss of the server at any moment.

The properties that make each part correct are listed with its module below,
and the hazards, each at its line, in `PROJECT.json`.

## 2. Modules

| Module | Models | Extends / instantiates |
|---|---|---|
| `BaskServer` | metadata engine, one iteration after another | |
| `BaskServer_proofs` | its theorems | `BaskServer`, `TLAPS` |
| `MCBaskServer` | symmetry for TLC | `BaskServer` |
| `SerialScan` | abstract: what a call of `do_ksm_v3` promises | |
| `ScanPipeline` | the three threads; implements `SerialScan` | instantiates `SerialScan` |
| `ScanPipeline_proofs` | its theorems | `ScanPipeline`, `TLAPS` |
| `MCScanPipeline` | page counts for TLC | `ScanPipeline` |
| `SmartScan` | the scores of one item, in their width | |
| `SmartScan_proofs` | its theorems | `SmartScan`, `TLAPS` |
| `RdmaClient` | the host's end of the connection, with adapter and server as its environment | |
| `RdmaClient_proofs` | its theorems | `RdmaClient`, `TLAPS` |
| `GuestMemory` | abstract: what deduplication promises the guests | |
| `BaskSystem` | server, host and guests together; implements `GuestMemory` | `BaskServer`, instantiates `GuestMemory` |
| `BaskJoint_proofs` | theorems about guests and host alone, and about host and server together | `BaskSystem`, `BaskServer_proofs` |
| `BaskAgree_proofs` | theorems about what the two sides know of each other, and that equal pages get shared | `BaskJoint_proofs` |
| `MCBaskSystem` | symmetry for TLC | `BaskSystem` |
| `MmSlots` | the list of address spaces, processes and the walks | |
| `MmSlots_proofs` | its theorems | `MmSlots`, `TLAPS` |
| `HostTables` | shadow and error tables, their registration, and what the server reads | |
| `HostTables_proofs` | its theorems | `HostTables`, `TLAPS` |

`BaskSystem` is where the parts meet: it takes the server's actions from
`BaskServer`, replaces the free choice of what the host lists and reports by the
host's own steps, and checks that the assumption `BaskServer` makes about the
host (`HostReports`) is what the host does (`ErrorsAreReportable`). `SerialScan`
is the link from `ScanPipeline` to `BaskServer`, `RdmaClient` justifies that
descriptor and log travel in one step of `BaskSystem`, and `HostTables` that the
server gets the pages and errors the host listed.

### BaskServer

State: `rmap_tree` maps every (mm, address) pair of `Items` to its item
(`Absent` when it is not in the tree), `node` the stable nodes in order of
creation, with the chain each belongs to, `stable_hash_table` and
`unstable_hash_table` map hashes, `log` is the log of the iteration, `errs` what
is left of the host's failures, `todo` and `page` the pages to scan and the one
in hand, `victims` the keys to prune. `clashed` is a history variable (see
below).

Actions follow `on_established`: `RecvMetadata` (any list of pages, any set of
failures the previous log allows), `HandleError`, `lookup_rmap_item`, the
branches of `cmp_and_merge_one` (`StableMoved`, `StableKept`, `StableRekeyed`,
`VolatileSkipped`, `MergeWithStable`, `MergeWithUnstable`, `InsertUnstable`,
`VolatileChanged`), `prune_metadata`, `prune_rmap_tree`, `SendResult`, and
`ConnectionLost` from anywhere. `OldOps` selects `cmp_and_merge_one_old`. The
error entries of a request are a set handled in any order, which includes the
order of the table.

Abstractions: the hash pair of a page is one value, and different contents have
different hashes (the code compares nothing but hashes); the linked list of a
chain is the set of its nodes, ordered by creation; the decision to skip a
volatile page is free here.

The contents a page can have, and the frame it is mapped to, are chosen anew in
each iteration, so a guest's writes, copy-on-write and a host that merged or did
not merge are all included.

Properties: `SharingConsistent`, `CountsExact`, `HashesAgree`, `TableSound`,
`TableComplete`, `UnstableExact`, `LogMatchesMetadata`, `ErrorsApply`,
`PruneOnlyUnaccessed`, `DemotionIsLogged`, `EveryRequestAnswered`.

`TableComplete` has a premise, `~clashed`. When the pages of a chain change in
place to a content another chain already has, `cmp_and_merge_one` re-keys the
first chain over the entry of the second, whose nodes can no longer be found.
They are still consistent (`TableSound`, `SharingConsistent` hold without the
premise); their pages are only not merged with new ones.

### ScanPipeline and SerialScan

`SerialScan` says what `BaskServer` relies on: the pages of all tables are looked
at once each, in order, each with its own hash, and their number is returned, or
the scan fails. `ScanPipeline` has the three threads at the grain of their
accesses to shared state: `do_ksm_v3` (`ReadPages`, `ReadFails`, `HandOff`,
`FreePrev`, `Join`, `FreeLast`), `ksm_page_worker` and `pre_hash_worker`. `malloc`
may return an address that was freed; hashing a freed buffer gives anything or
ends the process (`PreHashFault`).

Properties: `JobBufferHeld`, `PreHashInStep`, the refinement `ScansSerially`
(`result` is mapped from the main thread's position and its count), `ScanEnds`.

The pre-hash worker can in fact still be hashing a buffer when the main thread
frees it: the worker has finished its last page without it. `ScansSerially`
shows that no hash so computed is ever used; that the process may fault on the
read is in the model, and no property denies it.

### SmartScan

One item from its creation, with a guest that writes to the page at any time and
a host that may fail to merge it: `do_handle_error` then makes the item volatile
again and raises its score, for either kind of failure, so that a failed merge
lengthens later pauses (`MergeUndone`). `volatility_score` and `skip_cnt` start with
any value, since `lookup_rmap_item` does not set them. `SettledIsOffered`: once
the page has been looked at for the first time, a page that no longer changes
is offered for merging within 18 visits, twice the longest pause and the look
that ends it. The first look itself may be as far away as the uninitialised
`skip_cnt` says.

### RdmaClient

`state` is `cb->state` with the numbers of `enum ksm_rdma_state`, because the
waits compare them. `pc` is where `ksmd` is, `hpc` where the completion handler
is, `cm` what the connection manager will report next. `sq`, `rq`, `cq`, `armed`
and `event` are the adapter's queues. Every read and store of `state` is a step
of its own: the end of a wait and the test that follows it, the completion taken
from the queue and the state stored for it, `rdma_connect` and the store of
`KSM_CONNECT_REQUEST`. `Modes` are the modes a behaviour may start in: whole-scan
offloading (BASK) or the single operations of STYX.

The adapter and the server are environment: the adapter completes work in order,
reports an error when the server has ended and flushes the rest; the server
receives, answers into a posted receive, and posts its next receive; it may end
at any time.

Nothing orders the completion of a SEND and the arrival of the answer to it, and
the model has both orders. `overtaken` is a history variable: it becomes true when
an answer completes its receive before the SEND is completed. The handler then
stores `KSM_RDMA_SEND_COMPLETE` over `KSM_RDMA_RECV_COMPLETE`, or leaves the
completion of the SEND in the queue when `ksmd` goes on to the next request.

One constant names what the code relies on but does not ensure. `ArmSeesPending`:
arming a completion queue that is not empty raises an event. The handler arms
first and leaves after a registration without draining the queue, so it needs
this from the adapter.

Properties. `ResultIsOfThisRequest` and `AnswerFindsReceive` hold in either order.
`OnlyRegistrationsPolled`, `GivesUpForCause` and `RequestEndsWhileUp` say that
overtaken answers are the only cause, with the loss of the server and a result
that does not fit the reserve, of `ksmd` stopping, giving offloading up or waiting
for ever. `AnswerNotLost`, what `ksm_rdma_meta_send` relies on when it finds the
answer "already received" (`client_stub.c:577`), is violated by an overtaken answer,
and `RequestEnds` by the loss of the server.

Left out: removal of the device, and failing small allocations, DMA mappings and
posts.

### BaskSystem and GuestMemory

State of the host: `map`, `content` and `frame` are page tables, memory and
`page->mapping`; `hitem` the rmap items with `STABLE_FLAG` and `head`, `hnode` the
stable nodes, named by their frame; `shadow` the listing, `errtab` the error
table; `pinned` the frames whose reference is never given back.

A round is `scan_pte_entry` for each address (with `get_next_rmap_item`, which
frees the items of skipped addresses), `rdma_send_metadata`, the server's steps
of `BaskServer` on the frames that were listed, as they are when it reads them,
`recv_offload_result`, one action for each kind of log entry and outcome
(`StableMergeDone`, `StableMergeFailed`, `StableMergeSkipped`,
`UnstableMergeDone`, `UnstableMergeFailed`, `StaleStableNode`, `ItemStateChange`),
and `destroy_metadata`. `debug_stop` is taken when an entry does not meet a check
of `apply_result`. Guests `Write`, `Fault` and `Discard` between any two steps.
A merge whose checks hold may fail all the same (locks, references).

Abstractions: one address space; the order of the red-black tree is left out,
since `apply_result` finds nodes by frame and by item; the transport is one step.

Properties: `GuestsUndisturbed`, the refinement of `GuestMemory`, with the
memory a guest sees mapped from `map` and `content`; `LogFitsHost`,
`ErrorsAreReportable`, `SidesAgree`, `Converges`; `KsmPagesSound`, whose parts are
`SystemTypeOK`, `KeyholeHolds`, `SharersInHList` and `PromotesAnonymous`; and `HostNeverStops`, which a page that is given back
violates. `Converges` is a safety property: after `MaxQuiet` rounds without guest
operation or failure a page that is alone in its frame has no page to share with;
every page of its content is in a node that is full. It is stated without
`discarded` and `clashed`, as the server then holds items or nodes the host does
not have or the table does not find, and for `ChainsPure`: the pages of one chain
have one content.

The last premise is one the code needs. A guest that writes between the server's
read and the host's merge gives a node other content than the chain it was put
in; the server sees it in the next round, as a changed hash under an unchanged
frame (`server.c:605`), and re-keys the whole chain, with the nodes whose pages
did not change (`server.c:624-632`, `server.c:650-658`). When the scan comes to
one of those, it re-keys the chain back. Such a chain changes its key twice a
round for ever, and a lone page that is scanned while the chain has the other key
never finds the node of its own content, though it has room. The smallest
instance that shows it needs four pages, a sharing limit of two and four writes,
beyond the run of `System.cfg`; the attempt to prove the property without the
premise led to it. Memory stays correct all the same: what is lost is sharing.

### MmSlots

`nxt`, `prv` and `hashed` are the list and the hash of the slots, with the
pointers themselves, because the question is who may follow which. A section
under `ksm_mmlist_lock` is one step; `prepare_metadata` deletes outside the lock,
in two. `proc` is where the process of an address space is in `__ksm_enter` and
`__ksm_exit`, `pc` where `ksmd` or the writer of `/sys/kernel/mm/ksm/run` is
(`ksm_thread_mutex` keeps their walks apart). `ksmd` scans locally or offloads,
and may change from the latter to the former.

`prepare_metadata` leaves windows in which a process can meet freed memory: the
saved next slot, the slot before it is stored as cursor, the unlocked `list_del`,
the cursor on a slot that was freed. `CursorDangles` and `HeldAside` describe
them; a process that does its operation inside one sets `raced`, and the behaviour
ends with that step, for what follows is undefined. `HeldSlotsAllocated` says of
all three walks that no slot in hand is freed, which the comment of `__ksm_exit`
promises (`ksm.c:3234`); it has no premise, and the step that races violates it.

The other properties:

- `LocalSlotsAllocated`, without a premise, since a race takes place only inside
  `prepare_metadata`: the local scan and the unmerge walk never hold a freed slot;
- `ListIntact`, `ReferenceExact`, `WalkedTablesExist`, `FlagMatchesList` and
  `ExitedSlotFreed`, up to the first race. So these windows are the only ones:
  the rest of the protocol, with three different walks, is sound;
- `LocalDropsUnneeded`, without a premise: the local scan takes off only address
  spaces that exit or have no mergeable area, as the comment at `ksm.c:2833` says.
  The test for an exit (`ksm.c:2817`) and the locked section are two steps, and a
  process may begin to exit in between.

`prepare_metadata` does not keep that comment: `init_shadow_for_mm` moves
`ksm_scan.address` only when it meets a page, so an address space whose mergeable
areas hold no page yet is taken off the list (`ksm.c:4668`, `OffloadDel1`), and its
areas are not scanned. The model does what the code does,
and no property denies it; `FlagMatchesList` says what is left to such a process:
the flag is cleared with the slot, so its next `MADV_MERGEABLE` enters it again.

### HostTables

The shadow table of each address space and the error table as arrays that grow,
registered as regions of chained scatter-list chunks; `walked` and `errors` are
history variables with what was put in. `ServerMap`, `ServerPages` and
`ServerErrors` are what the server reads through the descriptors, with its own
arithmetic. Properties: `ServerReadsWalk`, `ServerReadsErrors`, and
`CleanUpComplete` (`ListsFreed` and `NeverStopped`). Allocations of new arrays may
fail; an entry that is refused is not listed. When the `krealloc` of the array of
pointers fails, NULL takes its place (`ksm_shadow.c:55`, `ksm_shadow.c:253`): the
behaviour ends (`PointersLost`, phase `undefined`). An empty table is freed with an uninitialised count of lists
(`ksm_shadow.c:17`): the behaviour ends there (`undefined`) if the count is not 0.

## 3. Runs

`tlc -config X.cfg M` in this directory.

| Run | Module, configuration | Shows |
|---|---|---|
| `server` | `MCBaskServer`, `Server.cfg` | chains of full nodes, re-keys, failures and pruning keep counts, hashes and the stable table exact; the log agrees with the metadata, demotions are logged, failures can be undone, pruning takes only what was not accessed, requests are answered; the inductive invariant `ServerInv`, with `TypeOK` and `UnstableExact` in it; smart scan on |
| `server_wrap` | `MCBaskServer`, `ServerWrap.cfg` | **violated**: pruning once the iteration count exceeds a short |
| `pipeline` | `MCScanPipeline`, `Pipeline.cfg` | buffers, pre-hash, refinement of the serial scan, and that the scan ends |
| `smart_scan` | `SmartScan`, `SmartScan.cfg` | a settled page is offered |
| `client` | `RdmaClient`, `Client.cfg` | the client's state word in both modes; a request ends while the server is up |
| `client_loss` | `RdmaClient`, `ClientLoss.cfg` | **violated**: fall-back after the loss of the server |
| `client_overtaken` | `RdmaClient`, `ClientOvertaken.cfg` | **violated**: an answer handled before the completion of its SEND is lost |
| `system` | `MCBaskSystem`, `System.cfg` | guests undisturbed, the log fits the host, both sides agree, failures of one node are undone in any order (`SharingConsistent`), equal pages get shared |
| `system_discard` | `MCBaskSystem`, `SystemDiscard.cfg` | **violated**: `ksmd` stops after a guest gave a shared page back |
| `mm_slots` | `MmSlots`, `MmSlots.cfg` | the list of address spaces under enter, exit and three walks |
| `slots_held` | `MmSlots`, `SlotsHeld.cfg` | **violated**: an exiting process frees the slot `prepare_metadata` has in hand |
| `host_tables` | `HostTables`, `HostTables.cfg` | what the server reads is what the host listed; lists are freed |

Bounds and why they are enough.

- Server. Four items with `MAX_PAGE_SHARING` 2 are the least that give a chain
  with two full nodes. A node that takes an unstable and a stable merge in one
  iteration, so that failures of both kinds meet in it, needs a limit of three and
  is in `system`, with the server composed with the host. `cmp_and_merge_one_old`
  (`OldOps`) differs in one test (`TryStable`); the theorems cover it. Two hashes
  allow a re-key into a free and into an occupied key. Three iterations contain
  merge, change and failure, and an item that is dropped, kept by the grace
  iteration and pruned. `MaxNodes` is above what
  the iterations can create, `RMAP_PRUNE_MARGIN` is 0 so that pruning happens.
  `ShortRange` 16 does not wrap in these runs; 8 (`ServerWrap`) does at
  iteration 4. Items, frames and hashes are symmetric.
- Pipeline. Tables of 7, 1 and 4 pages with buffers of 3 and a chunk of 2 give
  full, partial and single-page buffers, chunks that end inside and at the end
  of a buffer, and hand-overs within and between tables. Three addresses for at
  most two live buffers let an address come back at once.
- Smart scan. A short of 32 values lets score and age wrap within a behaviour.
- Client. Three requests are enough for a stale event of one to meet the next,
  and the one after; three registrations for a completion polled by either side
  between two others, or for the SEND completion of one request to meet the
  registrations of the next; results of 0 to 3 parts with a reserve of 2 for an empty
  result and for one that does not fit.
- System. Three pages over five rounds: two rounds until an unstable merge, one
  for a stable merge or a change, one to report a failure, one to act on it.
  Three pages are the least for an unstable and a stable merge with the same
  node in one log. Two guest operations let a page be written between the
  listing, the server's read and the host's comparison, or go and come back; five
  frames are enough for three pages, a copy for each operation and pinned ones.
  `system_discard` has a margin of 3, so that the server does not prune and the
  stop is not due to pruning.
- Address spaces. Two processes and three slots: the slot of one process as the
  cursor, the next or the neighbour of the other's, and a process that enters
  again after its slot was freed.
- Tables. Arrays of four entries, regions of six pages and chunks of three:
  eight pages need two of each, and every size below, with its exact fits, is
  met on the way. Two address spaces and two iterations. Two arrays for eight
  pages are exactly the limit `MAX_VA_ARRAYS` that the registration insists on.

`CHECK_DEADLOCK FALSE` is set where the behaviour really ends: at a bound, after
the loss of the connection (the server stops in `debug_stop`), where `ksmd`
waits for ever or stops, or where the code's behaviour is undefined. `pipeline`
and `smart_scan` check deadlock.

### Fairness

- `EveryRequestAnswered` needs none: it is an action property. The server's own
  steps are always possible while it works on a request, and each of them lessens
  `WorkLeft`, so a request is answered after a bounded number of steps, or the
  connection fails.
- `ScanEnds`: weak fairness of each thread. A spin that finds its condition false
  is no step. The lock of a job is one step of the worker and stays possible once
  the job is there.
- `RequestEndsWhileUp`, `RequestEnds`: weak fairness of `ksmd`, of the two handlers, of the adapter and
  of the server. The end of the server is not fair. Both leave out overtaken answers,
  which have a run of their own. A server that hangs without
  breaking the connection is excluded by its fairness: no wait in the client has
  a time limit.
- `ExitedSlotFreed`: weak fairness of `ksmd` and of the writer of `run`, which do
  not stop in the middle of a walk, and of a process inside `__ksm_enter` or
  `__ksm_exit`. Starting to exit, to map or to write `run` is not fair.

### Findings

1. `collect_keys_to_remove` (`server.h:807`) compares a `short` with an `int`.
   From iteration 32768 on every item looks unaccessed, and pruning, once it is
   triggered by items that were really dropped, removes pages that were scanned
   in the same iteration.
2. After the loss of the server `ksmd` need not fall back to the host
   (`README.md:206`): the state `KSM_ERROR` is overwritten by the next
   registration, the handler that saw it has not armed the queue, and the error
   completion of the next SEND raises no event.
3. `apply_result` asserts that the item of an `ITEM_STATE_CHANGE` is stable
   (`ksm.c:4403`). A page that is shared, given back by the guest, not present in
   one walk, and then used again has a new rmap item on the host, while the
   server's item is still `Stable`; the server logs that it moved, and `ksmd`
   stops for good.
4. An answer that is handled before the completion of its SEND is lost when `ksmd`
   has not yet run: the completion of the SEND overwrites the state it waits for
   (`client_stub.c:609`), although `ksm_rdma_meta_send` provides for the answer that
   comes first (`client_stub.c:577`). The server is up, and `ksmd` waits.
5. `prepare_metadata` takes a slot in hand, drops `ksm_mmlist_lock` and only then
   stores it as the cursor (`ksm.c:4644-4650`). A process that exits in between does
   not see that it is "at the cursor" (`ksm.c:3237`) and frees the slot under the walk.

Listed as hazards without a property of their own, because no text of the
repository says otherwise: an `ESTABLISHED` event between `rdma_connect` and the
store of `KSM_CONNECT_REQUEST`, which leaves `ksmd` waiting; the uninitialised
`pages_sgt_cnt`; limits of the descriptors that are not enforced. The other windows
of `prepare_metadata` are listed with the properties that hold up to them.

## 4. Proofs

`tlapm M.tla` for each of `BaskServer_proofs`, `SmartScan_proofs`,
`ScanPipeline_proofs`, `RdmaClient_proofs`, `MmSlots_proofs`, `HostTables_proofs`,
`BaskJoint_proofs` and `BaskAgree_proofs`. A theorem holds for every value of the constants that meets
the module's `ASSUME`; a further hypothesis is named below and stated in the
theorem.

**BaskServer.** For every finite set of items, every set of frames and hashes,
every `MAX_PAGE_SHARING >= 2`, every margin, both comparison functions and every
bound on nodes: `Spec => []ServerInv` (`ServerInvariant`), and from it
`TypeCorrect`, `SharingCorrect` (`SharingConsistent`, `CountsExact`,
`HashesAgree`), `TableCorrect` (`TableSound`, `TableComplete`),
`UnstableCorrect`, `ProtocolCorrect` (`LogMatchesMetadata`, `ErrorsApply`),
`PruneCorrect` and the action property `DemotionCorrect`.

Assumptions: `ServerAssumption` on the constants, and in each theorem
`MaxIteration <= ShortRange \div 2`: the iteration count fits a short. The run
`server_wrap` shows that the assumption is needed.

The invariant. None of the properties is inductive by itself:

- the five about items, nodes and table need each other and `NodesOK` (a node is
  free, or was created and has a chain and a hash). A merge, for instance, keeps
  `CountsExact` only because the item was in no node before
  (`SharingConsistent`);
- `LogMatchesMetadata` needs `LogOK`: a merge in the log is about pages already
  scanned and not in hand, so no later step of the scan touches them, and it is
  the only merge of its page;
- `ErrorsApply` needs `ErrsOK`: two entries never undo the same merge, so undoing
  one leaves the others applicable. `ErrsOK` follows from `LogOK` when the
  request is received, since entries come from the log;
- `PruneOnlyUnaccessed` needs `ScannedOK`: a page that was scanned carries the
  iteration number, and this is where the width of the short enters;
- `PhaseOK` ties all of them to where `on_established` is.

The proof has one lemma for each action and conjunct group; facts about
`insert_item_to_node`, `remove_item_from_node` and chains are lemmas of their
own, with cardinalities from `FiniteSetTheorems`.

**SmartScan.** `Spec => []SettleInv` and from it `SettledCorrect`
(`SettledIsOffered`), for every set of contents and every even `ShortRange` of at
least 16. `SettleInv` bounds the visits since the last change plus the rest of
the pause: by 8 until the change has been seen, by 17 until the page has been
found unchanged. `WidthsKept`: score, pause and age stay in their widths.

**BaskSystem.** `GuestsCorrect`: `SystemSpec => GuestsUndisturbed`, the whole
system implements `GuestMemory`, for every number of pages, frames and contents
and every limit; and `HostInvariant`: `SystemTypeOK` and `PlainExclusive` (an
anonymous frame is mapped by at most one page) always hold. The refinement needs
`PlainExclusive`: a write in place to an anonymous frame must not show in
another page. It is preserved because a merge maps a page to a frame that is a
ksm page, because new frames come from `FreeFrames`, and because a frame turns
anonymous only when it is new. The host's steps leave the memory guests see as it
is: a merge because of `pages_identical`, the undo of a promotion because of the
copy. The proof uses no property of the server's log, so the
guests' safety rests on the host's own comparison alone.

**Host and server together** (`BaskJoint_proofs`). `JointInvariant`:
`SystemSpec => []JointInv`, under the same hypothesis on the iteration count as
`BaskServer`. From it:

- `KsmPagesTheorem` (`KsmPagesSound`): a stable node exists exactly as long as its
  ksm page, a ksm page is mapped only by items of its node, and an unstable
  merge never promotes a page that is a ksm page already;
- `ReportsTheorem` (`ErrorsAreReportable`): what the host reports is what
  `HostReports` of `BaskServer` allows;
- `ServerInSystem` (`SystemSpec => Spec`): the composition. Every step of the
  system is, for the variables of the server, a step of `BaskServer` or none, so
  each theorem about the server alone holds of the server in the system.

`JointInv` has `SystemTypeOK`, `PlainExclusive` and `ServerInv`, and what ties the
two sides together: a page mapped to a ksm page is, on the server, a stable item
of the node of that frame, and no error that is open undoes it; entries that are
still to be carried out are about pages that were anonymous when they were
listed and are so until then; two open errors never undo the same merge. The
proof of a host step needs the server's `LogOK` (the entries of one log touch an
item once), and the proof of a server step needs that the host never lets go of
a ksm page that was listed. Guests may give pages back at any time here
(`discarded` is no premise).

**Agreement of host and server** (`BaskAgree_proofs`). `AgreeInvariant`:
`SystemSpec => []AgreeInv`, on top of `JointInv`. From it:

- `LogFitsTheorem` (`LogFitsHost`): none of the checks of `apply_result`, each of
  which stops ksmd for good, fails on any entry of any log;
- `AgreementTheorem` (`SidesAgree`): between rounds both sides have the same items
  in the stable nodes of the same frames, up to the failures to be reported.

`AgreeInv` holds as long as no guest has given a page back (`~discarded`); after
that the host may indeed stop, which is what the run of `SystemDiscard.cfg`
shows. Its parts:

- `KnownListed`: what the host has allocated is mapped and listed, and the server
  knows of nothing else;
- `ItemsAgree`, `NodesReal`: an item of the host is where the server has it, and a
  node of the server is one of the host, but for entries of the log that are
  still to be carried out and failures that are still to be undone;
- `LeavesFirst`, `MadeFirst`: a log says of an item at most that it leaves its node
  and then that it joins one, and a node is made before it is joined. Without
  the order, an entry could find its item where a later entry puts it;
- `UniqueFrames`: the server has no two nodes of one frame, which is why the host,
  that knows nodes by their frame, finds the one that is meant;
- `StaleOK`: a node that is logged as stale is gone from the server, mapped by no
  page, and left by all other items before its entry comes;
- `Room`: when the host comes to a stable merge it has fewer than
  `MAX_PAGE_SHARING` items in the node, of those that are there already and of
  those still to leave;
- `ErrHeads`: the item of a failed stable merge remembers the node.

Beside the bound on the iteration count the hypothesis is
`MAX_PAGE_SHARING <= ksm_max_page_sharing`: both are 256 (`server.h:17`,
`ksm.c:362`). It is needed by `Room`: a host with a lower limit (it can be set
through sysfs) refuses merges the server counts on, and stops.

**Equal pages get shared** (second half of `BaskAgree_proofs`). `QuietInvariant`:
`SystemSpec => []QuietInv`, on top of `JointInv` and `AgreeInv`, and from it
`ConvergesTheorem` (`Converges`). `QuietInv` says for each page what it has after
one and after two scans in rounds that were quiet from their start (`SeenOnce`,
`SeenTwice`), for a round that is half done too:

- in the first, the failures of the rounds before are undone (`NoOpenErrs`), the
  listing is the page table (`ListingExact`), and a page that was scanned is in a
  node to whose frame it is mapped or about to be, or has its content remembered
  (`Placed`). A chain whose scanned pages have one content has that content as
  its key (`KeysRight`): the last of them that was scanned gave it the key. The
  chain may still hold pages of other content that are scanned later, so purity is
  asked of the scanned pages only (`PureFor`), which `ChainsPure` implies at the
  end;
- in the second, no page leaves a node (`NoneLeaves`), and a page that joins none
  is a candidate (`Candidates`): of one content at most one is left (`AloneOK`),
  and only when the nodes of its content are full (`FullOK`);
- after it no page joins a node of its own content any more (`NoneJoins`), so that
  the server's count of a full node is the host's.

Hypotheses, beside those of the agreement: `MaxQuiet >= 3`, since the first round
that is counted may have begun before the last write or failure, and two complete
ones are needed; and no smart scan (`no_skip_opt`), since `BaskServer` leaves open
which volatile pages are skipped and for how long. That a quiet page is looked at
again within a bounded number of visits is what `SmartScan` shows. That the server's count `shared_cnt` and the host's `HList` are equal is
where `AgreeInv` comes in: without agreement a node could be full on one side only.

**ScanPipeline.** `PipeInvariant` (`PipeInv`), and from it `PipeTypes`,
`JobBufferTheorem` (`JobBufferHeld`), `PreHashTheorem` (`PreHashInStep`), and the
refinement `SerialTheorem`: `Spec => ScansSerially`, for all tables, buffer sizes,
chunk sizes and sets of addresses. `PipeInv` says for each place of `do_ksm_v3`
which buffers are allocated and which is the job's, how far the worker is and
with it the history of visits, and for which pages the pre-hash worker fills the
chunk. The last part is claimed only while the two workers are `InStep` (same
chunk, same buffer): the pre-hash worker may go on with a buffer that is gone,
and what it computes then is never in step again. The refinement proof maps the
worker's visit of a page to `SerialScan`'s visit, the join of the main thread to
its end, and every other step to a stutter.

**RdmaClient.** `ClientInvariant`: `ClientInv` holds up to the first time an answer
overtakes the completion of its SEND (`overtaken \/ ClientInv`), for every number of
requests, regions, result parts and buffers and both modes. `ClientInv` follows one
request through its stages; in each it says what is posted, which completions are
on their way, in which order, which one the handler has in hand, and so which
values it can still store in `cb->state`. From it `ClientTypes` (`TypeOK`),
`ResultTheorem` (`ResultIsOfThisRequest`) and `ReceiveTheorem` (`AnswerFindsReceive`),
each up to the same point; beyond it they are checked by the run `client` only.
`PolledTheorem` (`OnlyRegistrationsPolled`) and `GivesUpTheorem` (`GivesUpForCause`)
hold throughout, as they name overtaking as a cause themselves. `AnswerNotLost` is
false (`client_overtaken`). `ArmSeesPending` is not needed: safety does not depend on
being woken.

**MmSlots.** `SlotsInvariant` (`SlotsInv`), and from it `ListIntactTheorem`
(`ListIntact`), `LocalSlotsTheorem` (`LocalSlotsAllocated`), `ReferenceTheorem`
(`ReferenceExact`), `TablesTheorem` (`WalkedTablesExist`), `LocalDropsTheorem`
(`LocalDropsUnneeded`) and `FlagTheorem` (`FlagMatchesList`), for every number of
address spaces and slots, with the premises on `raced` that the properties state.
`SlotsInv` bounds where a race can leave the walk: inside `prepare_metadata`, which
is why the properties of the other two walks need no premise. That the
list is one ring is stated without counting: `nxt` and `prv` are inverse on the
hashed slots and the head, and every set of them that contains the head and is
closed under `nxt` contains them all. In this form insertion and deletion keep it
by first-order reasoning. `SlotsInv` adds who may hold a slot that is off the
list and not freed, that flag, reference and slot of an mm come and go together
except inside `__ksm_enter`, and where each walk's cursor may be.

**HostTables.** `TablesInvariant` (`TablesInv`), and from it `TablesTypes`
(`TablesTypeOK`), `WalkRead` (`ServerReadsWalk`), `ErrorsRead`
(`ServerReadsErrors`), `ChunksFreed` (`ListsFreed`) and `CleanUp`
(`CleanUpComplete`), for every size of page, array, region and chunk, every number
of pages, errors and address spaces, and every pattern of failing allocations.
Assumptions: `TablesAssumption` (a full array is a page's worth doubled up to 20
times) and `MapAssumption` (`MAX_VA_ARRAYS` full arrays fit one region; by
`ksm_rdma.h:27-31` they are one half of it). `CleanUp` has one hypothesis,
`MaxPages <= MAX_VA_ARRAYS * MAX_CAPACITY_PER_TABLE`: the registration stops ksmd
at an address space with more pages (`ksm_rdma.c:376`). The argument:

- *Flattening.* What the server reads is a sequence of regions of chunks of pages,
  flattened, and so recursive in their number. `FlattenBlocks` says where entry
  `j` of block `b` is when all blocks but the last have the same length, and
  `FlattenCut` that a sequence cut into blocks and flattened is itself. The
  induction they need is over a set of numbers (`SetInduction`), from the fact that
  each nonempty set of naturals has a least element. So a proof about what the
  server reads only has to show that the blocks are cuts of the right sequence:
  `RegionPagesAre` for the chunks of a region, `ServerPagesAre` and
  `ServerErrorsAre` for the regions, `MapPagesAre` for the arrays of the map.
- *Growth.* `Shape`: all arrays are full but the last, whose size is a power of two
  of pages, so that an array which cannot be doubled is full (`Doubling`). This is
  what makes division by `MAX_CAPACITY_PER_TABLE` find an entry in its array
  (`ArrayPlace`), before and after growth. `InsertionInserts`: an entry is refused,
  or goes behind the others, which stay where they are.
- *The invariant.* `ShadowOK` (map and xarray of a table list the same pages, and
  an array is added only when the others are full of entries: `Compact`, without
  which the number of arrays is not bounded by the pages), `ListOK` (they are the
  pages of `walked`), `ErrorsOK`, and `ChunksOK`: which scatter lists are allocated
  in each phase, and that their recorded numbers (`sgls`, `registered`) are those
  of the tables. `ReleasedAllocated`: the freeing loop finds every chain entry, so
  it frees exactly what was allocated.

**Only model-checked**: liveness (`ScanEnds`, `RequestEndsWhileUp`, `ExitedSlotFreed`)
and `EveryRequestAnswered`, which contains `ENABLED`: both are out of the prover's
reach; and `TypeOK`, `ResultIsOfThisRequest` and `AnswerFindsReceive` of `RdmaClient`
after an answer was overtaken. Every other safety property of the passing runs has
a theorem.

## 5. Not modelled

- The rest of Linux's memory management in `codes/mm` (page allocator, reclaim,
  huge pages, control groups, swap and so on, some 185,000 lines vendored
  unchanged): not BASK's logic. Of `ksm.c` the models have what BASK added or
  calls; the decisions of the local scan (stable and unstable red-black trees,
  checksums, zero pages, advisor, sysfs counters) are Linux's own.
- `try_mms_cleanup`, which nothing calls, and `prune_stable_tree`, whose only call
  is commented out.
- The memory behind the limits of the descriptors (`MAX_MM_DESCS`,
  `MAX_PAGES_DESCS`), and DMA mappings.
- Release of verbs objects, failing allocations and posts, removal of the device.
- Collisions of the 128-bit hash pair, what `memcmp` and the hash functions
  compute, timers and logging.
- The earlier transport `rdma_common.c`, which nothing builds, and the evaluation
  scripts.

## 6. Plan

Done: all modules of section 2; every safety property of the passing runs is
proved, three of them up to the first overtaken answer. Left:

1. `StableChain`: the linked list of `insert_stable_node` and
   `remove_stable_node_no_item` with its HEAD and DUP nodes, shown to implement
   the set that `BaskServer` uses.
2. The client after an overtaken answer: an invariant that still gives
   `ResultIsOfThisRequest` and `AnswerFindsReceive`.
3. What becomes of a chain that mixes contents (see `Converges` in section 2) when
   guests stay quiet.
