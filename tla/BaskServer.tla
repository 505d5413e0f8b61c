----------------------------- MODULE BaskServer -----------------------------
(***************************************************************************)
(* The metadata engine of the BASK SmartNIC server                         *)
(* (codes/bask/server.c, codes/bask/server.h): the rmap tree, the stable   *)
(* and unstable hash tables, and the event log that tells the host what to *)
(* merge.                                                                  *)
(*                                                                         *)
(* One iteration of on_established is: receive the metadata descriptor,    *)
(* undo the merges the host reports as failed (do_handle_error), look at   *)
(* every page the host lists (do_ksm_v3, ksm_page_worker,                  *)
(* cmp_and_merge_one), prune the metadata, send the log back.  The server  *)
(* touches the metadata from one thread at a time, so a step of this       *)
(* module is one error entry, one rmap lookup, one pass through the        *)
(* "switch" of cmp_and_merge_one, or one pruned item.                      *)
(*                                                                         *)
(* Abstractions: a page's content is its hash pair; a stable node is named *)
(* by the order of its creation, and because insert_stable_node appends at *)
(* the end of a chain, the order of a chain is the order of the names; the *)
(* smart-scan decision to skip a volatile page is a free choice here (the  *)
(* scores that drive it are the subject of module SmartScan).              *)
(***************************************************************************)
EXTENDS Integers, Sequences, FiniteSets

CONSTANTS
    Items,             \* the (mm_id, va) pairs the host can list
    Pfns,              \* host page frame numbers
    Hashes,            \* hash pairs of page contents
    NullHash,          \* null_hash: "no content seen yet"
    NoPfn,             \* an unset page frame number
    NoItem,            \* no rmap item
    MAX_PAGE_SHARING,  \* most items one stable node may be shared by
    RMAP_PRUNE_MARGIN, \* unaccessed items tolerated before pruning
    ShortRange,        \* number of values of a C short (2^16 in the build)
    OldOps,            \* TRUE: started with "old", ksm_ops = cmp_and_merge_one_old
    SMART_SCAN_ON,     \* FALSE: started with "no_skip_opt"
    MaxNodes,          \* bound: stable nodes created in a behaviour
    MaxIteration       \* bound: iterations in a behaviour

ASSUME ServerAssumption ==
    /\ IsFiniteSet(Items)
    /\ NullHash \notin Hashes
    /\ NoPfn \notin Pfns
    /\ NoItem \notin Items
    /\ MAX_PAGE_SHARING \in Nat /\ MAX_PAGE_SHARING >= 2
    /\ RMAP_PRUNE_MARGIN \in Nat
    /\ ShortRange \in Nat /\ ShortRange >= 2
    /\ OldOps \in BOOLEAN
    /\ SMART_SCAN_ON \in BOOLEAN
    /\ OldOps => ~SMART_SCAN_ON
    /\ MaxNodes \in Nat
    /\ MaxIteration \in Nat

VARIABLES
    phase,                \* where on_established is
    iteration,            \* the static iteration counter
    present,              \* items of the shadow page tables of this iteration
    errs,                 \* error entries of this iteration not handled yet
    todo,                 \* pages of this iteration not scanned yet
    page,                 \* the page the worker has in hand
    victims,              \* keys_to_remove of prune_rmap_tree
    total_accessed_cnt,   \* lookups of this iteration
    rmap_tree,            \* rmap items
    node,                 \* stable nodes
    created,              \* stable nodes created so far
    stable_hash_table,    \* hash -> the chain whose HEAD the table holds
    unstable_hash_table,  \* hash -> the unstable item
    log,                  \* log_table of this iteration
    clashed               \* history: a re-key has hit an occupied hash

scanVars == <<present, errs, todo, page, victims, total_accessed_cnt>>
metaVars == <<rmap_tree, node, created, stable_hash_table, unstable_hash_table, clashed>>
vars == <<phase, iteration, scanVars, metaVars, log>>

-----------------------------------------------------------------------------
(***************************************************************************)
(* Data                                                                    *)
(***************************************************************************)
NodeIds == 1..MaxNodes
NoNode == 0

ItemRec == [state       : {"Absent", "Volatile", "Unstable", "Stable"},
            pfn         : Pfns \cup {NoPfn},
            old_pfn     : Pfns \cup {NoPfn},
            old_hash    : Hashes \cup {NullHash},
            stable_node : NodeIds \cup {NoNode},
            last_access : Int]

NodeRec == [page_hash  : Hashes \cup {NullHash},
            pfn        : Pfns \cup {NoPfn},
            chain      : NodeIds \cup {NoNode},
            sharing    : SUBSET Items,
            shared_cnt : Int]

LogRec == [type : {"STABLE_MERGE", "ITEM_STATE_CHANGE", "STALE_STABLE_NODE"},
           from : Items, kpfn : Pfns \cup {NoPfn}]
          \cup [type : {"UNSTABLE_MERGE"}, from : Items, to : Items]

ErrRec == [type : {"MERGE_ONE_FAILED"}, from : Items, kpfn : Pfns \cup {NoPfn}]
          \cup [type : {"MERGE_TWO_FAILED"}, from : Items, to : Items]

PageRec == [item : Items \cup {NoItem}, hash : Hashes \cup {NullHash}]

NoPage == [item |-> NoItem, hash |-> NullHash]

\* A key that is not in the rmap tree.
AbsentItem == [state |-> "Absent", pfn |-> NoPfn, old_pfn |-> NoPfn,
               old_hash |-> NullHash, stable_node |-> NoNode, last_access |-> 0]

\* A stable node that is not allocated (any more).
FreeNode == [page_hash |-> NullHash, pfn |-> NoPfn, chain |-> NoNode,
             sharing |-> {}, shared_cnt |-> 0]

InTree(i) == rmap_tree[i].state # "Absent"

\* The nodes of chain c of the node map nd, the HEAD first.
Chain(nd, c) == {n \in NodeIds : nd[n].chain # NoNode /\ nd[n].chain = c}

\* Node n is allocated.
Live(n) == node[n].chain # NoNode

\* Conversion of an int to a short of ShortRange values.
ToShort(n) == ((n + (ShortRange \div 2)) % ShortRange) - (ShortRange \div 2)

-----------------------------------------------------------------------------
(***************************************************************************)
(* Item and node primitives                                                *)
(***************************************************************************)

\* insert_item_to_node(node, item), as it changes the node ...
insert_item_to_node(nd, n, i) ==
    [nd EXCEPT ![n] = [nd[n] EXCEPT !.shared_cnt = nd[n].shared_cnt + 1,
                                    !.sharing = nd[n].sharing \cup {i}]]

\* ... and as it changes the item, which remembers the frame it had.
ItemInNode(it, nd, n) ==
    [it EXCEPT !.state = "Stable", !.old_hash = nd[n].page_hash,
               !.old_pfn = it.pfn, !.pfn = nd[n].pfn, !.stable_node = n]

remove_item_from_node(nd, n, i) ==
    [nd EXCEPT ![n] = [nd[n] EXCEPT !.shared_cnt = nd[n].shared_cnt - 1,
                                    !.sharing = nd[n].sharing \ {i}]]

reset_item_state(it) ==
    [it EXCEPT !.state = "Volatile", !.pfn = it.old_pfn, !.old_pfn = NoPfn,
               !.old_hash = NullHash, !.stable_node = NoNode]

\* Mutant: off by one, a full node still takes an item.
cmp_with_stable_OffByOne(h) ==
    LET open == {n \in Chain(node, stable_hash_table[h]) :
                   node[n].shared_cnt <= MAX_PAGE_SHARING}
    IN  {n \in open : \A m \in open : n <= m}

\* Mutant: off by one the other way, the last place is never given.
cmp_with_stable_LastPlaceLost(h) ==
    LET open == {n \in Chain(node, stable_hash_table[h]) :
                   node[n].shared_cnt < MAX_PAGE_SHARING - 1}
    IN  {n \in open : \A m \in open : n <= m}

\* cmp_with_stable: the first node of the chain under h that is not full,
\* as a set of at most one node (the empty set is the code's NULL).
cmp_with_stable(h) ==
    LET open == {n \in Chain(node, stable_hash_table[h]) :
                   node[n].shared_cnt < MAX_PAGE_SHARING}
    IN  {n \in open : \A m \in open : n <= m}

\* Mutant: a new node always becomes a HEAD of its own.
ChainFor_AlwaysHead(n, h) == n

\* insert_stable_node: the chain the new node n joins, its own if h is free.
ChainFor(n, h) == IF stable_hash_table[h] = NoNode THEN n ELSE stable_hash_table[h]

\* cmp_with_unstable takes the item it finds out of the table.
\* Mutant: it leaves it there.
TakeUnstable_Kept(h) == unstable_hash_table

TakeUnstable(h) == [unstable_hash_table EXCEPT ![h] = NoItem]

\* Mutant: the entry of a freed HEAD stays in the table.
remove_stable_node_no_item_Kept(tbl, nd, n) == tbl

\* remove_stable_node_no_item: the table without node n.  Only the HEAD is in
\* the table; its successor is inserted in its place.  The removal is by hash,
\* so it drops whatever entry the hash has.
remove_stable_node_no_item(tbl, nd, n) ==
    LET rest == Chain(nd, nd[n].chain) \ {n}
    IN  IF \E m \in rest : m < n
        THEN tbl
        ELSE [tbl EXCEPT ![nd[n].page_hash] =
                IF rest = {} THEN NoNode ELSE nd[n].chain]

\* Take item i out of its node, and free the node with its last item.
LeaveNode(i) ==
    LET n  == rmap_tree[i].stable_node
        nd == remove_item_from_node(node, n, i)
    IN  IF nd[n].shared_cnt = 0
        THEN /\ node' = [nd EXCEPT ![n] = FreeNode]
             /\ stable_hash_table' =
                    remove_stable_node_no_item(stable_hash_table, nd, n)
        ELSE /\ node' = nd
             /\ UNCHANGED stable_hash_table

IsLastItem(i) == node[rmap_tree[i].stable_node].shared_cnt = 1

-----------------------------------------------------------------------------
(***************************************************************************)
(* Log entries                                                             *)
(***************************************************************************)
\* Mutant: the log names the frame of the page, not the frame to merge with.
log_stable_merge_WrongPfn(i, n) ==
    [type |-> "STABLE_MERGE", from |-> i, kpfn |-> rmap_tree[i].pfn]

log_stable_merge(i, n) == [type |-> "STABLE_MERGE", from |-> i, kpfn |-> node[n].pfn]

log_unstable_merge(i, j) == [type |-> "UNSTABLE_MERGE", from |-> i, to |-> j]

log_item_state_change(i) ==
    [type |-> "ITEM_STATE_CHANGE", from |-> i,
     kpfn |-> node[rmap_tree[i].stable_node].pfn]

log_stale_node(i) ==
    [type |-> "STALE_STABLE_NODE", from |-> i,
     kpfn |-> node[rmap_tree[i].stable_node].pfn]

-----------------------------------------------------------------------------
(***************************************************************************)
(* Receiving the metadata of an iteration                                  *)
(***************************************************************************)

\* What apply_result of the host may report about the log it was sent: a
\* merge that could not be done.  When an unstable merge fails its page has
\* no stable node on the host, which then skips the merges into that page
\* without an error entry.
HostReports(E) ==
    /\ \A e \in E :
         \E k \in DOMAIN log :
            /\ log[k].from = e.from
            /\ \/ /\ e.type = "MERGE_ONE_FAILED"
                  /\ log[k].type = "STABLE_MERGE"
                  /\ log[k].kpfn = e.kpfn
               \/ /\ e.type = "MERGE_TWO_FAILED"
                  /\ log[k].type = "UNSTABLE_MERGE"
                  /\ log[k].to = e.to
    /\ \A e, f \in E :
         (e.type = "MERGE_ONE_FAILED" /\ f.type = "MERGE_TWO_FAILED")
            => rmap_tree[e.from].stable_node # rmap_tree[f.from].stable_node

\* The error entries that the current log gives rise to.
Reportable ==
    {[type |-> "MERGE_ONE_FAILED", from |-> log[k].from, kpfn |-> log[k].kpfn] :
        k \in {k \in DOMAIN log : log[k].type = "STABLE_MERGE"}}
    \cup
    {[type |-> "MERGE_TWO_FAILED", from |-> log[k].from, to |-> log[k].to] :
        k \in {k \in DOMAIN log : log[k].type = "UNSTABLE_MERGE"}}

\* on_established receives the descriptor, which lists the items S and the
\* failures E; the previous log is cleared.
RecvMetadata(S, E) ==
    /\ phase = "wait"
    /\ iteration < MaxIteration
    /\ created + Cardinality(Items) <= MaxNodes
    /\ HostReports(E)
    /\ phase' = "work"
    /\ present' = S
    /\ todo' = S
    /\ errs' = E
    /\ log' = <<>>
    /\ UNCHANGED <<iteration, page, victims, total_accessed_cnt, metaVars>>

-----------------------------------------------------------------------------
(***************************************************************************)
(* do_handle_error                                                         *)
(***************************************************************************)

\* HOST_MERGE_ONE_FAILED: the item leaves its node; an emptied node is stale.
MergeOneFailed(e) ==
    /\ e.type = "MERGE_ONE_FAILED"
    /\ LeaveNode(e.from)
    /\ rmap_tree' = [rmap_tree EXCEPT ![e.from] = reset_item_state(@)]
    /\ log' = IF IsLastItem(e.from) THEN Append(log, log_stale_node(e.from)) ELSE log

\* Mutant: only the two items of the log entry.
UndoneItems_OnlyTwo(e) == {e.from, e.to}

\* Mutant: the items of every node of the chain.
UndoneItems_WholeChain(e) ==
    UNION {node[n].sharing : n \in Chain(node, node[rmap_tree[e.from].stable_node].chain)}

\* The items a failed unstable merge undoes: all that share the node.
UndoneItems(e) == node[rmap_tree[e.from].stable_node].sharing

\* HOST_MERGE_TWO_FAILED: every item of the node is reset, the node freed.
MergeTwoFailed(e) ==
    /\ e.type = "MERGE_TWO_FAILED"
    /\ LET n == rmap_tree[e.from].stable_node
       IN  /\ rmap_tree' = [i \in Items |-> IF i \in UndoneItems(e)
                                            THEN reset_item_state(rmap_tree[i])
                                            ELSE rmap_tree[i]]
           /\ stable_hash_table' = remove_stable_node_no_item(stable_hash_table, node, n)
           /\ node' = [node EXCEPT ![n] = FreeNode]
    /\ UNCHANGED log

HandleError ==
    /\ phase = "work"
    /\ \E e \in errs :
         /\ MergeOneFailed(e) \/ MergeTwoFailed(e)
         /\ errs' = errs \ {e}
    /\ UNCHANGED <<phase, iteration, present, todo, page, victims,
                   total_accessed_cnt, created, unstable_hash_table, clashed>>

-----------------------------------------------------------------------------
(***************************************************************************)
(* One page: lookup_rmap_item, then cmp_and_merge_one                      *)
(***************************************************************************)

NewItem == [AbsentItem EXCEPT !.state = "Volatile"]

\* The worker takes the page of item i, mapped to frame p with content h.
lookup_rmap_item(i, p, h) ==
    /\ phase = "work"
    /\ errs = {}
    /\ page = NoPage
    /\ i \in todo
    /\ todo' = todo \ {i}
    /\ page' = [item |-> i, hash |-> h]
    /\ rmap_tree' = [rmap_tree EXCEPT ![i] =
                        [(IF InTree(i) THEN rmap_tree[i] ELSE NewItem)
                           EXCEPT !.pfn = p, !.last_access = ToShort(iteration)]]
    /\ total_accessed_cnt' = total_accessed_cnt + 1
    /\ UNCHANGED <<phase, iteration, present, errs, victims, node, created,
                   stable_hash_table, unstable_hash_table, log, clashed>>

curr == rmap_tree[page.item]

PageInHand(s) == phase = "work" /\ page # NoPage /\ curr.state = s

scanRest == <<phase, iteration, present, errs, todo, victims, total_accessed_cnt>>

\* Mutant: the host is told only when the node goes.
DemotionLog_OnlyStale(i) ==
    IF IsLastItem(i) THEN Append(log, log_stale_node(i)) ELSE log

DemotionLog(i) ==
    Append(log, IF IsLastItem(i) THEN log_stale_node(i) ELSE log_item_state_change(i))

\* Stable, but the item is mapped to another frame: it leaves the node and
\* the switch is entered again with a volatile item.
StableMoved ==
    /\ PageInHand("Stable")
    /\ node[curr.stable_node].pfn # curr.pfn
    /\ LeaveNode(page.item)
    /\ rmap_tree' = [rmap_tree EXCEPT ![page.item] = reset_item_state(@)]
    /\ log' = DemotionLog(page.item)
    /\ UNCHANGED <<scanRest, page, created, unstable_hash_table, clashed>>

\* Stable, same frame and same content.
StableKept ==
    /\ PageInHand("Stable")
    /\ node[curr.stable_node].pfn = curr.pfn
    /\ page.hash = curr.old_hash
    /\ page' = NoPage
    /\ UNCHANGED <<scanRest, metaVars, log>>

\* The nodes that a re-key moves: the HEAD and the rest of its chain.
\* Mutant: only the node of the page in hand.
RekeyScope_OneNode == {curr.stable_node}

RekeyScope == Chain(node, node[curr.stable_node].chain)

\* Stable, same frame, other content: what was merged is what is there now,
\* so the HEAD, its chain and all their items are moved to the new hash.  The
\* insertion replaces the HEAD that the new hash may already have.
StableRekeyed ==
    /\ PageInHand("Stable")
    /\ node[curr.stable_node].pfn = curr.pfn
    /\ page.hash # curr.old_hash
    /\ LET c   == node[curr.stable_node].chain
           old == node[curr.stable_node].page_hash
           moved == RekeyScope
       IN  /\ stable_hash_table' =
                 [stable_hash_table EXCEPT ![old] = NoNode, ![page.hash] = c]
           /\ clashed' = (clashed \/ stable_hash_table[page.hash] # NoNode)
           /\ node' = [n \in NodeIds |-> IF n \in moved
                         THEN [node[n] EXCEPT !.page_hash = page.hash]
                         ELSE node[n]]
           /\ rmap_tree' =
                 [i \in Items |-> IF \E n \in moved : i \in node[n].sharing
                    THEN [rmap_tree[i] EXCEPT !.old_hash = page.hash]
                    ELSE rmap_tree[i]]
    /\ page' = NoPage
    /\ UNCHANGED <<scanRest, created, unstable_hash_table, log>>

\* Volatile, and should_skip_item says so.
VolatileSkipped ==
    /\ PageInHand("Volatile")
    /\ SMART_SCAN_ON
    /\ page' = NoPage
    /\ UNCHANGED <<scanRest, metaVars, log>>

\* A stable merge is tried when the content did not change since the last
\* look; cmp_and_merge_one_old tries it whatever the content was before.
TryStable == OldOps \/ curr.old_hash = page.hash

\* Volatile, with a stable node of the same content and room in it.
MergeWithStable ==
    /\ PageInHand("Volatile")
    /\ TryStable
    /\ \E n \in cmp_with_stable(page.hash) :
         /\ node' = insert_item_to_node(node, n, page.item)
         /\ rmap_tree' = [rmap_tree EXCEPT ![page.item] = ItemInNode(@, node, n)]
         /\ log' = Append(log, log_stable_merge(page.item, n))
    /\ page' = NoPage
    /\ UNCHANGED <<scanRest, created, stable_hash_table, unstable_hash_table, clashed>>

NoStableMatch == TryStable => cmp_with_stable(page.hash) = {}

\* Volatile, with an unstable item of the same content: cmp_with_unstable
\* removes it and a new stable node is made of the two.
MergeWithUnstable ==
    /\ PageInHand("Volatile")
    /\ curr.old_hash = page.hash
    /\ NoStableMatch
    /\ unstable_hash_table[page.hash] # NoItem
    /\ created < MaxNodes
    /\ LET j == unstable_hash_table[page.hash]
           n == created + 1
           c == ChainFor(n, page.hash)
           new == [page_hash |-> page.hash, pfn |-> curr.pfn, chain |-> c,
                   sharing |-> {}, shared_cnt |-> 0]
           nd  == [node EXCEPT ![n] = new]
       IN  /\ created' = n
           /\ stable_hash_table' = [stable_hash_table EXCEPT ![page.hash] = c]
           /\ unstable_hash_table' = TakeUnstable(page.hash)
           /\ node' = insert_item_to_node(insert_item_to_node(nd, n, j), n, page.item)
           /\ rmap_tree' = [rmap_tree EXCEPT ![j] = ItemInNode(@, nd, n),
                                             ![page.item] = ItemInNode(@, nd, n)]
           /\ log' = Append(log, log_unstable_merge(page.item, j))
    /\ page' = NoPage
    /\ UNCHANGED <<scanRest, clashed>>

\* Volatile, unchanged content that nobody else has: a merge candidate.
InsertUnstable ==
    /\ PageInHand("Volatile")
    /\ curr.old_hash = page.hash
    /\ NoStableMatch
    /\ unstable_hash_table[page.hash] = NoItem
    /\ unstable_hash_table' = [unstable_hash_table EXCEPT ![page.hash] = page.item]
    /\ rmap_tree' = [rmap_tree EXCEPT ![page.item].state = "Unstable"]
    /\ page' = NoPage
    /\ UNCHANGED <<scanRest, node, created, stable_hash_table, log, clashed>>

\* Volatile and changed since the last look: remember the content.
VolatileChanged ==
    /\ PageInHand("Volatile")
    /\ curr.old_hash # page.hash
    /\ NoStableMatch
    /\ rmap_tree' = [rmap_tree EXCEPT ![page.item].old_hash = page.hash]
    /\ page' = NoPage
    /\ UNCHANGED <<scanRest, node, created, stable_hash_table,
                   unstable_hash_table, log, clashed>>

cmp_and_merge_one ==
    \/ StableMoved
    \/ StableKept
    \/ StableRekeyed
    \/ VolatileSkipped
    \/ MergeWithStable
    \/ MergeWithUnstable
    \/ InsertUnstable
    \/ VolatileChanged

-----------------------------------------------------------------------------
(***************************************************************************)
(* prune_metadata and the end of the iteration                             *)
(***************************************************************************)

\* Mutant: the grace of one iteration is off by two.
NotAccessed_NoGrace(i) == InTree(i) /\ rmap_tree[i].last_access < iteration + 1

\* collect_keys_to_remove
NotAccessed(i) == InTree(i) /\ rmap_tree[i].last_access < iteration - 1

\* The margin test of prune_metadata, in unsigned arithmetic.
TooManyUnaccessed ==
    LET nnodes == Cardinality({i \in Items : InTree(i)})
    IN  \/ nnodes < total_accessed_cnt
        \/ nnodes - total_accessed_cnt > RMAP_PRUNE_MARGIN

\* clean_up_unstable_tree, then the margin test and the collection of keys.
prune_metadata ==
    /\ phase = "work"
    /\ errs = {}
    /\ todo = {}
    /\ page = NoPage
    /\ phase' = "prune"
    /\ rmap_tree' = [i \in Items |->
                       IF \E h \in Hashes : unstable_hash_table[h] = i
                       THEN [rmap_tree[i] EXCEPT !.state = "Volatile"]
                       ELSE rmap_tree[i]]
    /\ unstable_hash_table' = [h \in Hashes |-> NoItem]
    /\ victims' = IF TooManyUnaccessed THEN {i \in Items : NotAccessed(i)} ELSE {}
    /\ UNCHANGED <<iteration, present, errs, todo, page, total_accessed_cnt,
                   node, created, stable_hash_table, log, clashed>>

\* Mutant: the loop does not advance.
KeysLeft_NoAdvance(i) == victims

KeysLeft(i) == victims \ {i}

\* One turn of the loop of prune_rmap_tree.
prune_rmap_tree ==
    /\ phase = "prune"
    /\ \E i \in victims :
         /\ victims' = KeysLeft(i)
         /\ IF rmap_tree[i].state = "Stable"
            THEN /\ LeaveNode(i)
                 /\ log' = IF IsLastItem(i) THEN Append(log, log_stale_node(i)) ELSE log
            ELSE UNCHANGED <<node, stable_hash_table, log>>
         /\ rmap_tree' = [rmap_tree EXCEPT ![i] = AbsentItem]
    /\ UNCHANGED <<phase, iteration, present, errs, todo, page, total_accessed_cnt,
                   created, unstable_hash_table, clashed>>

\* The result descriptor is sent and the next receive posted.
SendResult ==
    /\ phase = "prune"
    /\ victims = {}
    /\ phase' = "wait"
    /\ iteration' = iteration + 1
    /\ total_accessed_cnt' = 0
    /\ UNCHANGED <<present, errs, todo, page, victims, metaVars, log>>

\* A completion with an error status: wait_cq_event_and_poll stops for good.
ConnectionLost ==
    /\ phase \in {"wait", "work"}
    /\ phase' = "down"
    /\ UNCHANGED <<iteration, scanVars, metaVars, log>>

-----------------------------------------------------------------------------
Init ==
    /\ phase = "wait"
    /\ iteration = 0
    /\ present = {}
    /\ errs = {}
    /\ todo = {}
    /\ page = NoPage
    /\ victims = {}
    /\ total_accessed_cnt = 0
    /\ rmap_tree = [i \in Items |-> AbsentItem]
    /\ node = [n \in NodeIds |-> FreeNode]
    /\ created = 0
    /\ stable_hash_table = [h \in Hashes |-> NoNode]
    /\ unstable_hash_table = [h \in Hashes |-> NoItem]
    /\ log = <<>>
    /\ clashed = FALSE

\* The server's own steps: everything but the arrival of metadata and the
\* failure of the connection.
ServerStep ==
    \/ HandleError
    \/ \E i \in todo, p \in Pfns, h \in Hashes : lookup_rmap_item(i, p, h)
    \/ cmp_and_merge_one
    \/ prune_metadata
    \/ prune_rmap_tree
    \/ SendResult

Next ==
    \/ \E S \in SUBSET Items, E \in SUBSET Reportable : RecvMetadata(S, E)
    \/ ServerStep
    \/ ConnectionLost

Spec == Init /\ [][Next]_vars

-----------------------------------------------------------------------------
(***************************************************************************)
(* Properties                                                              *)
(***************************************************************************)

\* Every variable has its type.
TypeOK ==
    /\ phase \in {"wait", "work", "prune", "down"}
    /\ iteration \in 0..MaxIteration
    /\ present \in SUBSET Items
    /\ errs \in SUBSET ErrRec
    /\ todo \in SUBSET present
    /\ page \in PageRec
    /\ victims \in SUBSET Items
    /\ total_accessed_cnt \in Nat
    /\ rmap_tree \in [Items -> ItemRec]
    /\ node \in [NodeIds -> NodeRec]
    /\ created \in 0..MaxNodes
    /\ stable_hash_table \in [Hashes -> NodeIds \cup {NoNode}]
    /\ unstable_hash_table \in [Hashes -> Items \cup {NoItem}]
    /\ log \in Seq(LogRec)
    /\ clashed \in BOOLEAN

\* An item is Stable exactly while the node it points to is allocated and
\* lists it, and it is listed by no other node (item->stable_node against
\* sharing_item_tree, changed apart from each other by merges, re-keys, moves,
\* host failures and pruning).
SharingConsistent ==
    /\ \A i \in Items :
         rmap_tree[i].state = "Stable" =>
            /\ rmap_tree[i].stable_node \in NodeIds
            /\ Live(rmap_tree[i].stable_node)
            /\ i \in node[rmap_tree[i].stable_node].sharing
    /\ \A n \in NodeIds : \A i \in node[n].sharing :
            /\ rmap_tree[i].state = "Stable"
            /\ rmap_tree[i].stable_node = n

\* shared_cnt is the number of items of the node, an allocated node is never
\* empty and never holds more than MAX_PAGE_SHARING items, so the tests of
\* shared_cnt against 0, 1 and MAX_PAGE_SHARING mean what they say.
CountsExact ==
    \A n \in NodeIds : Live(n) =>
        /\ node[n].shared_cnt = Cardinality(node[n].sharing)
        /\ node[n].shared_cnt \in 1..MAX_PAGE_SHARING

\* The nodes of one chain have one hash, and every item of a node has the
\* node's hash: the "Checksum mismatch in Stable item" stop of
\* cmp_and_merge_one cannot be reached by any order of re-keys.
HashesAgree ==
    /\ \A i \in Items : rmap_tree[i].state = "Stable" =>
            rmap_tree[i].old_hash = node[rmap_tree[i].stable_node].page_hash
    /\ \A n, m \in NodeIds :
            (Live(n) /\ Live(m) /\ node[n].chain = node[m].chain)
                => node[n].page_hash = node[m].page_hash

\* The stable hash table never holds a freed node, and what it holds under a
\* hash has that hash, even after re-keys have replaced each other's entries
\* (g_hash_table_remove and _insert work by hash, not by node).
TableSound ==
    \A h \in Hashes : stable_hash_table[h] # NoNode =>
        /\ Chain(node, stable_hash_table[h]) # {}
        /\ \A n \in Chain(node, stable_hash_table[h]) : node[n].page_hash = h

\* As long as no re-key has hit a hash that another chain holds, every
\* allocated node can be found through the table (insert_stable_node and
\* remove_stable_node_no_item keep chains and table together).
TableComplete ==
    ~clashed => \A n \in NodeIds : Live(n) =>
        stable_hash_table[node[n].page_hash] = node[n].chain

\* The unstable table holds exactly the Unstable items, each under the content
\* it had when inserted; it is empty between iterations and never holds a
\* page that is still to be scanned.
UnstableExact ==
    /\ \A h \in Hashes : unstable_hash_table[h] # NoItem =>
            /\ rmap_tree[unstable_hash_table[h]].state = "Unstable"
            /\ rmap_tree[unstable_hash_table[h]].old_hash = h
    /\ \A i \in Items : rmap_tree[i].state = "Unstable" =>
            /\ rmap_tree[i].old_hash \in Hashes
            /\ unstable_hash_table[rmap_tree[i].old_hash] = i
            /\ i \in present \ todo
            /\ phase \in {"work", "down"}

\* What the log of the iteration tells the host to merge is merged in the
\* metadata when the log is sent, with the frame the log names, and stays so
\* until the host's answer is handled.
LogMatchesMetadata ==
    \A k \in DOMAIN log :
        /\ log[k].type = "STABLE_MERGE" =>
             /\ rmap_tree[log[k].from].state = "Stable"
             /\ node[rmap_tree[log[k].from].stable_node].pfn = log[k].kpfn
        /\ log[k].type = "UNSTABLE_MERGE" =>
             /\ rmap_tree[log[k].from].state = "Stable"
             /\ rmap_tree[log[k].to].state = "Stable"
             /\ rmap_tree[log[k].to].stable_node = rmap_tree[log[k].from].stable_node

\* The checks of do_handle_error hold for every entry still to be handled,
\* whatever the entries handled before it undid: the item is in the rmap tree
\* and merged, and a failed stable merge names the frame of its node.
ErrorsApply ==
    \A e \in errs :
        /\ rmap_tree[e.from].state = "Stable"
        /\ e.type = "MERGE_ONE_FAILED" =>
              node[rmap_tree[e.from].stable_node].pfn = e.kpfn

\* Pruning removes only items that the host did not list in this iteration
\* ("We have %lu unaccessed items. Cleaning up...").
PruneOnlyUnaccessed == victims \cap present = {}

\* A scan that takes an item out of its stable node tells the host: it logs
\* the item, as STALE_STABLE_NODE exactly when the node goes with it.
DemotionIsLogged ==
    [][\A i \in Items :
         (cmp_and_merge_one /\ rmap_tree[i].state = "Stable"
              /\ rmap_tree'[i].stable_node # rmap_tree[i].stable_node)
           => /\ Len(log') = Len(log) + 1
              /\ log'[Len(log')].from = i
              /\ log'[Len(log')].kpfn = node[rmap_tree[i].stable_node].pfn
              /\ (log'[Len(log')].type = "STALE_STABLE_NODE")
                   <=> (node'[rmap_tree[i].stable_node].chain = NoNode)]_vars

\* How many steps the server may still need before it sends its result: one for each
\* error, victim and new page, and two for a page in hand that "goto again" may bring
\* back as Volatile.
WorkLeft ==
    IF phase = "prune" THEN Cardinality(victims)
    ELSE Cardinality(Items) + 1 + Cardinality(errs) + 3 * Cardinality(todo)
           + (IF page = NoPage THEN 0 ELSE IF rmap_tree[page.item].state = "Stable" THEN 2 ELSE 1)

\* Every metadata descriptor is answered unless the connection fails: a server at
\* work always has a next step, whatever it was told and has in its
\* tables, and every step leaves it less to do.  The "goto again" of cmp_and_merge_one
\* and the loops over errors, pages and pruned items all end.
EveryRequestAnswered ==
    [][(phase \in {"work", "prune"}) =>
         /\ ENABLED ServerStep
         /\ phase' \in {"work", "prune"} => WorkLeft' < WorkLeft]_vars

-----------------------------------------------------------------------------
(***************************************************************************)
(* The inductive invariant behind the safety properties                    *)
(***************************************************************************)

\* A node is either free or allocated with a creation number that was given
\* out, in a chain that was started, with the hash of some content.
NodesOK ==
    \A n \in NodeIds :
        \/ node[n] = FreeNode
        \/ /\ n <= created
           /\ node[n].chain \in 1..created
           /\ node[n].page_hash \in Hashes

\* The part about items, nodes and the stable table.
StructInv ==
    /\ NodesOK
    /\ SharingConsistent
    /\ CountsExact
    /\ HashesAgree
    /\ TableSound
    /\ TableComplete

\* Where on_established is determines what is pending.
PhaseOK ==
    /\ phase \in {"wait", "prune"} => todo = {} /\ page = NoPage /\ errs = {}
    /\ phase \in {"work", "prune"} => iteration < MaxIteration
    /\ phase # "prune" => victims = {}
    /\ errs # {} => todo = present /\ page = NoPage
    /\ page # NoPage =>
         /\ page.item \in present \ todo
         /\ page.hash \in Hashes
         /\ rmap_tree[page.item].state \in {"Volatile", "Stable"}

\* A page that has been looked at is in the rmap tree, stamped with the
\* iteration.
ScannedOK ==
    phase \in {"work", "prune"} =>
        \A i \in present \ todo :
            /\ InTree(i)
            /\ rmap_tree[i].last_access = ToShort(iteration)

IsMerge(r) == r.type \in {"STABLE_MERGE", "UNSTABLE_MERGE"}

\* A merge of the log is about scanned pages, is the only merge of its page,
\* and an unstable merge is the only one of its node.
LogOK ==
    /\ \A k \in DOMAIN log : IsMerge(log[k]) =>
         /\ log[k].from \in present \ todo
         /\ log[k].from # page.item
         /\ log[k].type = "UNSTABLE_MERGE" =>
              /\ log[k].to \in present \ todo
              /\ log[k].to # page.item
    /\ \A k, l \in DOMAIN log : (k # l /\ IsMerge(log[k]) /\ IsMerge(log[l])) =>
         /\ log[k].from # log[l].from
         /\ (log[k].type = "UNSTABLE_MERGE" /\ log[l].type = "UNSTABLE_MERGE") =>
              rmap_tree[log[k].from].stable_node # rmap_tree[log[l].from].stable_node
    /\ errs # {} => \A k \in DOMAIN log : ~IsMerge(log[k])

\* No two error entries undo the same merge.
ErrsOK ==
    \A e, f \in errs : e # f =>
        /\ e.from # f.from
        /\ e.type = "MERGE_TWO_FAILED" =>
             rmap_tree[e.from].stable_node # rmap_tree[f.from].stable_node

\* The items being pruned are in the tree, and none of them is Unstable.
VictimsOK == \A i \in victims : rmap_tree[i].state \in {"Volatile", "Stable"}

\* The inductive invariant: the properties above together with what their
\* proofs need.  It holds while the iteration counter fits a short.
ServerInv ==
    /\ TypeOK
    /\ StructInv
    /\ UnstableExact
    /\ PhaseOK
    /\ ScannedOK
    /\ LogMatchesMetadata
    /\ LogOK
    /\ ErrorsApply
    /\ ErrsOK
    /\ PruneOnlyUnaccessed
    /\ VictimsOK
=============================================================================
