----------------------------- MODULE BaskSystem -----------------------------
(***************************************************************************)
(* The server of module BaskServer together with the host it works for:    *)
(* the offloaded round of ksmd (codes/mm/ksm.c, ksm_shadow.c) and guests   *)
(* that go on writing while it runs.                                       *)
(*                                                                         *)
(* A round of ksm_do_scan walks the page tables and lists every page that  *)
(* is present (prepare_metadata, scan_pte_entry), sends the listing and    *)
(* the failures of the round before (rdma_send_metadata), waits for the    *)
(* server's log, carries it out entry by entry (apply_result) and drops    *)
(* the listing (free_shadow_mm).  Guests run between any two of these      *)
(* steps, so what the server read and what the host finds when it carries  *)
(* out the log may differ.                                                 *)
(*                                                                         *)
(* Abstractions: one address space, its pages numbered by address; the     *)
(* content of a frame is its hash; a stable node of the host is named by   *)
(* its frame (kpfn), its hlist is the set of the items flagged and headed  *)
(* by it, and the red-black tree that orders nodes by content is left out; *)
(* the descriptor and the log travel in one step (their transport is the   *)
(* subject of module RdmaClient).                                          *)
(***************************************************************************)
EXTENDS BaskServer

CONSTANTS
    ksm_max_page_sharing,  \* most items a stable node of the host may have
    MaxWrites,             \* bound: guest operations in a behaviour
    MaxQuiet               \* bound: quiet rounds that are counted

ASSUME SystemAssumption ==
    /\ Items = 1..Cardinality(Items)
    /\ ksm_max_page_sharing \in Nat
    /\ MaxWrites \in Nat
    /\ MaxQuiet \in Nat

VARIABLES
    map,      \* page tables: item -> frame
    content,  \* frame -> content, NullHash in a frame never used
    frame,    \* frame -> what page->mapping says of it
    pinned,   \* frames with a reference that no one gives back
    hitem,    \* rmap items of the host
    hnode,    \* stable nodes of the host, by frame
    shadow,   \* the listing: item -> frame it was mapped to when listed
    errtab,   \* ksm_error_table
    hphase,   \* where ksm_do_scan is
    cursor,   \* next address of the walk
    applied,  \* log entries carried out
    writes,   \* guest operations so far
    discarded, \* history: a guest has given a page back
    quiet     \* rounds ended since a guest operation or a failed merge

guestVars == <<map, content, frame, writes, discarded>>
hostVars == <<guestVars, pinned, hitem, hnode, shadow, errtab, hphase, cursor,
              applied, quiet>>
sysVars == <<vars, hostVars>>

-----------------------------------------------------------------------------
(***************************************************************************)
(* Data                                                                    *)
(***************************************************************************)

\* An rmap item: allocated or not, STABLE_FLAG, and the frame of the stable
\* node that head points to.  head is only cleared when the item is taken out
\* of its node, so it may outlive the node.
HostItemRec == [alloc : BOOLEAN, stable : BOOLEAN, head : Pfns \cup {NoPfn}]

NoHostItem == [alloc |-> FALSE, stable |-> FALSE, head |-> NoPfn]
FreshHostItem == [alloc |-> TRUE, stable |-> FALSE, head |-> NoPfn]

\* page->mapping: an anonymous page, a ksm page without a stable node, a ksm
\* page that points to its stable node.
FrameKinds == {"anon", "ksm", "node"}

Listed == {i \in Items : shadow[i] # NoPfn}

Mapped(p) == \E i \in Items : map[i] = p

\* The allocator may hand out a frame that nothing refers to.
FreeFrames == {p \in Pfns : /\ ~Mapped(p)
                            /\ \A i \in Items : shadow[i] # p
                            /\ p \notin pinned}

PageKsm(p) == frame[p] # "anon" /\ p \notin FreeFrames

\* page_stable_node(pfn_to_page(p)) is not NULL.
HasStableNode(p) == p \in Pfns /\ frame[p] = "node" /\ p \notin FreeFrames

HList(k) == {i \in Items : hitem[i].stable /\ hitem[i].head = k}

\* remove_rmap_item_from_tree, for an item whose node's frame is intact.
remove_rmap_item_from_tree(it) ==
    IF it.stable THEN [it EXCEPT !.stable = FALSE, !.head = NoPfn] ELSE it

-----------------------------------------------------------------------------
(***************************************************************************)
(* Guests (external: the kernel's page fault and zap paths)                *)
(***************************************************************************)
GuestSteps == writes < MaxWrites /\ writes' = writes + 1 /\ quiet' = 0

guestRest == <<vars, pinned, hitem, hnode, shadow, errtab, hphase, cursor, applied>>

\* Page i is given frame p, new from the allocator, with content v.
MoveTo(i, p, v) ==
    /\ p \in FreeFrames
    /\ map' = [map EXCEPT ![i] = p]
    /\ content' = [content EXCEPT ![p] = v]
    /\ frame' = [frame EXCEPT ![p] = "anon"]

\* Ksm pages are write-protected; an anonymous page is mapped once.
WritableInPlace(p) == frame[p] = "anon"

\* A write goes to the page where it is, or, after a write fault, to a copy.
Write(i, v) ==
    /\ GuestSteps
    /\ map[i] # NoPfn
    /\ content[map[i]] # v
    /\ \/ /\ WritableInPlace(map[i])
          /\ content' = [content EXCEPT ![map[i]] = v]
          /\ UNCHANGED <<map, frame>>
       \/ \E p \in FreeFrames : MoveTo(i, p, v)
    /\ UNCHANGED <<discarded, guestRest>>

\* The first touch of a page, or the first after it was given back.
Fault(i, v) ==
    /\ GuestSteps
    /\ map[i] = NoPfn
    /\ \E p \in FreeFrames : MoveTo(i, p, v)
    /\ UNCHANGED <<discarded, guestRest>>

\* The guest gives a page back (a balloon, madvise).
Discard(i) ==
    /\ GuestSteps
    /\ map[i] # NoPfn
    /\ map' = [map EXCEPT ![i] = NoPfn]
    /\ discarded' = TRUE
    /\ UNCHANGED <<content, frame, guestRest>>

-----------------------------------------------------------------------------
(***************************************************************************)
(* Listing the pages                                                       *)
(***************************************************************************)

\* get_next_rmap_item for address c: items of lower addresses that this walk
\* did not list are taken out of the tree and freed; items behind the last
\* listed address are left alone.
get_next_rmap_item(c) ==
    [i \in Items |->
        IF i = c /\ ~hitem[c].alloc THEN FreshHostItem
        ELSE IF i < c /\ i \notin Listed THEN NoHostItem
        ELSE hitem[i]]

\* scan_pte_entry: the page at the cursor is listed if it is present.
scan_pte_entry ==
    /\ hphase = "walk"
    /\ cursor \in Items
    /\ cursor' = cursor + 1
    /\ IF map[cursor] = NoPfn
       THEN UNCHANGED <<shadow, hitem>>
       ELSE /\ shadow' = [shadow EXCEPT ![cursor] = map[cursor]]
            /\ hitem' = get_next_rmap_item(cursor)
    /\ UNCHANGED <<vars, guestVars, pinned, hnode, errtab, hphase, applied, quiet>>

\* prepare_metadata with no page listed: all rmap items go, and the address
\* space with them, from the list of ksmd.
NothingListed ==
    /\ hphase = "walk"
    /\ cursor \notin Items
    /\ Listed = {}
    /\ hitem' = [i \in Items |-> NoHostItem]
    /\ hphase' = "removed"
    /\ UNCHANGED <<vars, guestVars, pinned, hnode, shadow, errtab, cursor, applied, quiet>>

\* rdma_send_metadata: the server gets the listing and the error table.
rdma_send_metadata ==
    /\ hphase = "walk"
    /\ cursor \notin Items
    /\ Listed # {}
    /\ RecvMetadata(Listed, errtab)
    /\ hphase' = "offload"
    /\ UNCHANGED <<guestVars, pinned, hitem, hnode, shadow, errtab, cursor, applied, quiet>>

\* The server works through the listing in its order, reading the frames that
\* are listed as they are now.
ServerWorks ==
    /\ hphase = "offload"
    /\ \/ HandleError
       \/ \E i \in todo :
            /\ \A j \in todo : i <= j
            /\ lookup_rmap_item(i, shadow[i], content[shadow[i]])
       \/ cmp_and_merge_one
       \/ prune_metadata
       \/ prune_rmap_tree
       \/ SendResult
    /\ UNCHANGED hostVars

\* recv_offload_result, and clear_error_table.
recv_offload_result ==
    /\ hphase = "offload"
    /\ phase = "wait"
    /\ hphase' = "apply"
    /\ applied' = 0
    /\ errtab' = {}
    /\ UNCHANGED <<vars, guestVars, pinned, hitem, hnode, shadow, cursor, quiet>>

-----------------------------------------------------------------------------
(***************************************************************************)
(* apply_result, one action per kind of entry and outcome                  *)
(***************************************************************************)
Entry == log[applied + 1]

Applying(type) ==
    /\ hphase = "apply"
    /\ applied < Len(log)
    /\ Entry.type = type
    /\ applied' = applied + 1

applyRest == <<vars, writes, discarded, pinned, shadow, hphase, cursor>>

\* The frame was listed for item i and i is still mapped to it.
StillMapped(i) == shadow[i] # NoPfn /\ map[i] = shadow[i]

\* Mutant: no comparison before the page is replaced.
pages_identical_Unchecked(p, q) == TRUE

pages_identical(p, q) == content[p] = content[q]

\* Mutant: the entry is lost.
insert_error_log_Lost(e) == errtab

insert_error_log(e) == errtab \cup {e}

\* What apply_result demands of an entry; it stops ksmd for good when an
\* entry does not meet it (DEBUG_ERR), or fails on the item it did not find.
EntryApplies(r) ==
    /\ (r.type = "STABLE_MERGE" /\ HasStableNode(r.kpfn)) =>
           /\ r.from \in Listed
           /\ Cardinality(HList(r.kpfn)) # ksm_max_page_sharing
    /\ r.type = "UNSTABLE_MERGE" => r.from \in Listed /\ r.to \in Listed
    /\ r.type = "STALE_STABLE_NODE" =>
           /\ r.from \in Listed
           /\ hitem[r.from].head = r.kpfn
           /\ r.kpfn \in hnode
           /\ HasStableNode(r.kpfn)
           /\ ~Mapped(r.kpfn)
    /\ r.type = "ITEM_STATE_CHANGE" => r.from \in Listed /\ hitem[r.from].stable

debug_stop ==
    /\ hphase = "apply"
    /\ applied < Len(log)
    /\ ~EntryApplies(Entry)
    /\ hphase' = "stopped"
    /\ UNCHANGED <<vars, guestVars, pinned, hitem, hnode, shadow, errtab, cursor,
                   applied, quiet>>

\* Mutant: a merge that is passed over is reported like one that failed.
SkipErrors_Reported(r) ==
    insert_error_log([type |-> "MERGE_ONE_FAILED", from |-> r.from, kpfn |-> r.kpfn])

\* STABLE_MERGE with a page that has no stable node (the unstable merge that
\* was to make one has failed): passed over, without an error entry.
SkipErrors(r) == errtab

StableMergeSkipped ==
    /\ Applying("STABLE_MERGE")
    /\ ~HasStableNode(Entry.kpfn)
    /\ errtab' = SkipErrors(Entry)
    /\ UNCHANGED <<applyRest, map, content, frame, hitem, hnode, quiet>>

\* stable_tree_append: the item hangs off the node of frame k.
stable_tree_append(it, k) == [it EXCEPT !.stable = TRUE, !.head = k]

\* STABLE_MERGE: the page is replaced by the ksm page.
StableMergeDone ==
    /\ Applying("STABLE_MERGE")
    /\ HasStableNode(Entry.kpfn)
    /\ EntryApplies(Entry)
    /\ LET i == Entry.from
           k == Entry.kpfn
       IN  /\ \/ shadow[i] = k /\ UNCHANGED map
              \/ /\ StillMapped(i)
                 /\ pages_identical(shadow[i], k)
                 /\ map' = [map EXCEPT ![i] = k]
           /\ hitem' = [hitem EXCEPT ![i] = stable_tree_append(@, k)]
    /\ UNCHANGED <<applyRest, content, frame, hnode, errtab, quiet>>

\* The item of a failed merge is in no node, but head is set "to handle stale
\* case": the server may log the node as stale under this item.
FailedItem(it, k) == [it EXCEPT !.stable = FALSE, !.head = k]

\* STABLE_MERGE that fails, because the pages differ by now, because the page
\* has moved, or because a lock or a reference is in the way.
StableMergeFailed ==
    /\ Applying("STABLE_MERGE")
    /\ HasStableNode(Entry.kpfn)
    /\ EntryApplies(Entry)
    /\ hitem' = [hitem EXCEPT ![Entry.from] = FailedItem(@, Entry.kpfn)]
    /\ errtab' = insert_error_log([type |-> "MERGE_ONE_FAILED",
                                   from |-> Entry.from, kpfn |-> Entry.kpfn])
    /\ quiet' = 0
    /\ UNCHANGED <<applyRest, map, content, frame, hnode>>

\* Both items of an unstable merge leave the tree first.
BothRemoved(i, j) ==
    [m \in Items |-> IF m \in {i, j} THEN remove_rmap_item_from_tree(hitem[m])
                                     ELSE hitem[m]]

BothAppended(i, j, k) ==
    [m \in Items |-> IF m \in {i, j} THEN stable_tree_append(hitem[m], k)
                                     ELSE hitem[m]]

\* UNSTABLE_MERGE: the page of "from" becomes the ksm page of a new node.
UnstableMergeDone ==
    /\ Applying("UNSTABLE_MERGE")
    /\ EntryApplies(Entry)
    /\ LET i == Entry.from
           j == Entry.to
           k == shadow[i]
       IN  /\ StillMapped(i)
           /\ StillMapped(j)
           /\ pages_identical(k, shadow[j])
           /\ map' = [map EXCEPT ![j] = k]
           /\ frame' = [frame EXCEPT ![k] = "node"]
           /\ hnode' = hnode \cup {k}
           /\ hitem' = BothAppended(i, j, k)
    /\ UNCHANGED <<applyRest, content, errtab, quiet>>

\* Mutant: the ksm page stays mapped.
PromotionUndone_Left(i, k) ==
    /\ frame' = [frame EXCEPT ![k] = "ksm"]
    /\ UNCHANGED <<map, content>>

\* Frame k of item i had become a ksm page before the second page failed:
\* break_cow gives the guest a copy of it.
PromotionUndone(i, k) ==
    \E p \in FreeFrames :
        /\ map' = [map EXCEPT ![i] = p]
        /\ content' = [content EXCEPT ![p] = content[k]]
        /\ frame' = [frame EXCEPT ![p] = "anon", ![k] = "ksm"]

\* UNSTABLE_MERGE that fails, at the first page or at the second.
UnstableMergeFailed ==
    /\ Applying("UNSTABLE_MERGE")
    /\ EntryApplies(Entry)
    /\ LET i == Entry.from
           k == shadow[i]
       IN  /\ hitem' = BothRemoved(i, Entry.to)
           /\ \/ UNCHANGED <<map, content, frame>>
              \/ /\ StillMapped(i)
                 /\ PromotionUndone(i, k)
           /\ errtab' = insert_error_log([type |-> "MERGE_TWO_FAILED",
                                          from |-> i, to |-> Entry.to])
    /\ quiet' = 0
    /\ UNCHANGED <<applyRest, hnode>>

\* Mutant: the items keep their flag.
remove_node_from_stable_tree_KeepsFlags(k) == hitem

\* The items of a freed node lose their flag; head is left dangling.
remove_node_from_stable_tree(k) ==
    [i \in Items |-> IF i \in HList(k) THEN [hitem[i] EXCEPT !.stable = FALSE]
                                       ELSE hitem[i]]

\* STALE_STABLE_NODE: the node is freed.
StaleStableNode ==
    /\ Applying("STALE_STABLE_NODE")
    /\ EntryApplies(Entry)
    /\ LET k == Entry.kpfn
       IN  /\ frame' = [frame EXCEPT ![k] = "ksm"]
           /\ hnode' = hnode \ {k}
           /\ hitem' = remove_node_from_stable_tree(k)
    /\ UNCHANGED <<applyRest, map, content, errtab, quiet>>

\* ITEM_STATE_CHANGE: the item leaves its node.
ItemStateChange ==
    /\ Applying("ITEM_STATE_CHANGE")
    /\ EntryApplies(Entry)
    /\ hitem' = [hitem EXCEPT ![Entry.from] = remove_rmap_item_from_tree(@)]
    /\ UNCHANGED <<applyRest, map, content, frame, hnode, errtab, quiet>>

apply_result ==
    \/ StableMergeSkipped
    \/ StableMergeDone
    \/ StableMergeFailed
    \/ UnstableMergeDone
    \/ UnstableMergeFailed
    \/ StaleStableNode
    \/ ItemStateChange
    \/ debug_stop

-----------------------------------------------------------------------------
\* free_shadow_mm gives back the reference that the listing took, but not on a
\* page that is a ksm page by now.
KeptReferences == {shadow[i] : i \in {i \in Listed : PageKsm(shadow[i])}}

\* destroy_metadata: the round is over.
destroy_metadata ==
    /\ hphase = "apply"
    /\ applied = Len(log)
    /\ pinned' = pinned \cup KeptReferences
    /\ shadow' = [i \in Items |-> NoPfn]
    /\ cursor' = 1
    /\ hphase' = "walk"
    /\ quiet' = IF quiet < MaxQuiet THEN quiet + 1 ELSE quiet
    /\ UNCHANGED <<vars, guestVars, hitem, hnode, errtab, applied>>

-----------------------------------------------------------------------------
\* Guests have touched some pages, each in a frame of its own, when the
\* address space is first listed.
SystemInit ==
    /\ Init
    /\ map \in [Items -> Pfns \cup {NoPfn}]
    /\ \A i, j \in Items : (i # j /\ map[i] # NoPfn) => map[i] # map[j]
    /\ content \in [Pfns -> Hashes \cup {NullHash}]
    /\ \A p \in Pfns : content[p] = NullHash <=> ~Mapped(p)
    /\ frame = [p \in Pfns |-> "anon"]
    /\ pinned = {}
    /\ hitem = [i \in Items |-> NoHostItem]
    /\ hnode = {}
    /\ shadow = [i \in Items |-> NoPfn]
    /\ errtab = {}
    /\ hphase = "walk"
    /\ cursor = 1
    /\ applied = 0
    /\ writes = 0
    /\ discarded = FALSE
    /\ quiet = 0

GuestStep ==
    \/ \E i \in Items, v \in Hashes : Write(i, v) \/ Fault(i, v)
    \/ \E i \in Items : Discard(i)

HostStep ==
    \/ scan_pte_entry
    \/ NothingListed
    \/ rdma_send_metadata
    \/ recv_offload_result
    \/ apply_result
    \/ destroy_metadata

SystemNext == GuestStep \/ HostStep \/ ServerWorks

SystemSpec == SystemInit /\ [][SystemNext]_sysVars

-----------------------------------------------------------------------------
(***************************************************************************)
(* Properties                                                              *)
(***************************************************************************)

\* Every variable of the host has its type.
SystemTypeOK ==
    /\ map \in [Items -> Pfns \cup {NoPfn}]
    /\ content \in [Pfns -> Hashes \cup {NullHash}]
    /\ frame \in [Pfns -> FrameKinds]
    /\ pinned \in SUBSET Pfns
    /\ hitem \in [Items -> HostItemRec]
    /\ hnode \in SUBSET Pfns
    /\ shadow \in [Items -> Pfns \cup {NoPfn}]
    /\ errtab \in SUBSET ErrRec
    /\ hphase \in {"walk", "offload", "apply", "stopped", "removed"}
    /\ cursor \in Nat
    /\ applied \in Nat
    /\ writes \in 0..MaxWrites
    /\ discarded \in BOOLEAN
    /\ quiet \in 0..MaxQuiet

\* None of the checks of apply_result fails (each ends in DEBUG_ERR, which
\* stops ksmd for good).
HostNeverStops == hphase # "stopped"

\* Whatever guests write and whichever merges fail, the log fits the host's
\* tree entry by entry, as long as no guest gives a page back.
LogFitsHost == ~discarded => HostNeverStops

\* What the host puts into the error table is what the server takes for
\* granted about it (HostReports, the assumption of module BaskServer).
ErrorsAreReportable ==
    (hphase \in {"apply", "walk"} /\ errtab # {}) => HostReports(errtab)

\* The frame of every stable node of the host is still its ksm page, so
\* get_ksm_page never finds the node stale (it would report
\* HOST_STALE_STABLE_NODE, on which the server stops).
KeyholeHolds == \A k \in hnode : HasStableNode(k)

\* A ksm page is mapped only by items that hang off its stable node: "rmap
\* won't find this mapping if we don't insert the rmap_item in the right
\* stable_node" (stable_tree_append).
SharersInHList ==
    \A i \in Items : (map[i] # NoPfn /\ frame[map[i]] # "anon") =>
        /\ map[i] \in hnode
        /\ i \in HList(map[i])

\* The page that an unstable merge promotes is not a ksm page already ("if one
\* of the pages is already a ksm page, try_to_merge_with_ksm_page should be
\* used", try_to_merge_two_pages).
PromotesAnonymous ==
    (hphase = "apply" /\ applied < Len(log) /\ Entry.type = "UNSTABLE_MERGE")
        => ~PageKsm(shadow[Entry.from])

\* Between any two steps of the host, ksm pages, stable nodes and rmap items
\* belong together: the parts above, over well-typed variables.
KsmPagesSound == SystemTypeOK /\ KeyholeHolds /\ SharersInHList /\ PromotesAnonymous

\* The items that a pending error entry will make the server undo.
ToBeUndone(i) ==
    \E e \in errtab :
        \/ e.from = i
        \/ e.type = "MERGE_TWO_FAILED"
             /\ rmap_tree[e.from].stable_node = rmap_tree[i].stable_node

\* Between rounds server and host agree on which item shares which frame, up
\* to the failures the host is about to report and the pages given back.
SidesAgree ==
    (hphase = "walk" /\ phase = "wait" /\ ~discarded) =>
        \A i \in Items :
            LET merged == rmap_tree[i].state = "Stable" /\ ~ToBeUndone(i)
            IN  /\ hitem[i].stable <=> merged
                /\ merged => hitem[i].head = node[rmap_tree[i].stable_node].pfn

\* The pages that the server keeps in one chain have one content.  A re-key
\* takes its whole chain along, with nodes whose pages did not change, so that
\* two nodes of a chain may go on re-keying it for ever.
ChainsPure ==
    \A i, j \in Items :
        ( /\ rmap_tree[i].state = "Stable" /\ rmap_tree[j].state = "Stable"
          /\ node[rmap_tree[i].stable_node].chain = node[rmap_tree[j].stable_node].chain )
        => content[map[i]] = content[map[j]]

\* After quiet rounds a page that is alone in its frame has no page to share
\* with: every page of the same content is in a full node, unless the server's
\* chains mix contents or have lost their place in the table.
Converges ==
    (quiet = MaxQuiet /\ ~clashed /\ ~discarded /\ ChainsPure) =>
        \A i, j \in Items :
            ( /\ i # j /\ map[i] # NoPfn /\ map[j] # NoPfn
              /\ frame[map[i]] = "anon"
              /\ content[map[i]] = content[map[j]] )
            => Cardinality(HList(map[j])) = MAX_PAGE_SHARING

\* The guests' memory: deduplication implements GuestMemory.
Memory == [i \in Items |-> IF map[i] = NoPfn THEN NullHash ELSE content[map[i]]]

Guests == INSTANCE GuestMemory WITH mem <- Memory, ops <- writes

GuestsUndisturbed == Guests!Spec
=============================================================================
