-------------------------- MODULE BaskJoint_proofs --------------------------
(***************************************************************************)
(* Host and server together: BaskSystem implements GuestMemory, and what   *)
(* it says about ksm pages and about the failures the host reports, proved *)
(* for every number of pages, frames and contents and every sharing limit, *)
(* with guests that write, touch and give back pages at any time.          *)
(***************************************************************************)
EXTENDS BaskSystem, BaskServer_proofs

-----------------------------------------------------------------------------
(***************************************************************************)
(* Guests do not see deduplication.                                        *)
(*                                                                         *)
(* The proof uses nothing of what the server does: the host's checks alone *)
(* (the page is still mapped where it was listed, the two pages are still  *)
(* identical, the frame has a stable node) keep guest memory intact,       *)
(* whatever log the server sends.                                          *)
(***************************************************************************)

\* A frame that two pages are mapped to is a ksm page, and so write-protected.
PlainExclusive ==
  \A i, j \in Items :
    (i # j /\ map[i] # NoPfn /\ map[i] = map[j]) => frame[map[i]] # "anon"

GuestInv == SystemTypeOK /\ PlainExclusive

\* What a step may do to guest memory.
GuestSees == Guests!Next \/ UNCHANGED <<Memory, writes>>

-----------------------------------------------------------------------------
\* A frame that the allocator hands out is mapped by no page.
LEMMA FreeFramesUnmapped ==
  ASSUME NEW p \in FreeFrames
  PROVE  p \in Pfns /\ p # NoPfn /\ \A j \in Items : map[j] # p
  BY ServerAssumption DEF FreeFrames, Mapped

\* Giving page i a new frame with content v is, for the guests, a change of
\* page i to v.
LEMMA MoveToMemory ==
  ASSUME GuestInv, NEW i \in Items, NEW p \in FreeFrames,
         NEW v \in Hashes \cup {NullHash},
         map' = [map EXCEPT ![i] = p],
         content' = [content EXCEPT ![p] = v]
  PROVE  /\ map' \in [Items -> Pfns \cup {NoPfn}]
         /\ content' \in [Pfns -> Hashes \cup {NullHash}]
         /\ Memory' = [Memory EXCEPT ![i] = v]
<1>1. p \in Pfns /\ p # NoPfn /\ \A j \in Items : map[j] # p
  BY FreeFramesUnmapped
<1>2. map \in [Items -> Pfns \cup {NoPfn}] /\ content \in [Pfns -> Hashes \cup {NullHash}]
  BY DEF GuestInv, SystemTypeOK
<1>3. map'[i] = p /\ content'[p] = v
  BY <1>1, <1>2
<1>4. ASSUME NEW j \in Items, j # i
      PROVE  map'[j] = map[j] /\ (map[j] # NoPfn => content'[map[j]] = content[map[j]])
  BY <1>1, <1>2, <1>4
<1>5. Memory' = [Memory EXCEPT ![i] = v]
  <2>1. Memory' = [j \in Items |-> IF map'[j] = NoPfn THEN NullHash ELSE content'[map'[j]]]
    BY DEF Memory
  <2>2. \A j \in Items : Memory'[j] = IF j = i THEN v ELSE Memory[j]
    BY <1>1, <1>3, <1>4, <2>1 DEF Memory
  <2>3. Memory' = [j \in Items |-> IF j = i THEN v ELSE Memory[j]]
    BY <2>1, <2>2
  <2>4. QED
    BY <2>3 DEF Memory
<1>6. QED
  BY <1>1, <1>2, <1>5

\* After it every shared frame is a ksm page still.
LEMMA MoveToExclusive ==
  ASSUME GuestInv, NEW i \in Items, NEW p \in FreeFrames, NEW k \in Pfns,
         map' = [map EXCEPT ![i] = p],
         frame' \in [Pfns -> FrameKinds],
         \A q \in Pfns \ {p} : frame'[q] = frame[q] \/ frame'[q] # "anon"
  PROVE  PlainExclusive'
<1>1. p \in Pfns /\ p # NoPfn /\ \A j \in Items : map[j] # p
  BY FreeFramesUnmapped
<1>2. map \in [Items -> Pfns \cup {NoPfn}]
  BY DEF GuestInv, SystemTypeOK
<1>3. SUFFICES ASSUME NEW a \in Items, NEW b \in Items, a # b,
                      map'[a] # NoPfn, map'[a] = map'[b]
               PROVE  frame'[map'[a]] # "anon"
  BY DEF PlainExclusive
<1>4. a # i /\ b # i
  BY <1>1, <1>2, <1>3
<1>5. map'[a] = map[a] /\ map'[b] = map[b] /\ map[a] \in Pfns \ {p}
  BY <1>1, <1>2, <1>3, <1>4
<1>6. frame[map[a]] # "anon"
  BY <1>3, <1>5 DEF GuestInv, PlainExclusive
<1>7. QED
  BY <1>5, <1>6

\* A step of the guests that moves a page to a new frame.
LEMMA MoveToStep ==
  ASSUME GuestInv, NEW i \in Items, NEW p \in FreeFrames, NEW v \in Hashes,
         MoveTo(i, p, v)
  PROVE  /\ map' \in [Items -> Pfns \cup {NoPfn}]
         /\ content' \in [Pfns -> Hashes \cup {NullHash}]
         /\ frame' \in [Pfns -> FrameKinds]
         /\ PlainExclusive'
         /\ Memory' = [Memory EXCEPT ![i] = v]
<1>1. p \in Pfns /\ p # NoPfn /\ \A j \in Items : map[j] # p
  BY FreeFramesUnmapped
<1>2. frame' \in [Pfns -> FrameKinds]
  BY <1>1 DEF MoveTo, GuestInv, SystemTypeOK, FrameKinds
<1>3. \A q \in Pfns \ {p} : frame'[q] = frame[q]
  BY <1>1 DEF MoveTo, GuestInv, SystemTypeOK
<1>4. PlainExclusive'
  BY <1>1, <1>2, <1>3, MoveToExclusive DEF MoveTo
<1>5. QED
  BY <1>2, <1>4, MoveToMemory DEF MoveTo

\* Counting the guest operations.
LEMMA GuestStepsCount ==
  ASSUME SystemTypeOK, GuestSteps
  PROVE  writes' = writes + 1 /\ writes' \in 0..MaxWrites /\ quiet' \in 0..MaxQuiet
  BY SystemAssumption DEF SystemTypeOK, GuestSteps

-----------------------------------------------------------------------------
(***************************************************************************)
(* Guest steps                                                             *)
(***************************************************************************)

\* A write keeps the invariant and is an operation of GuestMemory.
LEMMA WriteStep ==
  ASSUME GuestInv, NEW i \in Items, NEW v \in Hashes, Write(i, v)
  PROVE  GuestInv' /\ GuestSees
<1>1. /\ writes' = writes + 1 /\ writes' \in 0..MaxWrites /\ quiet' \in 0..MaxQuiet
  BY GuestStepsCount DEF Write, GuestInv
<1>2. /\ map \in [Items -> Pfns \cup {NoPfn}]
      /\ content \in [Pfns -> Hashes \cup {NullHash}]
      /\ frame \in [Pfns -> FrameKinds]
      /\ map[i] \in Pfns
  BY DEF GuestInv, SystemTypeOK, Write
<1>3. /\ map' \in [Items -> Pfns \cup {NoPfn}]
      /\ content' \in [Pfns -> Hashes \cup {NullHash}]
      /\ frame' \in [Pfns -> FrameKinds]
      /\ PlainExclusive'
      /\ Memory' = [Memory EXCEPT ![i] = v]
  <2>1. CASE /\ WritableInPlace(map[i])
             /\ content' = [content EXCEPT ![map[i]] = v]
             /\ UNCHANGED <<map, frame>>
    <3>1. content' \in [Pfns -> Hashes \cup {NullHash}]
      BY <1>2, <2>1
    <3>2. PlainExclusive'
      BY <2>1 DEF PlainExclusive, GuestInv
    <3>3. ASSUME NEW j \in Items, j # i, map[j] # NoPfn
          PROVE  content'[map[j]] = content[map[j]]
      <4>1. map[j] # map[i]
        BY <1>2, <2>1, <3>3 DEF WritableInPlace, GuestInv, PlainExclusive
      <4>2. QED
        BY <1>2, <2>1, <3>3, <4>1
    <3>4. content'[map[i]] = v /\ map[i] # NoPfn
      BY <1>2, <2>1 DEF Write
    <3>5. Memory' = [Memory EXCEPT ![i] = v]
      BY <2>1, <3>3, <3>4 DEF Memory
    <3>6. QED
      BY <1>2, <2>1, <3>1, <3>2, <3>5
  <2>2. CASE \E p \in FreeFrames : MoveTo(i, p, v)
    BY <2>2, MoveToStep
  <2>3. QED
    BY <2>1, <2>2 DEF Write
<1>4. GuestInv'
  BY <1>1, <1>3 DEF GuestInv, SystemTypeOK, Write, guestRest
<1>5. Guests!Next
  BY <1>1, <1>3 DEF Guests!Next, Guests!GuestOp
<1>6. QED
  BY <1>4, <1>5 DEF GuestSees

\* The first touch of a page.
LEMMA FaultStep ==
  ASSUME GuestInv, NEW i \in Items, NEW v \in Hashes, Fault(i, v)
  PROVE  GuestInv' /\ GuestSees
<1>1. /\ writes' = writes + 1 /\ writes' \in 0..MaxWrites /\ quiet' \in 0..MaxQuiet
  BY GuestStepsCount DEF Fault, GuestInv
<1>2. /\ map' \in [Items -> Pfns \cup {NoPfn}]
      /\ content' \in [Pfns -> Hashes \cup {NullHash}]
      /\ frame' \in [Pfns -> FrameKinds]
      /\ PlainExclusive'
      /\ Memory' = [Memory EXCEPT ![i] = v]
  BY MoveToStep DEF Fault
<1>3. GuestInv'
  BY <1>1, <1>2 DEF GuestInv, SystemTypeOK, Fault, guestRest
<1>4. Guests!Next
  BY <1>1, <1>2 DEF Guests!Next, Guests!GuestOp
<1>5. QED
  BY <1>3, <1>4 DEF GuestSees

\* A page that is given back.
LEMMA DiscardStep ==
  ASSUME GuestInv, NEW i \in Items, Discard(i)
  PROVE  GuestInv' /\ GuestSees
<1>1. /\ writes' = writes + 1 /\ writes' \in 0..MaxWrites /\ quiet' \in 0..MaxQuiet
  BY GuestStepsCount DEF Discard, GuestInv
<1>2. /\ map' \in [Items -> Pfns \cup {NoPfn}]
      /\ map'[i] = NoPfn
      /\ \A j \in Items \ {i} : map'[j] = map[j]
  BY DEF Discard, GuestInv, SystemTypeOK
<1>3. PlainExclusive'
  BY <1>2 DEF PlainExclusive, GuestInv, Discard
<1>4. Memory' = [Memory EXCEPT ![i] = NullHash]
  BY <1>2 DEF Memory, Discard
<1>5. GuestInv'
  BY <1>1, <1>2, <1>3 DEF GuestInv, SystemTypeOK, Discard, guestRest
<1>6. Guests!Next
  BY <1>1, <1>4 DEF Guests!Next, Guests!GuestOp
<1>7. QED
  BY <1>5, <1>6 DEF GuestSees

-----------------------------------------------------------------------------
(***************************************************************************)
(* Host steps                                                              *)
(***************************************************************************)

\* A step that leaves the frames and the page tables alone shows the guests
\* nothing.
LEMMA NothingMoved ==
  ASSUME GuestInv, UNCHANGED <<map, content, frame, writes>>
  PROVE  PlainExclusive' /\ GuestSees
  BY DEF GuestInv, PlainExclusive, GuestSees, Memory

\* The walk lists a page.
LEMMA ScanStep ==
  ASSUME GuestInv, scan_pte_entry
  PROVE  GuestInv' /\ GuestSees
<1>1. PlainExclusive' /\ GuestSees
  BY NothingMoved DEF scan_pte_entry, guestVars
<1>2. cursor' \in Nat /\ cursor \in Items
  BY DEF scan_pte_entry, GuestInv, SystemTypeOK
<1>3. shadow' \in [Items -> Pfns \cup {NoPfn}]
  BY <1>2 DEF scan_pte_entry, GuestInv, SystemTypeOK
<1>4. get_next_rmap_item(cursor) \in [Items -> HostItemRec]
  <2>1. ASSUME NEW i \in Items
        PROVE  /\ hitem[i] \in HostItemRec
               /\ FreshHostItem \in HostItemRec /\ NoHostItem \in HostItemRec
    BY DEF GuestInv, SystemTypeOK, HostItemRec, FreshHostItem, NoHostItem
  <2>2. QED
    BY <2>1 DEF get_next_rmap_item
<1>5. hitem' \in [Items -> HostItemRec]
  BY <1>4 DEF scan_pte_entry, GuestInv, SystemTypeOK
<1>6. SystemTypeOK'
  BY <1>2, <1>3, <1>5 DEF scan_pte_entry, GuestInv, SystemTypeOK, guestVars
<1>7. QED
  BY <1>1, <1>6 DEF GuestInv

\* The other steps outside apply_result.
LEMMA RoundStep ==
  ASSUME GuestInv,
         NothingListed \/ rdma_send_metadata \/ recv_offload_result \/ destroy_metadata
  PROVE  GuestInv' /\ GuestSees
<1>1. CASE NothingListed
  <2>1. PlainExclusive' /\ GuestSees
    BY <1>1, NothingMoved DEF NothingListed, guestVars
  <2>2. hitem' \in [Items -> HostItemRec]
    BY <1>1 DEF NothingListed, HostItemRec, NoHostItem
  <2>3. SystemTypeOK'
    BY <1>1, <2>2 DEF NothingListed, GuestInv, SystemTypeOK, guestVars
  <2>4. QED
    BY <2>1, <2>3 DEF GuestInv
<1>2. CASE rdma_send_metadata
  <2>1. PlainExclusive' /\ GuestSees
    BY <1>2, NothingMoved DEF rdma_send_metadata, guestVars
  <2>2. SystemTypeOK'
    BY <1>2 DEF rdma_send_metadata, GuestInv, SystemTypeOK, guestVars
  <2>3. QED
    BY <2>1, <2>2 DEF GuestInv
<1>3. CASE recv_offload_result
  <2>1. PlainExclusive' /\ GuestSees
    BY <1>3, NothingMoved DEF recv_offload_result, guestVars
  <2>2. SystemTypeOK'
    BY <1>3 DEF recv_offload_result, GuestInv, SystemTypeOK, guestVars
  <2>3. QED
    BY <2>1, <2>2 DEF GuestInv
<1>4. CASE destroy_metadata
  <2>1. PlainExclusive' /\ GuestSees
    BY <1>4, NothingMoved DEF destroy_metadata, guestVars
  <2>2. KeptReferences \in SUBSET Pfns
    BY DEF KeptReferences, Listed, GuestInv, SystemTypeOK
  <2>3. quiet' \in 0..MaxQuiet
    BY <1>4, SystemAssumption DEF destroy_metadata, GuestInv, SystemTypeOK
  <2>4. pinned' \in SUBSET Pfns
    BY <1>4, <2>2 DEF destroy_metadata, GuestInv, SystemTypeOK
  <2>5. SystemTypeOK'
    BY <1>4, <2>3, <2>4 DEF destroy_metadata, GuestInv, SystemTypeOK, guestVars
  <2>6. QED
    BY <2>1, <2>5 DEF GuestInv
<1>5. QED
  BY <1>1, <1>2, <1>3, <1>4

-----------------------------------------------------------------------------
(***************************************************************************)
(* apply_result                                                            *)
(***************************************************************************)

\* A listed page has a frame.
LEMMA ListedFrame ==
  ASSUME SystemTypeOK, NEW i \in Listed
  PROVE  i \in Items /\ shadow[i] \in Pfns
  BY DEF Listed, SystemTypeOK

\* The record operations on the items of the host keep their type.
LEMMA HostItemTypes ==
  ASSUME NEW it \in HostItemRec, NEW k \in Pfns
  PROVE  /\ stable_tree_append(it, k) \in HostItemRec
         /\ FailedItem(it, k) \in HostItemRec
         /\ remove_rmap_item_from_tree(it) \in HostItemRec
  BY DEF HostItemRec, stable_tree_append, FailedItem, remove_rmap_item_from_tree

\* A merge into a node, or an entry that changes no mapping.
LEMMA StableMergeDoneStep ==
  ASSUME GuestInv, StableMergeDone
  PROVE  GuestInv' /\ GuestSees
<1> DEFINE i == Entry.from
           k == Entry.kpfn
<1>1. i \in Listed /\ HasStableNode(k) /\ k \in Pfns /\ frame[k] = "node" /\ k # NoPfn
  BY ServerAssumption DEF StableMergeDone, EntryApplies, HasStableNode, Applying
<1>2. i \in Items /\ shadow[i] \in Pfns
  BY <1>1, ListedFrame DEF GuestInv
<1>3. /\ map \in [Items -> Pfns \cup {NoPfn}]
      /\ content \in [Pfns -> Hashes \cup {NullHash}]
      /\ hitem \in [Items -> HostItemRec]
      /\ applied \in Nat
  BY DEF GuestInv, SystemTypeOK
<1>4. hitem' \in [Items -> HostItemRec]
  <2>1. hitem' = [hitem EXCEPT ![i] = stable_tree_append(hitem[i], k)]
    BY DEF StableMergeDone
  <2>2. stable_tree_append(hitem[i], k) \in HostItemRec
    BY <1>1, <1>2, <1>3, HostItemTypes
  <2> HIDE DEF i, k
  <2>3. QED
    BY <1>3, <2>1, <2>2
<1>5. UNCHANGED <<content, frame, writes>>
  BY DEF StableMergeDone, applyRest
<1>6. /\ map' \in [Items -> Pfns \cup {NoPfn}]
      /\ PlainExclusive'
      /\ UNCHANGED <<Memory, writes>>
  <2>1. CASE UNCHANGED map
    BY <1>3, <1>5, <2>1, NothingMoved DEF GuestInv, PlainExclusive, Memory
  <2>2. CASE /\ StillMapped(i)
             /\ pages_identical(shadow[i], k)
             /\ map' = [map EXCEPT ![i] = k]
    <3>1. map[i] = shadow[i] /\ content[map[i]] = content[k] /\ map[i] # NoPfn
      BY <1>2, <2>2 DEF StillMapped, pages_identical
    <3>2. /\ map' \in [Items -> Pfns \cup {NoPfn}]
          /\ map'[i] = k
          /\ \A j \in Items \ {i} : map'[j] = map[j]
      BY <1>1, <1>2, <1>3, <2>2
    <3> HIDE DEF i, k
    <3>3. Memory' = Memory
      BY <1>1, <1>2, <1>5, <3>1, <3>2 DEF Memory
    <3>4. PlainExclusive'
      BY <1>1, <1>2, <1>5, <3>2 DEF PlainExclusive, GuestInv
    <3>5. QED
      BY <1>5, <3>2, <3>3, <3>4
  <2>3. QED
    BY <2>1, <2>2 DEF StableMergeDone
<1>7. applied' \in Nat
  BY <1>3 DEF StableMergeDone, Applying
<1>8. SystemTypeOK'
  BY <1>4, <1>5, <1>6, <1>7 DEF StableMergeDone, applyRest, GuestInv, SystemTypeOK
<1>9. QED
  BY <1>6, <1>8 DEF GuestInv, GuestSees

\* A merge that is passed over, one that fails, and an item that leaves its
\* node: no mapping changes.
LEMMA EntryStep ==
  ASSUME GuestInv,
         StableMergeSkipped \/ StableMergeFailed \/ ItemStateChange \/ debug_stop
  PROVE  GuestInv' /\ GuestSees
<1>1. UNCHANGED <<map, content, frame, writes>>
  BY DEF StableMergeSkipped, StableMergeFailed, ItemStateChange, debug_stop,
         applyRest, guestVars
<1>2. PlainExclusive' /\ GuestSees
  BY <1>1, NothingMoved
<1>3. hitem \in [Items -> HostItemRec] /\ applied \in Nat /\ errtab \in SUBSET ErrRec
  BY DEF GuestInv, SystemTypeOK
<1>4. SystemTypeOK'
  <2>1. CASE StableMergeSkipped
    BY <1>1, <2>1 DEF StableMergeSkipped, Applying, SkipErrors, applyRest,
                      GuestInv, SystemTypeOK
  <2>2. CASE StableMergeFailed
    <3> DEFINE i == Entry.from
               k == Entry.kpfn
    <3>1. i \in Listed /\ k \in Pfns
      BY <2>2 DEF StableMergeFailed, EntryApplies, HasStableNode, Applying
    <3>2. i \in Items
      BY <3>1 DEF Listed
    <3>3. FailedItem(hitem[i], k) \in HostItemRec
      BY <1>3, <3>1, <3>2, HostItemTypes
    <3>4. hitem' = [hitem EXCEPT ![i] = FailedItem(hitem[i], k)]
      BY <2>2 DEF StableMergeFailed
    <3>5. errtab' = errtab \cup {[type |-> "MERGE_ONE_FAILED", from |-> i, kpfn |-> k]}
      BY <2>2 DEF StableMergeFailed, insert_error_log
    <3>6. quiet' \in 0..MaxQuiet /\ applied' \in Nat
      BY <1>3, <2>2, SystemAssumption DEF StableMergeFailed, Applying
    <3> HIDE DEF i, k
    <3>7. hitem' \in [Items -> HostItemRec]
      BY <1>3, <3>3, <3>4
    <3>8. errtab' \in SUBSET ErrRec
      BY <1>3, <3>1, <3>2, <3>5 DEF ErrRec
    <3>9. QED
      BY <2>2, <3>6, <3>7, <3>8 DEF StableMergeFailed, applyRest, GuestInv, SystemTypeOK
  <2>3. CASE ItemStateChange
    <3> DEFINE i == Entry.from
    <3>1. i \in Items
      BY <2>3 DEF ItemStateChange, EntryApplies, Applying, Listed
    <3>2. remove_rmap_item_from_tree(hitem[i]) \in HostItemRec
      <4>1. hitem[i] \in HostItemRec
        BY <1>3, <3>1
      <4> HIDE DEF i
      <4>2. QED
        BY <4>1 DEF remove_rmap_item_from_tree, HostItemRec
    <3>3. hitem' = [hitem EXCEPT ![i] = remove_rmap_item_from_tree(hitem[i])]
      BY <2>3 DEF ItemStateChange
    <3>4. applied' \in Nat
      BY <1>3, <2>3 DEF ItemStateChange, Applying
    <3> HIDE DEF i
    <3>5. hitem' \in [Items -> HostItemRec]
      BY <1>3, <3>2, <3>3
    <3>6. QED
      BY <2>3, <3>4, <3>5 DEF ItemStateChange, applyRest, GuestInv, SystemTypeOK
  <2>4. CASE debug_stop
    BY <2>4 DEF debug_stop, guestVars, GuestInv, SystemTypeOK
  <2>5. QED
    BY <2>1, <2>2, <2>3, <2>4
<1>5. QED
  BY <1>2, <1>4 DEF GuestInv

\* Two pages become one ksm page.
LEMMA UnstableMergeDoneStep ==
  ASSUME GuestInv, UnstableMergeDone
  PROVE  GuestInv' /\ GuestSees
<1> DEFINE i == Entry.from
           j == Entry.to
           k == shadow[i]
<1>1. i \in Listed /\ j \in Listed
  BY DEF UnstableMergeDone, EntryApplies, Applying
<1>2. i \in Items /\ j \in Items /\ k \in Pfns /\ shadow[j] \in Pfns /\ k # NoPfn
  BY <1>1, ListedFrame, ServerAssumption DEF GuestInv
<1>3. /\ map \in [Items -> Pfns \cup {NoPfn}]
      /\ content \in [Pfns -> Hashes \cup {NullHash}]
      /\ frame \in [Pfns -> FrameKinds]
      /\ hitem \in [Items -> HostItemRec]
      /\ hnode \in SUBSET Pfns
      /\ applied \in Nat
  BY DEF GuestInv, SystemTypeOK
<1>4. /\ map[j] = shadow[j] /\ map[j] # NoPfn
      /\ content[map[j]] = content[k]
      /\ map' = [map EXCEPT ![j] = k]
      /\ frame' = [frame EXCEPT ![k] = "node"]
      /\ hnode' = hnode \cup {k}
  BY DEF UnstableMergeDone, StillMapped, pages_identical
<1>5. hitem' = [m \in Items |-> IF m \in {i, j} THEN stable_tree_append(hitem[m], k)
                                               ELSE hitem[m]]
  BY DEF UnstableMergeDone, BothAppended
<1>6. UNCHANGED <<content, writes>>
  BY DEF UnstableMergeDone, applyRest
<1>7. applied' \in Nat
  BY <1>3 DEF UnstableMergeDone, Applying
<1> HIDE DEF i, j, k
<1>8. hitem' \in [Items -> HostItemRec]
  <2>1. ASSUME NEW m \in Items
        PROVE  hitem[m] \in HostItemRec /\ stable_tree_append(hitem[m], k) \in HostItemRec
    BY <1>2, <1>3, HostItemTypes
  <2>2. QED
    BY <1>5, <2>1
<1>9. /\ map' \in [Items -> Pfns \cup {NoPfn}]
      /\ frame' \in [Pfns -> FrameKinds]
      /\ hnode' \in SUBSET Pfns
  BY <1>2, <1>3, <1>4 DEF FrameKinds
<1>10. /\ map'[j] = k
       /\ \A m \in Items \ {j} : map'[m] = map[m]
       /\ frame'[k] = "node"
       /\ \A q \in Pfns \ {k} : frame'[q] = frame[q]
  BY <1>2, <1>3, <1>4
<1>11. Memory' = Memory
  BY <1>2, <1>4, <1>6, <1>10 DEF Memory
<1>12. PlainExclusive'
  <2>1. SUFFICES ASSUME NEW a \in Items, NEW b \in Items, a # b,
                        map'[a] # NoPfn, map'[a] = map'[b]
                 PROVE  frame'[map'[a]] # "anon"
    BY DEF PlainExclusive
  <2>2. CASE map'[a] = k
    BY <1>10, <2>2
  <2>3. CASE map'[a] # k
    <3>1. map'[a] = map[a] /\ map'[b] = map[b] /\ map[a] \in Pfns \ {k}
      BY <1>3, <1>10, <2>1, <2>3
    <3>2. frame[map[a]] # "anon"
      BY <2>1, <3>1 DEF GuestInv, PlainExclusive
    <3>3. QED
      BY <1>10, <3>1, <3>2
  <2>4. QED
    BY <2>2, <2>3
<1>13. SystemTypeOK'
  BY <1>6, <1>7, <1>8, <1>9 DEF UnstableMergeDone, applyRest, GuestInv, SystemTypeOK
<1>14. QED
  BY <1>6, <1>11, <1>12, <1>13 DEF GuestInv, GuestSees

\* The promotion of a page that is undone gives the guest a copy of it.
LEMMA PromotionUndoneStep ==
  ASSUME GuestInv, NEW i \in Items, NEW k \in Pfns, map[i] = k,
         PromotionUndone(i, k)
  PROVE  /\ map' \in [Items -> Pfns \cup {NoPfn}]
         /\ content' \in [Pfns -> Hashes \cup {NullHash}]
         /\ frame' \in [Pfns -> FrameKinds]
         /\ PlainExclusive'
         /\ Memory' = Memory
<1>1. PICK p \in FreeFrames :
        /\ map' = [map EXCEPT ![i] = p]
        /\ content' = [content EXCEPT ![p] = content[k]]
        /\ frame' = [frame EXCEPT ![p] = "anon", ![k] = "ksm"]
  BY DEF PromotionUndone
<1>2. p \in Pfns /\ p # NoPfn /\ \A j \in Items : map[j] # p
  BY FreeFramesUnmapped
<1>3. content[k] \in Hashes \cup {NullHash} /\ frame \in [Pfns -> FrameKinds]
  BY DEF GuestInv, SystemTypeOK
<1>4. /\ map' \in [Items -> Pfns \cup {NoPfn}]
      /\ content' \in [Pfns -> Hashes \cup {NullHash}]
      /\ Memory' = [Memory EXCEPT ![i] = content[k]]
  BY <1>1, <1>3, MoveToMemory
<1>5. Memory' = Memory
  <2>1. Memory[i] = content[k]
    BY ServerAssumption DEF Memory
  <2>2. QED
    BY <1>4, <2>1 DEF Memory
<1>6. /\ frame' \in [Pfns -> FrameKinds]
      /\ \A q \in Pfns \ {p} : frame'[q] = frame[q] \/ frame'[q] # "anon"
  BY <1>1, <1>2, <1>3 DEF FrameKinds
<1>7. PlainExclusive'
  BY <1>1, <1>6, MoveToExclusive
<1>8. QED
  BY <1>4, <1>5, <1>6, <1>7

\* An unstable merge that fails.
LEMMA UnstableMergeFailedStep ==
  ASSUME GuestInv, UnstableMergeFailed
  PROVE  GuestInv' /\ GuestSees
<1> DEFINE i == Entry.from
           j == Entry.to
           k == shadow[i]
<1>1. i \in Listed /\ j \in Listed
  BY DEF UnstableMergeFailed, EntryApplies, Applying
<1>2. i \in Items /\ j \in Items /\ k \in Pfns
  BY <1>1, ListedFrame DEF GuestInv
<1>3. /\ hitem \in [Items -> HostItemRec]
      /\ errtab \in SUBSET ErrRec
      /\ applied \in Nat
  BY DEF GuestInv, SystemTypeOK
<1>4. /\ map' \in [Items -> Pfns \cup {NoPfn}]
      /\ content' \in [Pfns -> Hashes \cup {NullHash}]
      /\ frame' \in [Pfns -> FrameKinds]
      /\ PlainExclusive'
      /\ Memory' = Memory
  <2>1. CASE UNCHANGED <<map, content, frame>>
    BY <2>1 DEF GuestInv, SystemTypeOK, PlainExclusive, Memory
  <2>2. CASE StillMapped(i) /\ PromotionUndone(i, k)
    <3>1. map[i] = k
      BY <2>2 DEF StillMapped
    <3>2. QED
      BY <1>2, <2>2, <3>1, PromotionUndoneStep
  <2>3. QED
    BY <2>1, <2>2 DEF UnstableMergeFailed
<1>5. /\ hitem' = [m \in Items |-> IF m \in {i, j} THEN remove_rmap_item_from_tree(hitem[m])
                                                  ELSE hitem[m]]
      /\ errtab' = errtab \cup {[type |-> "MERGE_TWO_FAILED", from |-> i, to |-> j]}
      /\ writes' = writes
  BY DEF UnstableMergeFailed, BothRemoved, insert_error_log, applyRest
<1>6. quiet' \in 0..MaxQuiet /\ applied' \in Nat
  BY <1>3, SystemAssumption DEF UnstableMergeFailed, Applying
<1> HIDE DEF i, j, k
<1>7. hitem' \in [Items -> HostItemRec]
  <2>1. ASSUME NEW m \in Items
        PROVE  hitem[m] \in HostItemRec /\ remove_rmap_item_from_tree(hitem[m]) \in HostItemRec
    BY <1>2, <1>3, HostItemTypes
  <2>2. QED
    BY <1>5, <2>1
<1>8. errtab' \in SUBSET ErrRec
  BY <1>2, <1>3, <1>5 DEF ErrRec
<1>9. SystemTypeOK'
  BY <1>4, <1>6, <1>7, <1>8 DEF UnstableMergeFailed, applyRest, GuestInv, SystemTypeOK
<1>10. QED
  BY <1>4, <1>5, <1>9 DEF GuestInv, GuestSees

\* A stable node is freed; its frame stays a ksm page.
LEMMA StaleStableNodeStep ==
  ASSUME GuestInv, StaleStableNode
  PROVE  GuestInv' /\ GuestSees
<1> DEFINE k == Entry.kpfn
<1>1. k \in Pfns
  BY DEF StaleStableNode, EntryApplies, HasStableNode, Applying
<1>2. /\ frame' = [frame EXCEPT ![k] = "ksm"]
      /\ hnode' = hnode \ {k}
      /\ hitem' = remove_node_from_stable_tree(k)
      /\ UNCHANGED <<map, content, writes>>
  BY DEF StaleStableNode, applyRest
<1>3. /\ frame \in [Pfns -> FrameKinds]
      /\ hnode \in SUBSET Pfns
      /\ hitem \in [Items -> HostItemRec]
      /\ applied \in Nat
      /\ map \in [Items -> Pfns \cup {NoPfn}]
  BY DEF GuestInv, SystemTypeOK
<1>4. applied' \in Nat
  BY <1>3 DEF StaleStableNode, Applying
<1> HIDE DEF k
<1>5. frame' \in [Pfns -> FrameKinds] /\ hnode' \in SUBSET Pfns
  BY <1>1, <1>2, <1>3 DEF FrameKinds
<1>6. hitem' \in [Items -> HostItemRec]
  <2>1. ASSUME NEW i \in Items
        PROVE  /\ hitem[i] \in HostItemRec
               /\ [hitem[i] EXCEPT !.stable = FALSE] \in HostItemRec
    BY <1>3 DEF HostItemRec
  <2>2. QED
    BY <1>2, <2>1 DEF remove_node_from_stable_tree
<1>7. PlainExclusive'
  <2>1. \A q \in Pfns : frame'[q] = frame[q] \/ frame'[q] # "anon"
    BY <1>1, <1>2, <1>3
  <2>2. QED
    BY <1>2, <1>3, <2>1 DEF GuestInv, PlainExclusive
<1>8. GuestSees
  BY <1>2 DEF GuestSees, Memory
<1>9. SystemTypeOK'
  BY <1>2, <1>4, <1>5, <1>6 DEF StaleStableNode, applyRest, GuestInv, SystemTypeOK
<1>10. QED
  BY <1>7, <1>8, <1>9 DEF GuestInv

-----------------------------------------------------------------------------
(***************************************************************************)
(* The theorems                                                            *)
(***************************************************************************)

\* The invariant holds when the address space is first listed.
LEMMA InitGuestInv == SystemInit => GuestInv /\ Guests!Init
<1> SUFFICES ASSUME SystemInit PROVE GuestInv /\ Guests!Init
  OBVIOUS
<1>1. SystemTypeOK
  <2>1. /\ hitem \in [Items -> HostItemRec]
        /\ frame \in [Pfns -> FrameKinds]
        /\ shadow \in [Items -> Pfns \cup {NoPfn}]
    BY DEF SystemInit, HostItemRec, NoHostItem, FrameKinds
  <2>2. /\ cursor \in Nat /\ applied \in Nat
        /\ writes \in 0..MaxWrites /\ quiet \in 0..MaxQuiet
    BY SystemAssumption DEF SystemInit
  <2>3. QED
    BY <2>1, <2>2 DEF SystemInit, SystemTypeOK
<1>2. PlainExclusive
  BY DEF SystemInit, PlainExclusive
<1>3. Memory \in [Items -> Hashes \cup {NullHash}]
  <2>1. ASSUME NEW i \in Items, map[i] # NoPfn
        PROVE  content[map[i]] \in Hashes \cup {NullHash}
    BY <1>1, <2>1 DEF SystemTypeOK
  <2>2. QED
    BY <2>1 DEF Memory
<1>4. Guests!Init
  BY <1>3 DEF Guests!Init, SystemInit
<1>5. QED
  BY <1>1, <1>2, <1>4 DEF GuestInv

\* Every step keeps the invariant, and is an operation of the guest or
\* invisible to it.
LEMMA NextGuestInv ==
  GuestInv /\ [SystemNext]_sysVars => GuestInv' /\ [Guests!Next]_<<Memory, writes>>
<1> SUFFICES ASSUME GuestInv, [SystemNext]_sysVars
             PROVE  GuestInv' /\ GuestSees
  BY DEF GuestSees
<1>1. CASE GuestStep
  BY <1>1, WriteStep, FaultStep, DiscardStep DEF GuestStep
<1>2. CASE HostStep
  <2>1. CASE apply_result
    BY <2>1, EntryStep, StableMergeDoneStep, UnstableMergeDoneStep,
       UnstableMergeFailedStep, StaleStableNodeStep DEF apply_result
  <2>2. QED
    BY <1>2, <2>1, ScanStep, RoundStep DEF HostStep
<1>3. CASE ServerWorks \/ UNCHANGED sysVars
  <2>1. UNCHANGED hostVars
    BY <1>3 DEF ServerWorks, sysVars
  <2>2. PlainExclusive' /\ GuestSees
    BY <2>1, NothingMoved DEF hostVars, guestVars
  <2>3. SystemTypeOK'
    BY <2>1 DEF hostVars, guestVars, GuestInv, SystemTypeOK
  <2>4. QED
    BY <2>2, <2>3 DEF GuestInv
<1>4. QED
  BY <1>1, <1>2, <1>3 DEF SystemNext

\* Every variable of the host keeps its type, and a frame that two pages share
\* is a ksm page, whatever the server puts into its log.
THEOREM HostInvariant == SystemSpec => [](SystemTypeOK /\ PlainExclusive)
<1>1. SystemInit => GuestInv
  BY InitGuestInv
<1>2. GuestInv /\ [SystemNext]_sysVars => GuestInv'
  BY NextGuestInv
<1>3. GuestInv => SystemTypeOK /\ PlainExclusive
  BY DEF GuestInv
<1>4. QED
  BY <1>1, <1>2, <1>3, PTL DEF SystemSpec

\* Deduplication implements GuestMemory: merging, failing to merge, undoing and
\* dropping stable nodes (apply_result) change no page as its guest sees it,
\* and a guest's own write changes only the page it writes to.
THEOREM GuestsCorrect == SystemSpec => GuestsUndisturbed
<1>1. SystemInit => GuestInv /\ Guests!Init
  BY InitGuestInv
<1>2. GuestInv /\ [SystemNext]_sysVars => GuestInv' /\ [Guests!Next]_<<Memory, writes>>
  BY NextGuestInv
<1>3. QED
  BY <1>1, <1>2, PTL DEF SystemSpec, GuestsUndisturbed, Guests!Spec

-----------------------------------------------------------------------------
(***************************************************************************)
(* Ksm pages and failures.                                                 *)
(*                                                                         *)
(* The argument.  The host never lets go of a frame that has become a ksm  *)
(* page, and a page that is mapped to one was listed with it, so the       *)
(* server knows its item as Stable, in the node of that frame, and nothing *)
(* the host is about to report undoes it.  The entries that take an item   *)
(* out of a node or put it into one are therefore about pages that were    *)
(* anonymous when they were listed, and stay so until the entry is carried *)
(* out.                                                                    *)
(***************************************************************************)

\* Page i is mapped to a ksm page.
Sharer(i) == map[i] # NoPfn /\ frame[map[i]] # "anon"

\* Page i was listed with a frame that is a ksm page.
ListedKsm(i) == shadow[i] # NoPfn /\ frame[shadow[i]] # "anon"

\* For the server, item i shares frame p.
Believed(i, p) ==
  /\ rmap_tree[i].state = "Stable"
  /\ node[rmap_tree[i].stable_node].pfn = p

\* Handling the error entries E takes item i out of its node.
Undone(i, E) ==
  \E e \in E :
    \/ e.from = i
    \/ /\ e.type = "MERGE_TWO_FAILED"
       /\ rmap_tree[e.from].stable_node = rmap_tree[i].stable_node

\* The errors that the server does not know of, or has not handled.
OpenErrs == IF hphase = "offload" THEN errs ELSE errtab

\* The items that a merge or a demotion of the log is about.
MergeItems(r) ==
  IF r.type = "STABLE_MERGE" THEN {r.from}
  ELSE IF r.type = "UNSTABLE_MERGE" THEN {r.from, r.to} ELSE {}

EntryItems(r) == IF r.type = "ITEM_STATE_CHANGE" THEN {r.from} ELSE MergeItems(r)

\* The entries of the log that are not carried out yet.
Pending == {k \in DOMAIN log : hphase = "apply" => k > applied}

-----------------------------------------------------------------------------
\* Where the two sides are.
RoundOK ==
  /\ phase # "down"
  /\ hphase # "offload" => phase = "wait"
  /\ hphase = "offload" => present = Listed
  /\ hphase = "apply" => applied <= Len(log)
  /\ hphase = "walk" =>
       /\ cursor \in 1 .. Cardinality(Items) + 1
       /\ \A i \in Items : i >= cursor => shadow[i] = NoPfn

\* A ksm page is held by the listing or for good, has a stable node exactly
\* while page->mapping says so, and is mapped only while it has.
FramesOK ==
  /\ \A p \in Pfns : frame[p] # "anon" => p \in pinned \/ \E i \in Items : shadow[i] = p
  /\ \A p \in Pfns : frame[p] = "node" <=> p \in hnode
  /\ \A i \in Items : map[i] # NoPfn => frame[map[i]] # "ksm" /\ content[map[i]] \in Hashes
  /\ \A i \in Items : shadow[i] # NoPfn => content[shadow[i]] \in Hashes

\* An anonymous page that is listed is listed once and mapped nowhere else.
ListingExclusive ==
  \A i, j \in Items :
    (i # j /\ shadow[i] # NoPfn /\ (shadow[i] = shadow[j] \/ shadow[i] = map[j]))
      => frame[shadow[i]] # "anon"

\* Listed items and items of a node have an rmap item.
HostItemsOK ==
  \A i \in Items : (hitem[i].stable \/ shadow[i] # NoPfn) => hitem[i].alloc

\* A ksm page that is mapped when it is passed by the walk is listed.
ListingCurrent ==
  /\ hphase = "walk" => \A i \in Items : (Sharer(i) /\ i < cursor) => shadow[i] = map[i]
  /\ hphase = "offload" => \A i \in Items : Sharer(i) => shadow[i] = map[i]

\* The server knows who shares which ksm page, and will not undo it.
ServerKnows ==
  hphase \in {"walk", "offload", "apply"} =>
    \A i \in Items :
      /\ Sharer(i) => Believed(i, map[i]) /\ ~Undone(i, OpenErrs)
      /\ ListedKsm(i) =>
           /\ Believed(i, shadow[i])
           /\ hphase # "apply" => ~Undone(i, OpenErrs)

\* An item is merged once, and taken out of a node only before that.
LogOrder ==
  \A k, l \in DOMAIN log : k < l => EntryItems(log[l]) \cap MergeItems(log[k]) = {}

\* The pages of an entry that is still to be carried out are anonymous.
PendingAnonymous ==
  hphase \in {"offload", "apply"} =>
    \A k \in Pending : \A i \in EntryItems(log[k]) :
      shadow[i] # NoPfn /\ ~ListedKsm(i) /\ ~Sharer(i)

\* The node of an unstable merge has the frame of the page to be promoted.
NewNodeFrames ==
  hphase \in {"offload", "apply"} =>
    \A k \in DOMAIN log : log[k].type = "UNSTABLE_MERGE" =>
      Believed(log[k].from, shadow[log[k].from])

\* The page in hand has the frame it was listed with, unless it has just been
\* taken out of its node.
PageFrame ==
  (hphase = "offload" /\ page # NoPage) =>
    \/ curr.pfn = shadow[page.item]
    \/ curr.state = "Volatile" /\ curr.old_hash = NullHash

\* The entry e reports log entry r.
ReportOf(e, r) ==
  /\ r.from = e.from
  /\ \/ e.type = "MERGE_ONE_FAILED" /\ r.type = "STABLE_MERGE" /\ r.kpfn = e.kpfn
     \/ e.type = "MERGE_TWO_FAILED" /\ r.type = "UNSTABLE_MERGE" /\ r.to = e.to

\* A failed merge was carried out before; the frame of a failed stable merge
\* was a ksm page, that of a failed unstable merge does not become one.
FailuresOK ==
  hphase = "apply" =>
    \A e \in errtab :
      /\ \E k \in 1 .. applied : ReportOf(e, log[k])
      /\ e.type = "MERGE_ONE_FAILED" => e.kpfn \in Pfns /\ frame[e.kpfn] # "anon"
      /\ e.type = "MERGE_TWO_FAILED" =>
           shadow[e.from] # NoPfn /\ frame[shadow[e.from]] # "node"

JointInv ==
  /\ ServerInv
  /\ GuestInv
  /\ RoundOK
  /\ FramesOK
  /\ ListingExclusive
  /\ HostItemsOK
  /\ SharersInHList
  /\ ListingCurrent
  /\ ServerKnows
  /\ LogOrder
  /\ PendingAnonymous
  /\ NewNodeFrames
  /\ PageFrame
  /\ FailuresOK
  /\ ErrorsAreReportable

-----------------------------------------------------------------------------
(***************************************************************************)
(* Frames                                                                  *)
(***************************************************************************)

\* The allocator has no ksm page to hand out, so page->mapping alone tells
\* what a frame is.
LEMMA KsmFrames ==
  ASSUME SystemTypeOK, FramesOK
  PROVE  /\ \A p \in FreeFrames : frame[p] = "anon"
         /\ \A p \in Pfns : HasStableNode(p) <=> frame[p] = "node"
         /\ \A p \in Pfns : PageKsm(p) <=> frame[p] # "anon"
<1>1. \A p \in FreeFrames : p \in Pfns /\ p \notin pinned /\ \A i \in Items : shadow[i] # p
  BY DEF FreeFrames
<1>2. \A p \in FreeFrames : frame[p] = "anon"
  BY <1>1 DEF FramesOK
<1>3. QED
  BY <1>2 DEF HasStableNode, PageKsm

\* A listed or mapped page has a frame.
LEMMA FrameTypes ==
  ASSUME SystemTypeOK, NEW i \in Items
  PROVE  /\ map[i] # NoPfn => map[i] \in Pfns
         /\ shadow[i] # NoPfn => shadow[i] \in Pfns
         /\ hitem[i] \in HostItemRec
  BY DEF SystemTypeOK

-----------------------------------------------------------------------------
(***************************************************************************)
(* Guests                                                                  *)
(***************************************************************************)

\* What the guests do to the host: pages move to free frames or go, and no
\* frame becomes, or ceases to be, a ksm page.
GuestMove ==
  /\ UNCHANGED guestRest
  /\ frame' = frame
  /\ \A i \in Items :
       /\ map'[i] = map[i] \/ map'[i] = NoPfn \/ map'[i] \in FreeFrames
       /\ map'[i] # NoPfn => content'[map'[i]] \in Hashes
       /\ shadow[i] # NoPfn => content'[shadow[i]] \in Hashes

LEMMA GuestStepMoves ==
  ASSUME JointInv, GuestStep
  PROVE  GuestMove
<1>1. SystemTypeOK /\ FramesOK
  BY DEF JointInv, GuestInv
<1>2. /\ map \in [Items -> Pfns \cup {NoPfn}]
      /\ content \in [Pfns -> Hashes \cup {NullHash}]
      /\ frame \in [Pfns -> FrameKinds]
      /\ shadow \in [Items -> Pfns \cup {NoPfn}]
  BY <1>1 DEF SystemTypeOK
<1>3. /\ \A i \in Items : map[i] # NoPfn => content[map[i]] \in Hashes
      /\ \A i \in Items : shadow[i] # NoPfn => content[shadow[i]] \in Hashes
  BY <1>1 DEF FramesOK
<1>4. ASSUME NEW i \in Items, NEW v \in Hashes, NEW p \in FreeFrames,
             MoveTo(i, p, v), UNCHANGED guestRest
      PROVE  GuestMove
  <2>1. p \in Pfns /\ frame[p] = "anon"
    BY <1>1, KsmFrames DEF FreeFrames
  <2>2. frame' = frame
    BY <1>2, <1>4, <2>1 DEF MoveTo
  <2>3. \A j \in Items : map'[j] = IF j = i THEN p ELSE map[j]
    BY <1>2, <1>4 DEF MoveTo
  <2>4. \A q \in Pfns : content'[q] = IF q = p THEN v ELSE content[q]
    BY <1>2, <1>4 DEF MoveTo
  <2>5. ASSUME NEW j \in Items
        PROVE  /\ map'[j] = map[j] \/ map'[j] = NoPfn \/ map'[j] \in FreeFrames
               /\ map'[j] # NoPfn => content'[map'[j]] \in Hashes
               /\ shadow[j] # NoPfn => content'[shadow[j]] \in Hashes
    <3>1. map'[j] = map[j] \/ map'[j] \in FreeFrames
      BY <2>3
    <3>2. map'[j] # NoPfn => content'[map'[j]] \in Hashes
      BY <1>2, <1>3, <2>1, <2>3, <2>4
    <3>3. shadow[j] # NoPfn => content'[shadow[j]] \in Hashes
      BY <1>2, <1>3, <2>1, <2>4
    <3>4. QED
      BY <3>1, <3>2, <3>3
  <2>6. QED
    BY <1>4, <2>2, <2>5 DEF GuestMove
<1>5. ASSUME NEW i \in Items, NEW v \in Hashes, Write(i, v)
      PROVE  GuestMove
  <2>1. UNCHANGED guestRest
    BY <1>5 DEF Write
  <2>2. CASE /\ WritableInPlace(map[i])
             /\ content' = [content EXCEPT ![map[i]] = v]
             /\ UNCHANGED <<map, frame>>
    <3>1. map[i] \in Pfns
      BY <1>2, <1>5 DEF Write
    <3>2. \A q \in Pfns : content[q] \in Hashes => content'[q] \in Hashes
      BY <1>2, <2>2, <3>1
    <3>3. QED
      BY <1>2, <1>3, <2>1, <2>2, <3>2 DEF GuestMove
  <2>3. CASE \E p \in FreeFrames : MoveTo(i, p, v)
    BY <1>4, <2>1, <2>3
  <2>4. QED
    BY <1>5, <2>2, <2>3 DEF Write
<1>6. ASSUME NEW i \in Items, NEW v \in Hashes, Fault(i, v)
      PROVE  GuestMove
  BY <1>4, <1>6 DEF Fault
<1>7. ASSUME NEW i \in Items, Discard(i)
      PROVE  GuestMove
  <2>1. \A j \in Items : map'[j] = IF j = i THEN NoPfn ELSE map[j]
    BY <1>2, <1>7 DEF Discard
  <2>2. UNCHANGED <<content, frame, guestRest>>
    BY <1>7 DEF Discard
  <2>3. QED
    BY <1>3, <2>1, <2>2 DEF GuestMove
<1>8. QED
  BY <1>5, <1>6, <1>7 DEF GuestStep

LEMMA GuestJoint ==
  ASSUME JointInv, GuestInv', GuestMove
  PROVE  JointInv'
<1>1. SystemTypeOK /\ FramesOK
  BY DEF JointInv, GuestInv
<1>2. /\ UNCHANGED vars
      /\ pinned' = pinned /\ hitem' = hitem /\ hnode' = hnode /\ shadow' = shadow
      /\ errtab' = errtab /\ hphase' = hphase /\ cursor' = cursor /\ applied' = applied
      /\ frame' = frame
  BY DEF GuestMove, guestRest
<1>3. /\ phase' = phase /\ present' = present /\ log' = log /\ page' = page /\ errs' = errs
      /\ rmap_tree' = rmap_tree /\ node' = node
  BY <1>2 DEF vars, scanVars, metaVars
<1>4. \A i \in Items : map'[i] = map[i] \/ map'[i] = NoPfn \/ map'[i] \in FreeFrames
  BY DEF GuestMove
<1>5. \A p \in FreeFrames : frame[p] = "anon" /\ \A i \in Items : shadow[i] # p
  BY <1>1, KsmFrames DEF FreeFrames
<1>6. ServerInv'
  BY <1>2, StutterInv DEF JointInv
<1>7. RoundOK'
  BY <1>2, <1>3 DEF JointInv, RoundOK, Listed
<1>8. FramesOK'
  <2>1. \A p \in Pfns : frame'[p] # "anon" => p \in pinned' \/ \E i \in Items : shadow'[i] = p
    BY <1>1, <1>2 DEF FramesOK
  <2>2. \A p \in Pfns : frame'[p] = "node" <=> p \in hnode'
    BY <1>1, <1>2 DEF FramesOK
  <2>3. ASSUME NEW i \in Items, map'[i] # NoPfn
        PROVE  frame'[map'[i]] # "ksm" /\ content'[map'[i]] \in Hashes
    <3>1. content'[map'[i]] \in Hashes
      BY <2>3 DEF GuestMove
    <3>2. frame[map'[i]] # "ksm"
      BY <1>1, <1>4, <1>5, <2>3 DEF FramesOK
    <3>3. QED
      BY <1>2, <3>1, <3>2
  <2>4. \A i \in Items : shadow'[i] # NoPfn => content'[shadow'[i]] \in Hashes
    BY <1>2 DEF GuestMove
  <2>5. QED
    BY <2>1, <2>2, <2>3, <2>4 DEF FramesOK
<1>9. ListingExclusive'
  <2>1. ASSUME NEW i \in Items, NEW j \in Items, i # j, shadow[i] # NoPfn,
               shadow[i] = shadow[j] \/ shadow[i] = map'[j]
        PROVE  frame[shadow[i]] # "anon"
    <3>1. shadow[i] = shadow[j] \/ shadow[i] = map[j]
      BY <1>4, <1>5, <2>1
    <3>2. QED
      BY <2>1, <3>1 DEF JointInv, ListingExclusive
  <2>2. QED
    BY <1>2, <2>1 DEF ListingExclusive
<1>10. HostItemsOK'
  BY <1>2 DEF JointInv, HostItemsOK
<1>11. \A i \in Items : Sharer(i)' => Sharer(i) /\ map'[i] = map[i]
  BY <1>2, <1>4, <1>5 DEF Sharer
<1>12. SharersInHList'
  <2>1. ASSUME NEW i \in Items, Sharer(i)'
        PROVE  map'[i] \in hnode' /\ hitem'[i].stable /\ hitem'[i].head = map'[i]
    <3>1. Sharer(i) /\ map'[i] = map[i]
      BY <1>11, <2>1
    <3>2. map[i] \in hnode /\ hitem[i].stable /\ hitem[i].head = map[i]
      BY <3>1 DEF JointInv, SharersInHList, Sharer, HList
    <3>3. QED
      BY <1>2, <3>1, <3>2
  <2>2. QED
    BY <2>1 DEF SharersInHList, HList, Sharer
<1>13. ListingCurrent'
  BY <1>2, <1>11 DEF JointInv, ListingCurrent
<1>14. \A i \in Items : ListedKsm(i)' <=> ListedKsm(i)
  BY <1>2 DEF ListedKsm
<1>15. ServerKnows'
  <2>1. OpenErrs' = OpenErrs
    BY <1>2, <1>3 DEF OpenErrs
  <2>2. \A i, q, E : (Believed(i, q)' <=> Believed(i, q)) /\ (Undone(i, E)' <=> Undone(i, E))
    BY <1>3 DEF Believed, Undone
  <2>3. ASSUME NEW i \in Items, hphase \in {"walk", "offload", "apply"}
        PROVE  /\ Sharer(i)' => Believed(i, map[i])' /\ ~Undone(i, OpenErrs)' /\ map'[i] = map[i]
               /\ ListedKsm(i)' =>
                    /\ Believed(i, shadow[i])'
                    /\ hphase' # "apply" => ~Undone(i, OpenErrs)'
    BY <1>2, <1>3, <1>11, <1>14, <2>3 DEF JointInv, ServerKnows, Believed, Undone, OpenErrs
  <2>4. QED
    BY <1>2, <2>3 DEF ServerKnows, Believed
<1>16. LogOrder'
  BY <1>3 DEF JointInv, LogOrder, EntryItems, MergeItems
<1>17. PendingAnonymous'
  <2>1. Pending' = Pending /\ hphase' = hphase /\ log' = log
    BY <1>2, <1>3 DEF Pending
  <2>2. \A k \in Pending : EntryItems(log[k]) \subseteq Items
    BY DEF JointInv, ServerInv, TypeOK, Pending, EntryItems, MergeItems, LogRec
  <2>3. QED
    BY <1>2, <1>11, <1>14, <2>1, <2>2 DEF JointInv, PendingAnonymous, EntryItems, MergeItems
<1>18. NewNodeFrames' /\ PageFrame'
  BY <1>2, <1>3 DEF JointInv, NewNodeFrames, PageFrame, Believed, curr
<1>19. FailuresOK'
  BY <1>2, <1>3 DEF JointInv, FailuresOK, ReportOf
<1>20. ErrorsAreReportable'
  BY <1>2, <1>3 DEF JointInv, ErrorsAreReportable, HostReports
<1>21. QED
  BY <1>6, <1>7, <1>8, <1>9, <1>10, <1>12, <1>13, <1>15, <1>16, <1>17, <1>18, <1>19, <1>20
     DEF JointInv

-----------------------------------------------------------------------------
(***************************************************************************)
(* The host's round                                                        *)
(***************************************************************************)

\* The parts that are about the server's side and the log.
LEMMA SameLog ==
  ASSUME JointInv, UNCHANGED vars
  PROVE  ServerInv' /\ LogOrder'
<1>1. ServerInv'
  BY StutterInv DEF JointInv
<1>2. log' = log
  BY DEF vars
<1>3. QED
  BY <1>1, <1>2 DEF JointInv, LogOrder, EntryItems, MergeItems

\* scan_pte_entry: a page is listed with the frame it is mapped to.
LEMMA ScanJoint ==
  ASSUME JointInv, GuestInv', scan_pte_entry
  PROVE  JointInv'
<1> DEFINE c == cursor
<1>1. SystemTypeOK /\ FramesOK /\ RoundOK /\ PlainExclusive
  BY DEF JointInv, GuestInv
<1>2. /\ UNCHANGED vars
      /\ pinned' = pinned /\ hnode' = hnode /\ errtab' = errtab /\ hphase' = hphase
      /\ applied' = applied /\ map' = map /\ content' = content /\ frame' = frame
      /\ hphase = "walk" /\ c \in Items /\ cursor' = c + 1
  BY DEF scan_pte_entry, guestVars
<1>3. /\ phase' = phase /\ present' = present /\ log' = log /\ page' = page /\ errs' = errs
      /\ rmap_tree' = rmap_tree /\ node' = node
  BY <1>2 DEF vars, scanVars, metaVars
<1>4. Cardinality(Items) \in Nat /\ \A i \in Items : i \in 1 .. Cardinality(Items)
  BY FS_CardinalityType, ServerAssumption, SystemAssumption
<1>5. c \in 1 .. Cardinality(Items) /\ shadow[c] = NoPfn
  <2>1. \A i \in Items : i >= cursor => shadow[i] = NoPfn
    BY <1>1, <1>2 DEF RoundOK
  <2>2. QED
    BY <1>2, <1>4, <2>1
<1>6. \A i \in Items : i > c => shadow[i] = NoPfn
  BY <1>1, <1>2, <1>4, <1>5 DEF RoundOK
<1>7. ServerInv' /\ LogOrder'
  BY <1>2, SameLog
<1>8. hphase' = "walk"
  BY <1>2
<1>9. PendingAnonymous' /\ NewNodeFrames' /\ PageFrame' /\ FailuresOK'
  BY <1>8 DEF PendingAnonymous, NewNodeFrames, PageFrame, FailuresOK
<1>10. ErrorsAreReportable'
  BY <1>2, <1>3 DEF JointInv, ErrorsAreReportable, HostReports
<1> HIDE DEF c
\* What is listed, and the items of the host.
<1>11. \A i \in Items : shadow'[i] = IF i = c THEN map[c] ELSE shadow[i]
  <2>1. CASE map[c] = NoPfn
    BY <1>5, <2>1 DEF scan_pte_entry, c
  <2>2. CASE map[c] # NoPfn
    BY <1>1, <2>2 DEF scan_pte_entry, c, SystemTypeOK
  <2>3. QED
    BY <2>1, <2>2
<1>12. ASSUME NEW i \in Items
       PROVE  /\ (i < c => shadow[i] # NoPfn) => hitem'[i] = hitem[i] \/ (i = c /\ ~hitem[i].alloc)
              /\ (i = c /\ map[c] # NoPfn) => hitem'[i].alloc
              /\ hitem'[i].stable => hitem[i].stable /\ hitem'[i] = hitem[i]
              /\ (i # c /\ shadow[i] # NoPfn) => hitem'[i] = hitem[i]
  <2>1. CASE map[c] = NoPfn
    BY <2>1 DEF scan_pte_entry, c
  <2>2. CASE map[c] # NoPfn
    <3>1. hitem' = get_next_rmap_item(c)
      BY <2>2 DEF scan_pte_entry, c
    <3>2. hitem'[i] = IF i = c /\ ~hitem[c].alloc THEN FreshHostItem
                      ELSE IF i < c /\ i \notin Listed THEN NoHostItem
                      ELSE hitem[i]
      BY <3>1 DEF get_next_rmap_item
    <3>3. i \in Listed <=> shadow[i] # NoPfn
      BY DEF Listed
    <3>4. hitem[i].alloc \in BOOLEAN
      BY <1>1, FrameTypes DEF HostItemRec
    <3>5. (i < c => shadow[i] # NoPfn) => hitem'[i] = hitem[i] \/ (i = c /\ ~hitem[i].alloc)
      BY <3>2, <3>3
    <3>6. (i = c /\ map[c] # NoPfn) => hitem'[i].alloc
      <4>1. i = c => ~(i < c)
        BY <1>4, <1>5
      <4>2. QED
        BY <3>2, <4>1 DEF FreshHostItem
    <3>7. hitem'[i].stable => hitem[i].stable /\ hitem'[i] = hitem[i]
      BY <3>2 DEF FreshHostItem, NoHostItem
    <3>8. (i # c /\ shadow[i] # NoPfn) => hitem'[i] = hitem[i]
      BY <3>2, <3>3
    <3>9. QED
      BY <3>5, <3>6, <3>7, <3>8
  <2>3. QED
    BY <2>1, <2>2
<1>13. RoundOK'
  <2>1. cursor' \in 1 .. Cardinality(Items) + 1
    BY <1>2, <1>4, <1>5 DEF c
  <2>2. \A i \in Items : i >= cursor' => shadow'[i] = NoPfn
    BY <1>2, <1>4, <1>5, <1>6, <1>11 DEF c
  <2>3. QED
    BY <1>1, <1>2, <1>3, <2>1, <2>2 DEF RoundOK
<1>14. FramesOK'
  <2>1. ASSUME NEW q \in Pfns, frame'[q] # "anon"
        PROVE  q \in pinned' \/ \E i \in Items : shadow'[i] = q
    <3>1. q \in pinned \/ \E i \in Items : shadow[i] = q
      BY <1>1, <1>2, <2>1 DEF FramesOK
    <3>2. \A i \in Items : shadow[i] = q => shadow'[i] = q
      BY <1>5, <1>11, ServerAssumption
    <3>3. QED
      BY <1>2, <3>1, <3>2
  <2>2. \A i \in Items : shadow'[i] # NoPfn => content'[shadow'[i]] \in Hashes
    BY <1>1, <1>2, <1>11 DEF FramesOK, c
  <2>3. QED
    BY <1>1, <1>2, <2>1, <2>2 DEF FramesOK
<1>15. ListingExclusive'
  <2>1. ASSUME NEW i \in Items, NEW j \in Items, i # j, shadow'[i] # NoPfn,
               shadow'[i] = shadow'[j] \/ shadow'[i] = map[j]
        PROVE  frame[shadow'[i]] # "anon"
    <3>1. c \in Items
      BY <1>2 DEF c
    <3>2. CASE i = c
      <4>1. shadow'[i] = map[c] /\ map[c] # NoPfn /\ (map[c] = shadow[j] \/ map[c] = map[j])
        BY <1>11, <2>1, <3>2
      <4>2. CASE map[c] = shadow[j]
        BY <2>1, <3>1, <3>2, <4>1, <4>2 DEF JointInv, ListingExclusive
      <4>3. CASE map[c] = map[j]
        BY <1>1, <2>1, <3>1, <3>2, <4>1, <4>3 DEF PlainExclusive
      <4>4. QED
        BY <4>1, <4>2, <4>3
    <3>3. CASE i # c
      <4>1. shadow'[i] = shadow[i] /\ (shadow[i] = shadow[j] \/ shadow[i] = map[j])
        BY <1>11, <2>1, <3>1, <3>3
      <4>2. QED
        BY <2>1, <4>1 DEF JointInv, ListingExclusive
    <3>4. QED
      BY <3>2, <3>3
  <2>2. QED
    BY <1>2, <2>1 DEF ListingExclusive
<1>16. HostItemsOK'
  <2>1. ASSUME NEW i \in Items, hitem'[i].stable \/ shadow'[i] # NoPfn
        PROVE  hitem'[i].alloc
    <3>1. CASE hitem'[i].stable
      BY <1>12, <3>1 DEF JointInv, HostItemsOK
    <3>2. CASE i = c /\ shadow'[i] # NoPfn
      BY <1>11, <1>12, <3>2
    <3>3. CASE i # c /\ shadow'[i] # NoPfn
      BY <1>11, <1>12, <3>3 DEF JointInv, HostItemsOK
    <3>4. QED
      BY <2>1, <3>1, <3>2, <3>3
  <2>2. QED
    BY <2>1 DEF HostItemsOK
<1>17. \A i \in Items : Sharer(i)' <=> Sharer(i)
  BY <1>2 DEF Sharer
<1>18. SharersInHList'
  <2>1. ASSUME NEW i \in Items, Sharer(i)
        PROVE  map'[i] \in hnode' /\ hitem'[i].stable /\ hitem'[i].head = map'[i]
    <3>1. map[i] \in hnode /\ hitem[i].stable /\ hitem[i].head = map[i]
      BY <2>1 DEF JointInv, SharersInHList, Sharer, HList
    <3>2. hitem[i].alloc
      BY <3>1 DEF JointInv, HostItemsOK
    <3>3. i < c => shadow[i] # NoPfn
      BY <1>2, <2>1 DEF JointInv, ListingCurrent, Sharer, c
    <3>4. hitem'[i] = hitem[i]
      BY <1>12, <3>2, <3>3
    <3>5. QED
      BY <1>2, <3>1, <3>4
  <2>2. QED
    BY <1>17, <2>1 DEF SharersInHList, HList, Sharer
<1>19. ListingCurrent'
  <2>1. ASSUME NEW i \in Items, Sharer(i), i < c + 1
        PROVE  shadow'[i] = map[i]
    <3>1. i < c \/ i = c
      BY <1>4, <1>5, <2>1
    <3>2. i < c => shadow[i] = map[i] /\ i # c
      BY <1>2, <1>4, <1>5, <2>1 DEF JointInv, ListingCurrent, c
    <3>3. QED
      BY <1>11, <3>1, <3>2
  <2>2. QED
    BY <1>2, <1>17, <2>1 DEF ListingCurrent, c
<1>20. ServerKnows'
  <2>1. ASSUME NEW i \in Items
        PROVE  /\ Sharer(i) => Believed(i, map[i]) /\ ~Undone(i, errtab)
               /\ ListedKsm(i) => Believed(i, shadow[i]) /\ ~Undone(i, errtab)
    BY <1>2 DEF JointInv, ServerKnows, OpenErrs
  <2>2. ASSUME NEW i \in Items
        PROVE  ListedKsm(i)' => (i = c /\ Sharer(i)) \/ (shadow'[i] = shadow[i] /\ ListedKsm(i))
    BY <1>2, <1>11 DEF ListedKsm, Sharer
  <2>3. ASSUME NEW i \in Items
        PROVE  Sharer(i)' => Believed(i, map[i])' /\ ~Undone(i, errtab)'
    BY <1>2, <1>3, <1>17, <2>1 DEF Believed, Undone
  <2>4. ASSUME NEW i \in Items, ListedKsm(i)'
        PROVE  rmap_tree[i].state = "Stable" /\ node[rmap_tree[i].stable_node].pfn = shadow'[i]
               /\ ~Undone(i, errtab)'
    BY <1>2, <1>3, <1>11, <2>1, <2>2, <2>4 DEF Believed, Undone
  <2>5. QED
    BY <1>2, <1>3, <2>3, <2>4 DEF ServerKnows, OpenErrs, Believed, Undone
<1>21. QED
  BY <1>7, <1>9, <1>10, <1>13, <1>14, <1>15, <1>16, <1>18, <1>19, <1>20 DEF JointInv

\* A walk that has passed the last address has listed every sharer.
LEMMA WalkEnd ==
  ASSUME JointInv, hphase = "walk", cursor \notin Items
  PROVE  \A i \in Items : Sharer(i) => shadow[i] = map[i] /\ shadow[i] # NoPfn
<1>1. Items = 1 .. Cardinality(Items) /\ Cardinality(Items) \in Nat
  BY FS_CardinalityType, ServerAssumption, SystemAssumption
<1>2. cursor \in 1 .. Cardinality(Items) + 1
  BY DEF JointInv, RoundOK
<1>3. \A i \in Items : i < cursor
  <2> DEFINE N == Cardinality(Items)
  <2>1. N \in Nat /\ cursor \in 1 .. N + 1 /\ cursor \notin 1 .. N
    BY <1>1, <1>2
  <2>2. \A i \in 1 .. N : i < cursor
    <3> HIDE DEF N
    <3>1. QED
      BY <2>1
  <2>3. QED
    BY <1>1, <2>2
<1>4. QED
  BY <1>3 DEF JointInv, ListingCurrent, Sharer

\* The steps that leave the pages, the frames and the listing alone.
LEMMA SameListing ==
  ASSUME JointInv, map' = map, content' = content, frame' = frame, pinned' = pinned,
         hitem' = hitem, hnode' = hnode, shadow' = shadow
  PROVE  /\ FramesOK' /\ ListingExclusive' /\ HostItemsOK' /\ SharersInHList'
         /\ \A i \in Items : (Sharer(i)' <=> Sharer(i)) /\ (ListedKsm(i)' <=> ListedKsm(i))
<1>1. FramesOK'
  BY DEF JointInv, FramesOK
<1>2. ListingExclusive' /\ HostItemsOK'
  BY DEF JointInv, ListingExclusive, HostItemsOK
<1>3. SharersInHList'
  BY DEF JointInv, SharersInHList, HList
<1>4. QED
  BY <1>1, <1>2, <1>3 DEF Sharer, ListedKsm

\* The walk that lists no page, and ksmd that stops.
LEMMA EndJoint ==
  ASSUME JointInv, GuestInv', NothingListed \/ debug_stop
  PROVE  JointInv'
<1>1. /\ UNCHANGED vars /\ hphase' \in {"removed", "stopped"} /\ hphase # "offload"
      /\ pinned' = pinned /\ hnode' = hnode /\ shadow' = shadow
      /\ map' = map /\ content' = content /\ frame' = frame
  BY DEF NothingListed, debug_stop, guestVars
<1>2. phase' = phase
  BY <1>1 DEF vars
<1>3. ServerInv' /\ LogOrder'
  BY <1>1, SameLog
<1>4. RoundOK'
  BY <1>1, <1>2 DEF JointInv, RoundOK
<1>5. /\ PendingAnonymous' /\ NewNodeFrames' /\ PageFrame' /\ FailuresOK'
      /\ ErrorsAreReportable' /\ ServerKnows' /\ ListingCurrent'
  BY <1>1 DEF PendingAnonymous, NewNodeFrames, PageFrame, FailuresOK, ErrorsAreReportable,
       ServerKnows, ListingCurrent
<1>6. FramesOK' /\ ListingExclusive'
  BY <1>1 DEF JointInv, FramesOK, ListingExclusive
<1>7. HostItemsOK' /\ SharersInHList'
  <2>1. CASE debug_stop
    <3>1. hitem' = hitem
      BY <2>1 DEF debug_stop
    <3>2. QED
      BY <1>1, <3>1, SameListing
  <2>2. CASE NothingListed
    <3>1. \A i \in Items : hitem'[i] = NoHostItem /\ shadow[i] = NoPfn
      BY <2>2 DEF NothingListed, Listed
    <3>2. \A i \in Items : ~Sharer(i)
      BY <2>2, <3>1, WalkEnd DEF NothingListed
    <3>3. SharersInHList'
      BY <1>1, <3>2 DEF SharersInHList, Sharer
    <3>4. HostItemsOK'
      BY <1>1, <3>1 DEF HostItemsOK, NoHostItem
    <3>5. QED
      BY <3>3, <3>4
  <2>3. QED
    BY <2>1, <2>2
<1>8. QED
  BY <1>3, <1>4, <1>5, <1>6, <1>7 DEF JointInv

\* What the host reports can be reported.
LEMMA ReportsAreReportable ==
  ASSUME SystemTypeOK, HostReports(errtab)
  PROVE  errtab \in SUBSET Reportable
<1>1. ASSUME NEW e \in errtab
      PROVE  e \in Reportable
  <2>1. e \in ErrRec
    BY DEF SystemTypeOK
  <2>2. PICK k \in DOMAIN log :
            /\ log[k].from = e.from
            /\ \/ /\ e.type = "MERGE_ONE_FAILED"
                  /\ log[k].type = "STABLE_MERGE"
                  /\ log[k].kpfn = e.kpfn
               \/ /\ e.type = "MERGE_TWO_FAILED"
                  /\ log[k].type = "UNSTABLE_MERGE"
                  /\ log[k].to = e.to
    BY DEF HostReports
  <2>3. CASE e.type = "MERGE_ONE_FAILED"
    <3>1. e = [type |-> "MERGE_ONE_FAILED", from |-> log[k].from, kpfn |-> log[k].kpfn]
      BY <2>1, <2>2, <2>3 DEF ErrRec
    <3>2. log[k].type = "STABLE_MERGE"
      BY <2>2, <2>3
    <3>3. QED
      BY <3>1, <3>2 DEF Reportable
  <2>4. CASE e.type = "MERGE_TWO_FAILED"
    <3>1. e = [type |-> "MERGE_TWO_FAILED", from |-> log[k].from, to |-> log[k].to]
      BY <2>1, <2>2, <2>4 DEF ErrRec
    <3>2. log[k].type = "UNSTABLE_MERGE"
      BY <2>2, <2>4
    <3>3. QED
      BY <3>1, <3>2 DEF Reportable
  <2>5. QED
    BY <2>2, <2>3, <2>4
<1>2. QED
  BY <1>1

\* rdma_send_metadata: the server gets the listing and the failures.
LEMMA SendJoint ==
  ASSUME JointInv, GuestInv', rdma_send_metadata
  PROVE  JointInv'
<1>1. /\ hphase = "walk" /\ hphase' = "offload" /\ cursor \notin Items
      /\ RecvMetadata(Listed, errtab)
      /\ pinned' = pinned /\ hitem' = hitem /\ hnode' = hnode /\ shadow' = shadow
      /\ errtab' = errtab /\ map' = map /\ content' = content /\ frame' = frame
  BY DEF rdma_send_metadata, guestVars
<1>2. /\ phase' = "work" /\ present' = Listed /\ errs' = errtab /\ log' = <<>> /\ page' = page
      /\ rmap_tree' = rmap_tree /\ node' = node /\ HostReports(errtab) /\ phase = "wait"
  BY <1>1 DEF RecvMetadata, metaVars
<1>3. ServerInv'
  <2>1. errtab \in SUBSET Reportable
    BY <1>2, ReportsAreReportable DEF JointInv, GuestInv
  <2>2. Listed \in SUBSET Items
    BY DEF Listed
  <2>3. QED
    BY <1>1, <2>1, <2>2, RecvMetadataInv DEF JointInv
<1>4. RoundOK'
  BY <1>1, <1>2 DEF RoundOK, Listed
<1>5. /\ FramesOK' /\ ListingExclusive' /\ HostItemsOK' /\ SharersInHList'
      /\ \A i \in Items : (Sharer(i)' <=> Sharer(i)) /\ (ListedKsm(i)' <=> ListedKsm(i))
  BY <1>1, SameListing
<1>6. ListingCurrent'
  BY <1>1, <1>5, WalkEnd DEF ListingCurrent
<1>7. ServerKnows'
  <2>1. OpenErrs' = errtab /\ OpenErrs = errtab
    BY <1>1, <1>2 DEF OpenErrs
  <2>2. \A i \in Items :
          /\ Sharer(i) => Believed(i, map[i]) /\ ~Undone(i, errtab)
          /\ ListedKsm(i) => Believed(i, shadow[i]) /\ ~Undone(i, errtab)
    BY <1>1, <2>1 DEF JointInv, ServerKnows
  <2>3. QED
    BY <1>1, <1>2, <1>5, <2>1, <2>2 DEF ServerKnows, Believed, Undone
<1>8. DOMAIN log' = {}
  BY <1>2
<1>9. LogOrder' /\ PendingAnonymous' /\ NewNodeFrames'
  BY <1>8 DEF LogOrder, PendingAnonymous, NewNodeFrames, Pending
<1>10. page' = NoPage
  BY <1>2 DEF JointInv, ServerInv, PhaseOK
<1>11. PageFrame' /\ FailuresOK' /\ ErrorsAreReportable'
  BY <1>1, <1>10 DEF PageFrame, FailuresOK, ErrorsAreReportable
<1>12. QED
  BY <1>3, <1>4, <1>5, <1>6, <1>7, <1>9, <1>11 DEF JointInv

\* recv_offload_result: the log is here, and there are no failures yet.
LEMMA RecvJoint ==
  ASSUME JointInv, GuestInv', recv_offload_result
  PROVE  JointInv'
<1>1. /\ hphase = "offload" /\ hphase' = "apply" /\ phase = "wait" /\ applied' = 0
      /\ UNCHANGED vars
      /\ pinned' = pinned /\ hitem' = hitem /\ hnode' = hnode /\ shadow' = shadow
      /\ errtab' = {} /\ map' = map /\ content' = content /\ frame' = frame
  BY DEF recv_offload_result, guestVars
<1>2. /\ phase' = phase /\ log' = log /\ rmap_tree' = rmap_tree /\ node' = node
  BY <1>1 DEF vars, metaVars
<1>3. ServerInv' /\ LogOrder'
  BY <1>1, SameLog
<1>4. log \in Seq(LogRec)
  BY DEF JointInv, ServerInv, TypeOK
<1>5. RoundOK'
  BY <1>1, <1>2, <1>4 DEF RoundOK
<1>6. /\ FramesOK' /\ ListingExclusive' /\ HostItemsOK' /\ SharersInHList'
      /\ \A i \in Items : (Sharer(i)' <=> Sharer(i)) /\ (ListedKsm(i)' <=> ListedKsm(i))
  BY <1>1, SameListing
<1>7. ListingCurrent' /\ PageFrame'
  BY <1>1 DEF ListingCurrent, PageFrame
<1>8. ServerKnows'
  <2>1. OpenErrs' = {}
    BY <1>1 DEF OpenErrs
  <2>2. \A i \in Items :
          /\ Sharer(i) => Believed(i, map[i])
          /\ ListedKsm(i) => Believed(i, shadow[i])
    BY <1>1 DEF JointInv, ServerKnows
  <2>3. QED
    BY <1>1, <1>2, <1>6, <2>1, <2>2 DEF ServerKnows, Believed, Undone
<1>9. PendingAnonymous'
  <2>1. Pending' \subseteq DOMAIN log /\ Pending = DOMAIN log
    BY <1>1, <1>2 DEF Pending
  <2>2. \A k \in DOMAIN log : EntryItems(log[k]) \subseteq Items
    BY <1>4 DEF EntryItems, MergeItems, LogRec
  <2>3. \A k \in DOMAIN log : \A i \in EntryItems(log[k]) :
           shadow[i] # NoPfn /\ ~ListedKsm(i) /\ ~Sharer(i)
    BY <1>1, <2>1 DEF JointInv, PendingAnonymous
  <2>4. QED
    BY <1>1, <1>2, <1>6, <2>1, <2>2, <2>3 DEF PendingAnonymous, EntryItems, MergeItems
<1>10. NewNodeFrames'
  BY <1>1, <1>2 DEF JointInv, NewNodeFrames, Believed
<1>11. FailuresOK' /\ ErrorsAreReportable'
  BY <1>1 DEF FailuresOK, ErrorsAreReportable
<1>12. QED
  BY <1>3, <1>5, <1>6, <1>7, <1>8, <1>9, <1>10, <1>11 DEF JointInv

\* destroy_metadata: the references on ksm pages are kept.
LEMMA DestroyJoint ==
  ASSUME JointInv, GuestInv', destroy_metadata
  PROVE  JointInv'
<1>1. SystemTypeOK /\ FramesOK
  BY DEF JointInv, GuestInv
<1>2. /\ hphase = "apply" /\ hphase' = "walk" /\ cursor' = 1
      /\ pinned' = pinned \cup KeptReferences /\ shadow' = [i \in Items |-> NoPfn]
      /\ UNCHANGED vars
      /\ hitem' = hitem /\ hnode' = hnode
      /\ errtab' = errtab /\ map' = map /\ content' = content /\ frame' = frame
  BY DEF destroy_metadata, guestVars
<1>3. /\ phase' = phase /\ log' = log /\ rmap_tree' = rmap_tree /\ node' = node
  BY <1>2 DEF vars, metaVars
<1>4. ServerInv' /\ LogOrder'
  BY <1>2, SameLog
<1>5. \A i \in Items : shadow'[i] = NoPfn
  BY <1>2
<1>6. RoundOK'
  <2>1. Cardinality(Items) \in Nat
    BY FS_CardinalityType, ServerAssumption
  <2>2. cursor' \in 1 .. Cardinality(Items) + 1
    BY <1>2, <2>1
  <2>3. QED
    BY <1>2, <1>3, <1>5, <2>2 DEF JointInv, RoundOK
<1>7. FramesOK'
  <2>1. ASSUME NEW q \in Pfns, frame[q] # "anon"
        PROVE  q \in pinned'
    <3>1. q \in pinned \/ \E i \in Items : shadow[i] = q
      BY <1>1, <2>1 DEF FramesOK
    <3>2. ASSUME NEW i \in Items, shadow[i] = q
          PROVE  q \in KeptReferences
      <4>1. PageKsm(shadow[i])
        BY <1>1, <2>1, <3>2, KsmFrames
      <4>2. i \in Listed
        BY <3>2, ServerAssumption DEF Listed
      <4>3. QED
        BY <3>2, <4>1, <4>2 DEF KeptReferences
    <3>3. QED
      BY <1>2, <3>1, <3>2
  <2>2. QED
    BY <1>1, <1>2, <1>5, <2>1 DEF FramesOK
<1>8. ListingExclusive' /\ HostItemsOK'
  BY <1>2, <1>5 DEF JointInv, ListingExclusive, HostItemsOK
<1>9. SharersInHList'
  BY <1>2 DEF JointInv, SharersInHList, HList
<1>10. \A i \in Items : (Sharer(i)' <=> Sharer(i)) /\ ~ListedKsm(i)'
  BY <1>2, <1>5 DEF Sharer, ListedKsm
<1>11. ListingCurrent'
  <2>1. \A i \in Items : ~(i < 1)
    BY FS_CardinalityType, ServerAssumption, SystemAssumption
  <2>2. QED
    BY <1>2, <2>1 DEF ListingCurrent
<1>12. ServerKnows'
  <2>1. OpenErrs' = errtab /\ OpenErrs = errtab
    BY <1>2 DEF OpenErrs
  <2>2. \A i \in Items : Sharer(i) => Believed(i, map[i]) /\ ~Undone(i, errtab)
    BY <1>2, <2>1 DEF JointInv, ServerKnows
  <2>3. QED
    BY <1>2, <1>3, <1>10, <2>1, <2>2 DEF ServerKnows, Believed, Undone
<1>13. PendingAnonymous' /\ NewNodeFrames' /\ PageFrame' /\ FailuresOK'
  BY <1>2 DEF PendingAnonymous, NewNodeFrames, PageFrame, FailuresOK
<1>14. ErrorsAreReportable'
  BY <1>2, <1>3 DEF JointInv, ErrorsAreReportable, HostReports
<1>15. QED
  BY <1>4, <1>6, <1>7, <1>8, <1>9, <1>11, <1>12, <1>13, <1>14 DEF JointInv

-----------------------------------------------------------------------------
(***************************************************************************)
(* apply_result                                                            *)
(***************************************************************************)

\* What the log says about the entry in hand: its pages are anonymous still,
\* and the server has put them into the node of the frame it names.
LEMMA EntryFacts ==
  ASSUME JointInv, hphase = "apply", applied < Len(log)
  PROVE  /\ applied \in Nat /\ applied + 1 \in DOMAIN log /\ Entry = log[applied + 1]
         /\ Entry \in LogRec
         /\ MergeItems(Entry) \subseteq EntryItems(Entry) /\ EntryItems(Entry) \subseteq Items
         /\ \A i \in EntryItems(Entry) :
              shadow[i] \in Pfns /\ frame[shadow[i]] = "anon" /\ ~Sharer(i)
         /\ Entry.type = "STABLE_MERGE" => Believed(Entry.from, Entry.kpfn)
         /\ Entry.type = "UNSTABLE_MERGE" =>
              /\ Believed(Entry.from, shadow[Entry.from])
              /\ Believed(Entry.to, shadow[Entry.from])
              /\ rmap_tree[Entry.to].stable_node = rmap_tree[Entry.from].stable_node
<1>1. SystemTypeOK /\ log \in Seq(LogRec) /\ applied \in Nat
  BY DEF JointInv, GuestInv, SystemTypeOK, ServerInv, TypeOK
<1>2. applied + 1 \in DOMAIN log /\ Entry = log[applied + 1]
  BY <1>1 DEF Entry
<1>3. Entry \in LogRec
  BY <1>1, <1>2
<1>4. MergeItems(Entry) \subseteq EntryItems(Entry) /\ EntryItems(Entry) \subseteq Items
  BY <1>3 DEF EntryItems, MergeItems, LogRec
<1>5. \A i \in EntryItems(Entry) :
         shadow[i] \in Pfns /\ frame[shadow[i]] = "anon" /\ ~Sharer(i)
  <2>1. applied + 1 \in Pending
    BY <1>1, <1>2 DEF Pending
  <2>2. \A i \in EntryItems(Entry) : shadow[i] # NoPfn /\ ~ListedKsm(i) /\ ~Sharer(i)
    BY <1>2, <2>1 DEF JointInv, PendingAnonymous
  <2>3. QED
    BY <1>1, <1>4, <2>2, FrameTypes DEF ListedKsm
<1>6. Entry.type = "STABLE_MERGE" => Believed(Entry.from, Entry.kpfn)
  BY <1>2 DEF JointInv, ServerInv, LogMatchesMetadata, Believed
<1>7. Entry.type = "UNSTABLE_MERGE" =>
         /\ Believed(Entry.from, shadow[Entry.from])
         /\ Believed(Entry.to, shadow[Entry.from])
         /\ rmap_tree[Entry.to].stable_node = rmap_tree[Entry.from].stable_node
  BY <1>2 DEF JointInv, NewNodeFrames, ServerInv, LogMatchesMetadata, Believed
<1>8. QED
  BY <1>1, <1>2, <1>3, <1>4, <1>5, <1>6, <1>7

\* The failures of this log: about merges already carried out, and those of
\* unstable merges about nodes whose frame has not become a ksm page.
LEMMA FailureFacts ==
  ASSUME JointInv, hphase = "apply", NEW e \in errtab
  PROVE  /\ e.from \in Items /\ \E k \in 1 .. applied : ReportOf(e, log[k])
         /\ e.type \in {"MERGE_ONE_FAILED", "MERGE_TWO_FAILED"}
         /\ applied < Len(log) => e.from \notin EntryItems(Entry)
         /\ e.type = "MERGE_ONE_FAILED" =>
              /\ e.kpfn \in Pfns /\ frame[e.kpfn] # "anon"
              /\ Believed(e.from, e.kpfn)
         /\ e.type = "MERGE_TWO_FAILED" =>
              /\ Believed(e.from, shadow[e.from])
              /\ shadow[e.from] \in Pfns /\ frame[shadow[e.from]] # "node"
<1>1. log \in Seq(LogRec) /\ applied \in Nat /\ applied <= Len(log)
  BY DEF JointInv, GuestInv, SystemTypeOK, ServerInv, TypeOK, RoundOK
<1>2. PICK k \in 1 .. applied : ReportOf(e, log[k])
  BY DEF JointInv, FailuresOK
<1>3. k \in DOMAIN log /\ log[k] \in LogRec
  BY <1>1, <1>2
<1>4. /\ log[k].from = e.from
      /\ \/ e.type = "MERGE_ONE_FAILED" /\ log[k].type = "STABLE_MERGE" /\ log[k].kpfn = e.kpfn
         \/ e.type = "MERGE_TWO_FAILED" /\ log[k].type = "UNSTABLE_MERGE" /\ log[k].to = e.to
  BY <1>2 DEF ReportOf
<1>5. e.from \in Items
  BY <1>3, <1>4, LogTypes
<1>6. e.from \in MergeItems(log[k])
  BY <1>4 DEF MergeItems
<1>7. applied < Len(log) => e.from \notin EntryItems(Entry)
  <2>1. ASSUME applied < Len(log)
        PROVE  EntryItems(Entry) \cap MergeItems(log[k]) = {}
    <3>1. applied + 1 \in DOMAIN log /\ Entry = log[applied + 1] /\ k < applied + 1
      BY <1>1, <1>2, <2>1 DEF Entry
    <3>2. QED
      BY <1>3, <3>1 DEF JointInv, LogOrder
  <2>2. QED
    BY <1>6, <2>1
<1>8. e.type = "MERGE_ONE_FAILED" =>
         e.kpfn \in Pfns /\ frame[e.kpfn] # "anon" /\ Believed(e.from, e.kpfn)
  BY <1>3, <1>4 DEF JointInv, FailuresOK, ServerInv, LogMatchesMetadata, Believed
<1>9. e.type = "MERGE_TWO_FAILED" =>
         /\ Believed(e.from, shadow[e.from])
         /\ shadow[e.from] \in Pfns /\ frame[shadow[e.from]] # "node"
  BY <1>3, <1>4, <1>5, FrameTypes DEF JointInv, GuestInv, FailuresOK, NewNodeFrames
<1>10. QED
  BY <1>2, <1>4, <1>5, <1>7, <1>8, <1>9

\* An entry is carried out.
EntryDone ==
  /\ UNCHANGED <<vars, pinned, shadow, hphase, cursor>>
  /\ hphase = "apply" /\ applied < Len(log) /\ applied' = applied + 1

\* It keeps the invariant if it makes sharers only of its own items, as the
\* server believes they are, and reports no failure of another sharer.
LEMMA EntryFrame ==
  ASSUME JointInv, GuestInv', EntryDone,
         FramesOK', ListingExclusive', HostItemsOK', SharersInHList',
         \A i \in Items \ MergeItems(Entry) :
           /\ Sharer(i)' => Sharer(i) /\ map'[i] = map[i]
           /\ ListedKsm(i)' => ListedKsm(i),
         \A i \in MergeItems(Entry) :
           /\ Sharer(i)' => Believed(i, map'[i])
           /\ ListedKsm(i)' => Believed(i, shadow[i]),
         \A i \in Items : Sharer(i)' => ~Undone(i, errtab'),
         \A e \in errtab' :
           /\ \E k \in 1 .. applied + 1 : ReportOf(e, log[k])
           /\ e.type = "MERGE_ONE_FAILED" => e.kpfn \in Pfns /\ frame'[e.kpfn] # "anon"
           /\ e.type = "MERGE_TWO_FAILED" =>
                shadow[e.from] # NoPfn /\ frame'[shadow[e.from]] # "node",
         \A e, f \in errtab' : (e.type = "MERGE_ONE_FAILED" /\ f.type = "MERGE_TWO_FAILED")
            => rmap_tree[e.from].stable_node # rmap_tree[f.from].stable_node
  PROVE  JointInv'
<1>1. /\ UNCHANGED vars /\ shadow' = shadow /\ hphase' = "apply" /\ hphase = "apply"
      /\ applied < Len(log) /\ applied' = applied + 1 /\ pinned' = pinned
  BY DEF EntryDone
<1>2. /\ phase' = phase /\ log' = log /\ rmap_tree' = rmap_tree /\ node' = node
  BY <1>1 DEF vars, metaVars
<1>3. ServerInv' /\ LogOrder'
  BY <1>1, SameLog
<1>4. /\ applied \in Nat /\ log \in Seq(LogRec)
      /\ applied + 1 \in DOMAIN log /\ Entry = log[applied + 1]
      /\ MergeItems(Entry) \subseteq EntryItems(Entry) /\ EntryItems(Entry) \subseteq Items
  BY <1>1, EntryFacts DEF JointInv, ServerInv, TypeOK
<1>5. RoundOK'
  <2>1. applied + 1 <= Len(log)
    BY <1>1, <1>4
  <2>2. QED
    BY <1>1, <1>2, <2>1 DEF JointInv, RoundOK
<1>6. ListingCurrent' /\ PageFrame'
  BY <1>1 DEF ListingCurrent, PageFrame
<1>7. ServerKnows'
  <2>1. OpenErrs' = errtab'
    BY <1>1 DEF OpenErrs
  <2>2. \A i \in Items :
          /\ Sharer(i) => Believed(i, map[i])
          /\ ListedKsm(i) => Believed(i, shadow[i])
    BY <1>1 DEF JointInv, ServerKnows
  <2>3. \A i \in Items :
          /\ Sharer(i)' => Believed(i, map'[i])
          /\ ListedKsm(i)' => Believed(i, shadow[i])
    BY <2>2
  <2>4. QED
    BY <1>1, <1>2, <2>1, <2>3 DEF ServerKnows, Believed, Undone
<1>8. PendingAnonymous'
  <2>1. ASSUME NEW k \in Pending'
        PROVE  k \in Pending /\ k \in DOMAIN log /\ k > applied + 1
    BY <1>1, <1>2, <1>4 DEF Pending
  <2>2. ASSUME NEW k \in Pending', NEW i \in EntryItems(log[k])
        PROVE  shadow[i] # NoPfn /\ ~ListedKsm(i)' /\ ~Sharer(i)'
    <3>1. k \in Pending /\ k \in DOMAIN log /\ k > applied + 1
      BY <2>1
    <3>2. shadow[i] # NoPfn /\ ~ListedKsm(i) /\ ~Sharer(i)
      BY <1>1, <3>1, <2>2 DEF JointInv, PendingAnonymous
    <3>3. i \in Items
      BY <1>4, <2>2, <3>1 DEF EntryItems, MergeItems, LogRec
    <3>4. i \notin MergeItems(Entry)
      BY <1>4, <2>2, <3>1 DEF JointInv, LogOrder
    <3>5. QED
      BY <3>2, <3>3, <3>4
  <2>3. QED
    BY <1>1, <1>2, <2>2 DEF PendingAnonymous, EntryItems, MergeItems
<1>9. NewNodeFrames'
  BY <1>1, <1>2 DEF JointInv, NewNodeFrames, Believed
<1>10. FailuresOK'
  BY <1>1, <1>2 DEF FailuresOK, ReportOf
<1>11. HostReports(errtab)'
  <2>1. ASSUME NEW e \in errtab'
        PROVE  \E k \in DOMAIN log : ReportOf(e, log[k])
    <3>1. PICK k \in 1 .. applied + 1 : ReportOf(e, log[k])
      OBVIOUS
    <3>2. k \in DOMAIN log
      BY <1>1, <1>4, <3>1
    <3>3. QED
      BY <3>1, <3>2
  <2>2. QED
    BY <1>2, <2>1 DEF HostReports, ReportOf
<1>12. ErrorsAreReportable'
  BY <1>11 DEF ErrorsAreReportable
<1>13. QED
  BY <1>3, <1>5, <1>6, <1>7, <1>8, <1>9, <1>10, <1>12 DEF JointInv

\* No failure is reported: then the failures of before must still be as they
\* were, and undo none of the items merged.
LEMMA NoFailure ==
  ASSUME JointInv, GuestInv', EntryDone, errtab' = errtab,
         FramesOK', ListingExclusive', HostItemsOK', SharersInHList',
         \A i \in Items \ MergeItems(Entry) :
           /\ Sharer(i)' => Sharer(i) /\ map'[i] = map[i]
           /\ ListedKsm(i)' => ListedKsm(i),
         \A i \in MergeItems(Entry) :
           /\ Sharer(i)' => Believed(i, map'[i]) /\ ~Undone(i, errtab)
           /\ ListedKsm(i)' => Believed(i, shadow[i]),
         \A q \in Pfns : frame[q] # "anon" => frame'[q] # "anon",
         \A e \in errtab : e.type = "MERGE_TWO_FAILED" => frame'[shadow[e.from]] # "node"
  PROVE  JointInv'
<1>1. hphase = "apply"
  BY DEF EntryDone
<1>2. \A i \in Items : Sharer(i) => ~Undone(i, errtab)
  BY <1>1 DEF JointInv, ServerKnows, OpenErrs
<1>3. \A i \in Items : Sharer(i)' => ~Undone(i, errtab')
  BY <1>2
<1>4. ASSUME NEW e \in errtab'
      PROVE  /\ \E k \in 1 .. applied + 1 : ReportOf(e, log[k])
             /\ e.type = "MERGE_ONE_FAILED" => e.kpfn \in Pfns /\ frame'[e.kpfn] # "anon"
             /\ e.type = "MERGE_TWO_FAILED" =>
                  shadow[e.from] # NoPfn /\ frame'[shadow[e.from]] # "node"
  <2>1. PICK k \in 1 .. applied : ReportOf(e, log[k])
    BY <1>1, FailureFacts
  <2>2. k \in 1 .. applied + 1
    BY <2>1 DEF JointInv, GuestInv, SystemTypeOK
  <2>3. e.type = "MERGE_ONE_FAILED" => e.kpfn \in Pfns /\ frame'[e.kpfn] # "anon"
    BY <1>1, FailureFacts
  <2>4. e.type = "MERGE_TWO_FAILED" => shadow[e.from] # NoPfn
    BY <1>1, FailureFacts, ServerAssumption
  <2>5. QED
    BY <2>1, <2>2, <2>3, <2>4
<1>5. \A e, f \in errtab' : (e.type = "MERGE_ONE_FAILED" /\ f.type = "MERGE_TWO_FAILED")
            => rmap_tree[e.from].stable_node # rmap_tree[f.from].stable_node
  BY <1>1 DEF JointInv, ErrorsAreReportable, HostReports
<1>6. QED
  BY <1>3, <1>4, <1>5, EntryFrame

\* A stable merge with a page that has no node is passed over.
LEMMA SkippedJoint ==
  ASSUME JointInv, GuestInv', StableMergeSkipped
  PROVE  JointInv'
<1>1. EntryDone /\ errtab' = errtab
  BY DEF StableMergeSkipped, Applying, applyRest, EntryDone, SkipErrors
<1>2. /\ map' = map /\ content' = content /\ frame' = frame /\ pinned' = pinned
      /\ hitem' = hitem /\ hnode' = hnode /\ shadow' = shadow
  BY DEF StableMergeSkipped, applyRest
<1>3. /\ FramesOK' /\ ListingExclusive' /\ HostItemsOK' /\ SharersInHList'
      /\ \A i \in Items : (Sharer(i)' <=> Sharer(i)) /\ (ListedKsm(i)' <=> ListedKsm(i))
  BY <1>2, SameListing
<1>4. hphase = "apply" /\ applied < Len(log)
  BY <1>1 DEF EntryDone
<1>5. \A i \in MergeItems(Entry) : i \in Items /\ ~Sharer(i) /\ ~ListedKsm(i)
  BY <1>4, EntryFacts DEF ListedKsm
<1>6. \A e \in errtab : e.type = "MERGE_TWO_FAILED" => frame'[shadow[e.from]] # "node"
  BY <1>2, <1>4, FailureFacts
<1>7. QED
  BY <1>1, <1>2, <1>3, <1>5, <1>6, NoFailure

\* An item leaves its node; it is no sharer.
LEMMA ItemStateChangeJoint ==
  ASSUME JointInv, GuestInv', ItemStateChange
  PROVE  JointInv'
<1> DEFINE x == Entry.from
<1>1. EntryDone /\ errtab' = errtab /\ Entry.type = "ITEM_STATE_CHANGE"
  BY DEF ItemStateChange, Applying, applyRest, EntryDone
<1>2. /\ map' = map /\ content' = content /\ frame' = frame /\ pinned' = pinned
      /\ hnode' = hnode /\ shadow' = shadow
      /\ hitem' = [hitem EXCEPT ![x] = remove_rmap_item_from_tree(hitem[x])]
  BY DEF ItemStateChange, applyRest
<1>3. hphase = "apply" /\ applied < Len(log)
  BY <1>1 DEF EntryDone
<1>4. x \in Items /\ ~Sharer(x) /\ MergeItems(Entry) = {}
  <2>1. x \in EntryItems(Entry)
    BY <1>1 DEF EntryItems
  <2>2. MergeItems(Entry) = {}
    BY <1>1 DEF MergeItems
  <2>3. QED
    BY <1>3, <2>1, <2>2, EntryFacts
<1>5. SystemTypeOK /\ hitem \in [Items -> HostItemRec]
  BY DEF JointInv, GuestInv, SystemTypeOK
<1> HIDE DEF x
<1>6. /\ \A i \in Items : i # x => hitem'[i] = hitem[i]
      /\ hitem'[x].alloc = hitem[x].alloc /\ (hitem'[x].stable => hitem[x].stable)
  <2>1. hitem[x] \in HostItemRec
    BY <1>4, <1>5
  <2>2. QED
    BY <1>2, <1>4, <1>5, <2>1 DEF remove_rmap_item_from_tree, HostItemRec
<1>7. HostItemsOK'
  <2>1. ASSUME NEW i \in Items, hitem'[i].stable \/ shadow[i] # NoPfn
        PROVE  hitem'[i].alloc
    BY <1>6, <2>1 DEF JointInv, HostItemsOK
  <2>2. QED
    BY <1>2, <2>1 DEF HostItemsOK
<1>8. FramesOK' /\ ListingExclusive'
  BY <1>2 DEF JointInv, FramesOK, ListingExclusive
<1>9. \A i \in Items : (Sharer(i)' <=> Sharer(i)) /\ (ListedKsm(i)' <=> ListedKsm(i))
  BY <1>2 DEF Sharer, ListedKsm
<1>10. SharersInHList'
  <2>1. ASSUME NEW i \in Items, Sharer(i)
        PROVE  map[i] \in hnode /\ hitem'[i].stable /\ hitem'[i].head = map[i]
    <3>1. i # x
      BY <1>4, <2>1
    <3>2. QED
      BY <1>6, <2>1, <3>1 DEF JointInv, SharersInHList, HList, Sharer
  <2>2. QED
    BY <1>2, <1>9, <2>1 DEF SharersInHList, HList, Sharer
<1>11. \A e \in errtab : e.type = "MERGE_TWO_FAILED" => frame'[shadow[e.from]] # "node"
  BY <1>2, <1>3, FailureFacts
<1>12. QED
  BY <1>1, <1>2, <1>4, <1>7, <1>8, <1>9, <1>10, <1>11, NoFailure

\* A node goes whose frame nobody is mapped to.
LEMMA StaleJoint ==
  ASSUME JointInv, GuestInv', StaleStableNode
  PROVE  JointInv'
<1> DEFINE k == Entry.kpfn
<1>1. EntryDone /\ errtab' = errtab /\ Entry.type = "STALE_STABLE_NODE" /\ EntryApplies(Entry)
  BY DEF StaleStableNode, Applying, applyRest, EntryDone
<1>2. /\ map' = map /\ content' = content /\ pinned' = pinned /\ shadow' = shadow
      /\ frame' = [frame EXCEPT ![k] = "ksm"] /\ hnode' = hnode \ {k}
      /\ hitem' = remove_node_from_stable_tree(k)
  BY DEF StaleStableNode, applyRest
<1>3. hphase = "apply" /\ applied < Len(log) /\ MergeItems(Entry) = {}
  BY <1>1 DEF EntryDone, MergeItems
<1>4. SystemTypeOK /\ FramesOK /\ frame \in [Pfns -> FrameKinds]
  BY DEF JointInv, GuestInv, SystemTypeOK
<1>5. k \in Pfns /\ frame[k] = "node" /\ \A i \in Items : map[i] # k
  BY <1>1 DEF EntryApplies, HasStableNode, Mapped
<1> HIDE DEF k
<1>6. \A q \in Pfns : frame'[q] = IF q = k THEN "ksm" ELSE frame[q]
  BY <1>2, <1>4, <1>5
<1>7. \A i \in Items : (map[i] # NoPfn => map[i] \in Pfns) /\ (shadow[i] # NoPfn => shadow[i] \in Pfns)
  BY <1>4, FrameTypes
<1>8. \A i \in Items : (Sharer(i)' <=> Sharer(i)) /\ (ListedKsm(i)' <=> ListedKsm(i))
  <2>1. \A q \in Pfns : frame'[q] # "anon" <=> frame[q] # "anon"
    BY <1>5, <1>6
  <2>2. QED
    BY <1>2, <1>7, <2>1 DEF Sharer, ListedKsm
<1>9. FramesOK'
  <2>1. \A q \in Pfns : frame'[q] # "anon" => q \in pinned' \/ \E i \in Items : shadow'[i] = q
    BY <1>2, <1>4, <1>5, <1>6 DEF FramesOK
  <2>2. \A q \in Pfns : frame'[q] = "node" <=> q \in hnode'
    BY <1>2, <1>4, <1>6 DEF FramesOK
  <2>3. \A i \in Items : map[i] # NoPfn => frame'[map[i]] # "ksm" /\ content[map[i]] \in Hashes
    BY <1>4, <1>5, <1>6, <1>7 DEF FramesOK
  <2>4. QED
    BY <1>2, <1>4, <2>1, <2>2, <2>3 DEF FramesOK
<1>10. ListingExclusive'
  <2>1. \A q \in Pfns : frame'[q] # "anon" <=> frame[q] # "anon"
    BY <1>5, <1>6
  <2>2. QED
    BY <1>2, <1>7, <2>1 DEF JointInv, ListingExclusive
<1>11. ASSUME NEW i \in Items
       PROVE  /\ hitem'[i].alloc = hitem[i].alloc /\ (hitem'[i].stable => hitem[i].stable)
              /\ hitem[i].head # k => hitem'[i] = hitem[i]
  <2>1. hitem'[i] = IF i \in HList(k) THEN [hitem[i] EXCEPT !.stable = FALSE] ELSE hitem[i]
    BY <1>2 DEF remove_node_from_stable_tree
  <2>2. hitem[i] \in HostItemRec
    BY <1>4, FrameTypes
  <2>3. hitem[i].head # k => i \notin HList(k)
    BY DEF HList
  <2>4. QED
    BY <2>1, <2>2, <2>3 DEF HostItemRec
<1>12. HostItemsOK'
  <2>1. ASSUME NEW i \in Items, hitem'[i].stable \/ shadow[i] # NoPfn
        PROVE  hitem'[i].alloc
    BY <1>11, <2>1 DEF JointInv, HostItemsOK
  <2>2. QED
    BY <1>2, <2>1 DEF HostItemsOK
<1>13. SharersInHList'
  <2>1. ASSUME NEW i \in Items, Sharer(i)
        PROVE  map[i] \in hnode' /\ hitem'[i].stable /\ hitem'[i].head = map[i]
    <3>1. map[i] \in hnode /\ hitem[i].stable /\ hitem[i].head = map[i]
      BY <2>1 DEF JointInv, SharersInHList, HList, Sharer
    <3>2. map[i] # k
      BY <1>5
    <3>3. hitem'[i] = hitem[i]
      BY <1>11, <3>1, <3>2
    <3>4. QED
      BY <1>2, <3>1, <3>2, <3>3
  <2>2. QED
    BY <1>2, <1>8, <2>1 DEF SharersInHList, HList, Sharer
<1>14. \A q \in Pfns : frame[q] # "anon" => frame'[q] # "anon"
  BY <1>5, <1>6
<1>15. ASSUME NEW e \in errtab, e.type = "MERGE_TWO_FAILED"
       PROVE  frame'[shadow[e.from]] # "node"
  <2>1. shadow[e.from] \in Pfns /\ frame[shadow[e.from]] # "node"
    BY <1>3, <1>15, FailureFacts
  <2>2. QED
    BY <1>6, <2>1
<1>16. QED
  BY <1>1, <1>2, <1>3, <1>8, <1>9, <1>10, <1>12, <1>13, <1>14, <1>15, NoFailure

\* The frame that an entry's item is to share is not that of a failed
\* unstable merge, so no failure undoes the item.
LEMMA MergeNotUndone ==
  ASSUME JointInv, hphase = "apply", applied < Len(log),
         NEW i \in MergeItems(Entry), NEW k, Believed(i, k),
         \A e \in errtab : e.type = "MERGE_TWO_FAILED" => shadow[e.from] # k
  PROVE  ~Undone(i, errtab)
<1>1. SUFFICES ASSUME NEW e \in errtab,
                      \/ e.from = i
                      \/ /\ e.type = "MERGE_TWO_FAILED"
                         /\ rmap_tree[e.from].stable_node = rmap_tree[i].stable_node
               PROVE  FALSE
  BY DEF Undone
<1>2. e.from # i
  BY EntryFacts, FailureFacts
<1>3. e.type = "MERGE_TWO_FAILED" => Believed(e.from, shadow[e.from]) /\ shadow[e.from] # k
  BY FailureFacts
<1>4. QED
  BY <1>1, <1>2, <1>3 DEF Believed

\* The host's item of a merge into frame k.
LEMMA AppendedItem ==
  ASSUME NEW it \in HostItemRec, NEW k
  PROVE  /\ stable_tree_append(it, k).stable /\ stable_tree_append(it, k).head = k
         /\ stable_tree_append(it, k).alloc = it.alloc
         /\ FailedItem(it, k).stable = FALSE /\ FailedItem(it, k).alloc = it.alloc
         /\ remove_rmap_item_from_tree(it).stable = FALSE
         /\ remove_rmap_item_from_tree(it).alloc = it.alloc
<1>1. it.stable \in BOOLEAN
  BY DEF HostItemRec
<1>2. QED
  BY <1>1 DEF HostItemRec, stable_tree_append, FailedItem, remove_rmap_item_from_tree

\* A page is merged with the page of a node.
LEMMA StableMergeJoint ==
  ASSUME JointInv, GuestInv', StableMergeDone
  PROVE  JointInv'
<1> DEFINE x == Entry.from
           k == Entry.kpfn
<1>1. EntryDone /\ errtab' = errtab /\ Entry.type = "STABLE_MERGE" /\ HasStableNode(k)
  BY DEF StableMergeDone, Applying, applyRest, EntryDone
<1>2. /\ content' = content /\ frame' = frame /\ pinned' = pinned /\ shadow' = shadow
      /\ hnode' = hnode
      /\ hitem' = [hitem EXCEPT ![x] = stable_tree_append(hitem[x], k)]
      /\ \/ shadow[x] = k
         \/ StillMapped(x) /\ pages_identical(shadow[x], k) /\ map' = [map EXCEPT ![x] = k]
  BY DEF StableMergeDone, applyRest
<1>3. hphase = "apply" /\ applied < Len(log)
  BY <1>1 DEF EntryDone
<1>4. MergeItems(Entry) = {x}
  BY <1>1 DEF MergeItems
<1>5. /\ x \in Items /\ shadow[x] \in Pfns /\ frame[shadow[x]] = "anon" /\ ~Sharer(x)
      /\ Believed(x, k)
  BY <1>1, <1>3, <1>4, EntryFacts
<1>6. k \in Pfns /\ frame[k] = "node"
  BY <1>1 DEF HasStableNode
<1>7. /\ SystemTypeOK /\ FramesOK
      /\ map \in [Items -> Pfns \cup {NoPfn}] /\ hitem \in [Items -> HostItemRec]
  BY DEF JointInv, GuestInv, SystemTypeOK
<1>8. /\ map' = [map EXCEPT ![x] = k]
      /\ content[k] = content[shadow[x]]
  BY <1>2, <1>5, <1>6 DEF pages_identical
<1> HIDE DEF x, k
<1>9. \A i \in Items : map'[i] = IF i = x THEN k ELSE map[i]
  BY <1>7, <1>8
<1>10. \A i \in Items : hitem'[i] = IF i = x THEN stable_tree_append(hitem[x], k) ELSE hitem[i]
  BY <1>2, <1>7
<1>11. /\ hitem'[x].stable /\ hitem'[x].head = k /\ hitem'[x].alloc = hitem[x].alloc
  <2>1. hitem[x] \in HostItemRec
    BY <1>5, <1>7
  <2>2. hitem'[x] = stable_tree_append(hitem[x], k)
    BY <1>5, <1>10
  <2>3. /\ stable_tree_append(hitem[x], k).stable /\ stable_tree_append(hitem[x], k).head = k
        /\ stable_tree_append(hitem[x], k).alloc = hitem[x].alloc
    BY <2>1, AppendedItem
  <2>4. QED
    BY <2>2, <2>3
<1>12. FramesOK'
  <2>1. \A i \in Items : map'[i] # NoPfn => frame[map'[i]] # "ksm" /\ content[map'[i]] \in Hashes
    BY <1>5, <1>6, <1>7, <1>8, <1>9, ServerAssumption DEF FramesOK
  <2>2. QED
    BY <1>2, <1>7, <2>1 DEF FramesOK
<1>13. ListingExclusive'
  <2>1. ASSUME NEW i \in Items, NEW j \in Items, i # j, shadow[i] # NoPfn,
               shadow[i] = shadow[j] \/ shadow[i] = map'[j]
        PROVE  frame[shadow[i]] # "anon"
    <3>1. shadow[i] = k \/ shadow[i] = shadow[j] \/ shadow[i] = map[j]
      BY <1>9, <2>1
    <3>2. QED
      BY <1>6, <2>1, <3>1 DEF JointInv, ListingExclusive
  <2>2. QED
    BY <1>2, <2>1 DEF ListingExclusive
<1>14. HostItemsOK'
  <2>1. hitem[x].alloc
    BY <1>5, ServerAssumption DEF JointInv, HostItemsOK
  <2>2. ASSUME NEW i \in Items, hitem'[i].stable \/ shadow[i] # NoPfn
        PROVE  hitem'[i].alloc
    BY <1>10, <1>11, <2>1, <2>2 DEF JointInv, HostItemsOK
  <2>3. QED
    BY <1>2, <2>2 DEF HostItemsOK
<1>15. SharersInHList'
  <2>1. ASSUME NEW i \in Items, Sharer(i)'
        PROVE  map'[i] \in hnode /\ hitem'[i].stable /\ hitem'[i].head = map'[i]
    <3>1. CASE i = x
      BY <1>6, <1>7, <1>9, <1>11, <3>1 DEF FramesOK
    <3>2. CASE i # x
      BY <1>2, <1>9, <1>10, <2>1, <3>2 DEF JointInv, SharersInHList, HList, Sharer
    <3>3. QED
      BY <3>1, <3>2
  <2>2. QED
    BY <1>2, <2>1 DEF SharersInHList, HList, Sharer
<1>16. \A i \in Items : ListedKsm(i)' <=> ListedKsm(i)
  BY <1>2 DEF ListedKsm
<1>17. \A i \in Items \ {x} : Sharer(i)' => Sharer(i) /\ map'[i] = map[i]
  BY <1>2, <1>9 DEF Sharer
<1>18. ~Undone(x, errtab)
  <2>1. \A e \in errtab : e.type = "MERGE_TWO_FAILED" => shadow[e.from] # k
    BY <1>3, <1>6, FailureFacts
  <2>2. x \in MergeItems(Entry)
    BY <1>4
  <2>3. QED
    BY <1>3, <1>5, <2>1, <2>2, MergeNotUndone
<1>19. ~ListedKsm(x)
  BY <1>5 DEF ListedKsm
<1>20. \A i \in MergeItems(Entry) :
           /\ Sharer(i)' => Believed(i, map'[i]) /\ ~Undone(i, errtab)
           /\ ListedKsm(i)' => Believed(i, shadow[i])
  BY <1>4, <1>5, <1>9, <1>16, <1>18, <1>19
<1>21. \A e \in errtab : e.type = "MERGE_TWO_FAILED" => frame'[shadow[e.from]] # "node"
  BY <1>2, <1>3, FailureFacts
<1>22. QED
  BY <1>1, <1>2, <1>4, <1>12, <1>13, <1>14, <1>15, <1>16, <1>17, <1>20, <1>21, NoFailure

\* A merge with the page of a node fails and is reported.
LEMMA StableFailedJoint ==
  ASSUME JointInv, GuestInv', StableMergeFailed
  PROVE  JointInv'
<1> DEFINE x == Entry.from
           k == Entry.kpfn
           e0 == [type |-> "MERGE_ONE_FAILED", from |-> x, kpfn |-> k]
<1>1. EntryDone /\ Entry.type = "STABLE_MERGE" /\ HasStableNode(k)
  BY DEF StableMergeFailed, Applying, applyRest, EntryDone
<1>2. /\ map' = map /\ content' = content /\ frame' = frame /\ pinned' = pinned
      /\ shadow' = shadow /\ hnode' = hnode
      /\ hitem' = [hitem EXCEPT ![x] = FailedItem(hitem[x], k)]
      /\ errtab' = errtab \cup {e0}
  BY DEF StableMergeFailed, applyRest, insert_error_log
<1>3. hphase = "apply" /\ applied < Len(log)
  BY <1>1 DEF EntryDone
<1>4. MergeItems(Entry) = {x}
  BY <1>1 DEF MergeItems
<1>5. /\ x \in Items /\ shadow[x] \in Pfns /\ frame[shadow[x]] = "anon" /\ ~Sharer(x)
      /\ Believed(x, k) /\ applied \in Nat /\ Entry = log[applied + 1]
  BY <1>1, <1>3, <1>4, EntryFacts
<1>6. k \in Pfns /\ frame[k] = "node"
  BY <1>1 DEF HasStableNode
<1>7. SystemTypeOK /\ hitem \in [Items -> HostItemRec]
  BY DEF JointInv, GuestInv, SystemTypeOK
<1>8. e0.type = "MERGE_ONE_FAILED" /\ e0.from = x /\ e0.kpfn = k
  OBVIOUS
<1>9. ReportOf(e0, log[applied + 1])
  BY <1>1, <1>5, <1>8 DEF ReportOf
<1> HIDE DEF x, k, e0
<1>10. \A i \in Items : hitem'[i] = IF i = x THEN FailedItem(hitem[x], k) ELSE hitem[i]
  BY <1>2, <1>7
<1>11. hitem'[x].stable = FALSE /\ hitem'[x].alloc = hitem[x].alloc
  <2>1. hitem[x] \in HostItemRec
    BY <1>5, <1>7
  <2>2. hitem'[x] = FailedItem(hitem[x], k)
    BY <1>5, <1>10
  <2>3. /\ FailedItem(hitem[x], k).stable = FALSE
        /\ FailedItem(hitem[x], k).alloc = hitem[x].alloc
    BY <2>1, AppendedItem
  <2>4. QED
    BY <2>2, <2>3
<1>12. FramesOK' /\ ListingExclusive'
  BY <1>2 DEF JointInv, FramesOK, ListingExclusive
<1>13. HostItemsOK'
  <2>1. ASSUME NEW i \in Items, hitem'[i].stable \/ shadow[i] # NoPfn
        PROVE  hitem'[i].alloc
    BY <1>10, <1>11, <2>1 DEF JointInv, HostItemsOK
  <2>2. QED
    BY <1>2, <2>1 DEF HostItemsOK
<1>14. \A i \in Items : (Sharer(i)' <=> Sharer(i)) /\ (ListedKsm(i)' <=> ListedKsm(i))
  BY <1>2 DEF Sharer, ListedKsm
<1>15. SharersInHList'
  <2>1. ASSUME NEW i \in Items, Sharer(i)
        PROVE  map[i] \in hnode /\ hitem'[i].stable /\ hitem'[i].head = map[i]
    <3>1. i # x
      BY <1>5, <2>1
    <3>2. QED
      BY <1>10, <2>1, <3>1 DEF JointInv, SharersInHList, HList, Sharer
  <2>2. QED
    BY <1>2, <1>14, <2>1 DEF SharersInHList, HList, Sharer
<1>16. \A i \in Items : Sharer(i) => ~Undone(i, errtab')
  <2>1. ASSUME NEW i \in Items, Sharer(i)
        PROVE  ~Undone(i, errtab)
    BY <1>3, <2>1 DEF JointInv, ServerKnows, OpenErrs
  <2>2. QED
    BY <1>2, <1>5, <1>8, <2>1 DEF Undone
<1>17. ASSUME NEW e \in errtab'
       PROVE  /\ \E l \in 1 .. applied + 1 : ReportOf(e, log[l])
              /\ e.type = "MERGE_ONE_FAILED" => e.kpfn \in Pfns /\ frame'[e.kpfn] # "anon"
              /\ e.type = "MERGE_TWO_FAILED" =>
                   shadow[e.from] # NoPfn /\ frame'[shadow[e.from]] # "node"
  <2>1. CASE e = e0
    <3>1. applied + 1 \in 1 .. applied + 1
      BY <1>5
    <3>2. QED
      BY <1>2, <1>6, <1>8, <1>9, <2>1, <3>1
  <2>2. CASE e \in errtab
    <3>1. PICK l \in 1 .. applied : ReportOf(e, log[l])
      BY <1>3, <2>2, FailureFacts
    <3>2. l \in 1 .. applied + 1
      BY <1>5, <3>1
    <3>3. QED
      BY <1>2, <1>3, <2>2, <3>1, <3>2, FailureFacts, ServerAssumption
  <2>3. QED
    BY <1>2, <2>1, <2>2
<1>18. ASSUME NEW e \in errtab', NEW f \in errtab', e.type = "MERGE_ONE_FAILED",
              f.type = "MERGE_TWO_FAILED"
       PROVE  rmap_tree[e.from].stable_node # rmap_tree[f.from].stable_node
  <2>1. f \in errtab
    BY <1>2, <1>8, <1>18
  <2>2. CASE e = e0
    <3>1. Believed(f.from, shadow[f.from]) /\ frame[shadow[f.from]] # "node"
      BY <1>3, <1>18, <2>1, FailureFacts
    <3>2. QED
      BY <1>5, <1>6, <1>8, <2>2, <3>1 DEF Believed
  <2>3. CASE e \in errtab
    BY <1>3, <1>18, <2>1, <2>3 DEF JointInv, ErrorsAreReportable, HostReports
  <2>4. QED
    BY <1>2, <2>2, <2>3
<1>19. ~ListedKsm(x)
  BY <1>5 DEF ListedKsm
<1>20. QED
  BY <1>1, <1>2, <1>4, <1>5, <1>12, <1>13, <1>14, <1>15, <1>16, <1>17, <1>18, <1>19, EntryFrame

\* The page that an unstable merge promotes: no other page is listed with its
\* frame, nor mapped to it as long as the page itself is.
LEMMA PromotedFrame ==
  ASSUME JointInv, hphase = "apply", applied < Len(log), Entry.type = "UNSTABLE_MERGE"
  PROVE  /\ Entry.from \in Items /\ Entry.to \in Items
         /\ MergeItems(Entry) = {Entry.from, Entry.to}
         /\ shadow[Entry.from] \in Pfns /\ frame[shadow[Entry.from]] = "anon"
         /\ shadow[Entry.from] \notin hnode
         /\ ~Sharer(Entry.from) /\ ~Sharer(Entry.to)
         /\ ~ListedKsm(Entry.from) /\ ~ListedKsm(Entry.to)
         /\ \A i \in Items : i # Entry.from => shadow[i] # shadow[Entry.from]
         /\ \A i \in Items : i # Entry.from => map[i] # shadow[Entry.from]
         /\ Believed(Entry.from, shadow[Entry.from]) /\ Believed(Entry.to, shadow[Entry.from])
<1> DEFINE x == Entry.from
           y == Entry.to
<1>1. MergeItems(Entry) = {x, y} /\ EntryItems(Entry) = {x, y}
  BY DEF MergeItems, EntryItems
<1>2. /\ x \in Items /\ y \in Items /\ shadow[x] \in Pfns /\ frame[shadow[x]] = "anon"
      /\ frame[shadow[y]] = "anon" /\ ~Sharer(x) /\ ~Sharer(y)
      /\ Believed(x, shadow[x]) /\ Believed(y, shadow[x])
  BY <1>1, EntryFacts
<1>3. shadow[x] # NoPfn
  BY <1>2, ServerAssumption
<1>4. /\ \A i \in Items : i # x => shadow[i] # shadow[x]
      /\ \A i \in Items : i # x => map[i] # shadow[x]
  BY <1>2, <1>3 DEF JointInv, ListingExclusive
<1>5. ~ListedKsm(x) /\ ~ListedKsm(y)
  BY <1>2 DEF ListedKsm
<1>6. shadow[x] \notin hnode
  BY <1>2 DEF JointInv, FramesOK
<1>7. QED
  BY <1>1, <1>2, <1>4, <1>5, <1>6

\* Two pages become one ksm page with a node of its own.
LEMMA UnstableMergeJoint ==
  ASSUME JointInv, GuestInv', UnstableMergeDone
  PROVE  JointInv'
<1> DEFINE x == Entry.from
           y == Entry.to
           k == shadow[x]
<1>1. EntryDone /\ errtab' = errtab /\ Entry.type = "UNSTABLE_MERGE"
  BY DEF UnstableMergeDone, Applying, applyRest, EntryDone
<1>2. /\ content' = content /\ pinned' = pinned /\ shadow' = shadow
      /\ map' = [map EXCEPT ![y] = k] /\ frame' = [frame EXCEPT ![k] = "node"]
      /\ hnode' = hnode \cup {k} /\ hitem' = BothAppended(x, y, k)
      /\ map[x] = k /\ content[k] = content[shadow[y]]
  BY DEF UnstableMergeDone, applyRest, StillMapped, pages_identical
<1>3. hphase = "apply" /\ applied < Len(log)
  BY <1>1 DEF EntryDone
<1>4. /\ x \in Items /\ y \in Items /\ MergeItems(Entry) = {x, y}
      /\ k \in Pfns /\ frame[k] = "anon"
      /\ ~Sharer(x) /\ ~Sharer(y) /\ ~ListedKsm(x) /\ ~ListedKsm(y)
      /\ \A i \in Items : i # x => shadow[i] # k
      /\ \A i \in Items : i # x => map[i] # k
      /\ Believed(x, k) /\ Believed(y, k)
  BY <1>1, <1>3, PromotedFrame
<1>5. /\ SystemTypeOK /\ FramesOK /\ frame \in [Pfns -> FrameKinds]
      /\ map \in [Items -> Pfns \cup {NoPfn}] /\ hitem \in [Items -> HostItemRec]
  BY DEF JointInv, GuestInv, SystemTypeOK
<1>6. k # NoPfn /\ shadow[x] = k
  BY <1>4, ServerAssumption
<1> HIDE DEF x, y, k
<1>7. \A i \in Items : map'[i] = IF i = y THEN k ELSE map[i]
  BY <1>2, <1>5
<1>8. \A q \in Pfns : frame'[q] = IF q = k THEN "node" ELSE frame[q]
  BY <1>2, <1>5
<1>9. \A i \in Items : i \in {x, y} <=> map'[i] = k
  BY <1>2, <1>4, <1>7
<1>10. ASSUME NEW i \in Items
       PROVE  /\ i \in {x, y} => hitem'[i].stable /\ hitem'[i].head = k
              /\ i \notin {x, y} => hitem'[i] = hitem[i]
              /\ hitem'[i].alloc = hitem[i].alloc
  <2>1. hitem[i] \in HostItemRec
    BY <1>5
  <2>2. hitem'[i] = IF i \in {x, y} THEN stable_tree_append(hitem[i], k) ELSE hitem[i]
    BY <1>2 DEF BothAppended
  <2>3. /\ stable_tree_append(hitem[i], k).stable /\ stable_tree_append(hitem[i], k).head = k
        /\ stable_tree_append(hitem[i], k).alloc = hitem[i].alloc
    BY <2>1, AppendedItem
  <2>4. QED
    BY <2>2, <2>3
<1>11. \A i \in Items : (map[i] # NoPfn => map[i] \in Pfns) /\ (shadow[i] # NoPfn => shadow[i] \in Pfns)
  BY <1>5, FrameTypes
<1>12. FramesOK'
  <2>1. \A q \in Pfns : frame'[q] # "anon" => q \in pinned' \/ \E i \in Items : shadow'[i] = q
    BY <1>2, <1>4, <1>5, <1>6, <1>8 DEF FramesOK
  <2>2. \A q \in Pfns : frame'[q] = "node" <=> q \in hnode'
    BY <1>2, <1>5, <1>8 DEF FramesOK
  <2>3. content[k] \in Hashes
    BY <1>4, <1>5, <1>6 DEF FramesOK
  <2>4. \A i \in Items : map'[i] # NoPfn => frame'[map'[i]] # "ksm" /\ content[map'[i]] \in Hashes
    BY <1>4, <1>5, <1>7, <1>8, <1>11, <2>3 DEF FramesOK
  <2>5. QED
    BY <1>2, <1>5, <2>1, <2>2, <2>4 DEF FramesOK
<1>13. ListingExclusive'
  <2>1. ASSUME NEW i \in Items, NEW j \in Items, i # j, shadow[i] # NoPfn,
               shadow[i] = shadow[j] \/ shadow[i] = map'[j]
        PROVE  frame'[shadow[i]] # "anon"
    <3>1. shadow[i] = k \/ shadow[i] = shadow[j] \/ shadow[i] = map[j]
      BY <1>7, <2>1
    <3>2. shadow[i] = k \/ frame[shadow[i]] # "anon"
      BY <2>1, <3>1 DEF JointInv, ListingExclusive
    <3>3. QED
      BY <1>8, <1>11, <2>1, <3>2
  <2>2. QED
    BY <1>2, <2>1 DEF ListingExclusive
<1>14. HostItemsOK'
  <2>1. shadow[y] # NoPfn /\ shadow[x] # NoPfn
    BY <1>1, <1>3, EntryFacts, ServerAssumption DEF EntryItems, MergeItems, x, y
  <2>2. ASSUME NEW i \in Items, hitem'[i].stable \/ shadow[i] # NoPfn
        PROVE  hitem'[i].alloc
    BY <1>10, <2>1, <2>2 DEF JointInv, HostItemsOK
  <2>3. QED
    BY <1>2, <2>2 DEF HostItemsOK
<1>15. \A i \in Items : (Sharer(i)' /\ i \notin {x, y}) => Sharer(i) /\ map'[i] = map[i]
  BY <1>4, <1>7, <1>8, <1>11 DEF Sharer
<1>16. SharersInHList'
  <2>1. ASSUME NEW i \in Items, Sharer(i)'
        PROVE  map'[i] \in hnode' /\ hitem'[i].stable /\ hitem'[i].head = map'[i]
    <3>1. CASE i \in {x, y}
      BY <1>2, <1>9, <1>10, <3>1
    <3>2. CASE i \notin {x, y}
      BY <1>2, <1>10, <1>15, <2>1, <3>2 DEF JointInv, SharersInHList, HList, Sharer
    <3>3. QED
      BY <3>1, <3>2
  <2>2. QED
    BY <1>2, <2>1 DEF SharersInHList, HList, Sharer
<1>17. \A i \in Items : (ListedKsm(i)' /\ i # x) => ListedKsm(i)
  BY <1>2, <1>4, <1>8, <1>11 DEF ListedKsm
<1>18. ASSUME NEW e \in errtab, e.type = "MERGE_TWO_FAILED"
       PROVE  shadow[e.from] \in Pfns \ {k} /\ frame[shadow[e.from]] # "node"
  <2>1. /\ e.from \in Items /\ e.from \notin EntryItems(Entry)
        /\ shadow[e.from] \in Pfns /\ frame[shadow[e.from]] # "node"
    BY <1>3, <1>18, FailureFacts
  <2>2. e.from # x
    BY <1>3, <1>4, <2>1, EntryFacts
  <2>3. QED
    BY <1>4, <2>1, <2>2
<1>19. ~Undone(x, errtab) /\ ~Undone(y, errtab)
  <2>1. x \in MergeItems(Entry) /\ y \in MergeItems(Entry)
    BY <1>4
  <2>2. QED
    BY <1>3, <1>4, <1>18, <2>1, MergeNotUndone
<1>20. \A i \in MergeItems(Entry) :
           /\ Sharer(i)' => Believed(i, map'[i]) /\ ~Undone(i, errtab)
           /\ ListedKsm(i)' => Believed(i, shadow[i])
  BY <1>4, <1>6, <1>9, <1>17, <1>19
<1>21. \A i \in Items \ MergeItems(Entry) :
           /\ Sharer(i)' => Sharer(i) /\ map'[i] = map[i]
           /\ ListedKsm(i)' => ListedKsm(i)
  BY <1>4, <1>15, <1>17
<1>22. \A e \in errtab : e.type = "MERGE_TWO_FAILED" => frame'[shadow[e.from]] # "node"
  BY <1>8, <1>18
<1>23. \A q \in Pfns : frame[q] # "anon" => frame'[q] # "anon"
  BY <1>8
<1>24. QED
  BY <1>1, <1>12, <1>13, <1>14, <1>16, <1>20, <1>21, <1>22, <1>23, NoFailure

\* What a failed unstable merge leaves of pages and frames: the first page may
\* have been promoted, and is then taken back to a copy.
LEMMA FailedFrames ==
  ASSUME JointInv, hphase = "apply", applied < Len(log), Entry.type = "UNSTABLE_MERGE",
         pinned' = pinned, shadow' = shadow, hnode' = hnode,
         \/ UNCHANGED <<map, content, frame>>
         \/ StillMapped(Entry.from) /\ PromotionUndone(Entry.from, shadow[Entry.from])
  PROVE  /\ FramesOK' /\ ListingExclusive'
         /\ \A i \in Items : Sharer(i)' => Sharer(i) /\ map'[i] = map[i]
         /\ \A i \in Items : (ListedKsm(i)' /\ i # Entry.from) => ListedKsm(i)
         /\ \A q \in Pfns : /\ frame[q] # "anon" => frame'[q] # "anon"
                            /\ frame'[q] = "node" => frame[q] = "node"
<1> DEFINE x == Entry.from
           k == shadow[x]
<1>1. /\ SystemTypeOK /\ FramesOK /\ frame \in [Pfns -> FrameKinds]
      /\ map \in [Items -> Pfns \cup {NoPfn}] /\ content \in [Pfns -> Hashes \cup {NullHash}]
      /\ shadow \in [Items -> Pfns \cup {NoPfn}]
  BY DEF JointInv, GuestInv, SystemTypeOK
<1>2. CASE UNCHANGED <<map, content, frame>>
  <2>1. FramesOK' /\ ListingExclusive'
    BY <1>2 DEF JointInv, FramesOK, ListingExclusive
  <2>2. QED
    BY <1>2, <2>1 DEF Sharer, ListedKsm
<1>3. CASE StillMapped(x) /\ PromotionUndone(x, k)
  <2>1. /\ x \in Items /\ k \in Pfns /\ frame[k] = "anon" /\ k \notin hnode
        /\ \A i \in Items : i # x => shadow[i] # k
        /\ \A i \in Items : i # x => map[i] # k
    BY PromotedFrame
  <2>2. PICK p \in FreeFrames :
          /\ map' = [map EXCEPT ![x] = p]
          /\ content' = [content EXCEPT ![p] = content[k]]
          /\ frame' = [frame EXCEPT ![p] = "anon", ![k] = "ksm"]
    BY <1>3 DEF PromotionUndone
  <2>3. p \in Pfns /\ frame[p] = "anon" /\ (\A i \in Items : map[i] # p /\ shadow[i] # p)
    BY <1>1, KsmFrames DEF FreeFrames, Mapped
  <2>4. p # k /\ k # NoPfn /\ p # NoPfn /\ shadow[x] = k
    BY <2>1, <2>3, ServerAssumption
  <2>5. content[k] \in Hashes
    BY <1>1, <2>1, <2>4 DEF FramesOK
  <2> HIDE DEF x, k
  <2>6. \A i \in Items : map'[i] = IF i = x THEN p ELSE map[i]
    BY <1>1, <2>2
  <2>7. \A q \in Pfns : frame'[q] = IF q = k THEN "ksm" ELSE frame[q]
    BY <1>1, <2>1, <2>2, <2>3
  <2>8. \A q \in Pfns : content'[q] = IF q = p THEN content[k] ELSE content[q]
    BY <1>1, <2>2
  <2>9. \A i \in Items : (map[i] # NoPfn => map[i] \in Pfns) /\ (shadow[i] # NoPfn => shadow[i] \in Pfns)
    BY <1>1
  <2>10. FramesOK'
    <3>1. \A q \in Pfns : frame'[q] # "anon" => q \in pinned \/ \E i \in Items : shadow[i] = q
      BY <1>1, <2>1, <2>4, <2>7 DEF FramesOK
    <3>2. \A q \in Pfns : frame'[q] = "node" <=> q \in hnode
      BY <1>1, <2>1, <2>7 DEF FramesOK
    <3>3. ASSUME NEW i \in Items, map'[i] # NoPfn
          PROVE  frame'[map'[i]] # "ksm" /\ content'[map'[i]] \in Hashes
      <4>1. CASE i = x
        BY <2>3, <2>4, <2>5, <2>6, <2>7, <2>8, <4>1
      <4>2. CASE i # x
        <5>1. map'[i] = map[i] /\ map[i] \in Pfns /\ map[i] # k
          BY <2>1, <2>6, <2>9, <3>3, <4>2
        <5>2. frame[map[i]] # "ksm" /\ content[map[i]] \in Hashes
          BY <1>1, <3>3, <5>1 DEF FramesOK
        <5>3. QED
          BY <2>5, <2>7, <2>8, <5>1, <5>2
      <4>3. QED
        BY <4>1, <4>2
    <3>4. \A i \in Items : shadow[i] # NoPfn => content'[shadow[i]] \in Hashes
      BY <1>1, <2>5, <2>8, <2>9 DEF FramesOK
    <3>5. QED
      BY <3>1, <3>2, <3>3, <3>4 DEF FramesOK
  <2>11. ListingExclusive'
    <3>1. ASSUME NEW i \in Items, NEW j \in Items, i # j, shadow[i] # NoPfn,
                 shadow[i] = shadow[j] \/ shadow[i] = map'[j]
          PROVE  frame'[shadow[i]] # "anon"
      <4>1. shadow[i] = shadow[j] \/ shadow[i] = map[j]
        BY <2>3, <2>6, <3>1
      <4>2. frame[shadow[i]] # "anon" /\ shadow[i] \in Pfns
        BY <2>9, <3>1, <4>1 DEF JointInv, ListingExclusive
      <4>3. QED
        BY <2>7, <4>2
    <3>2. QED
      BY <3>1 DEF ListingExclusive
  <2>12. \A i \in Items : Sharer(i)' => Sharer(i) /\ map'[i] = map[i]
    BY <2>1, <2>3, <2>4, <2>6, <2>7, <2>9 DEF Sharer
  <2>13. \A i \in Items : (ListedKsm(i)' /\ i # x) => ListedKsm(i)
    BY <2>1, <2>7, <2>9 DEF ListedKsm
  <2>14. \A q \in Pfns : /\ frame[q] # "anon" => frame'[q] # "anon"
                         /\ frame'[q] = "node" => frame[q] = "node"
    BY <2>7
  <2>15. QED
    BY <2>10, <2>11, <2>12, <2>13, <2>14 DEF x
<1>4. QED
  BY <1>2, <1>3

\* An unstable merge fails and is reported.
LEMMA UnstableFailedJoint ==
  ASSUME JointInv, GuestInv', UnstableMergeFailed
  PROVE  JointInv'
<1> DEFINE x == Entry.from
           y == Entry.to
           k == shadow[x]
           e0 == [type |-> "MERGE_TWO_FAILED", from |-> x, to |-> y]
<1>1. EntryDone /\ Entry.type = "UNSTABLE_MERGE"
  BY DEF UnstableMergeFailed, Applying, applyRest, EntryDone
<1>2. /\ pinned' = pinned /\ shadow' = shadow /\ hnode' = hnode
      /\ hitem' = BothRemoved(x, y)
      /\ errtab' = errtab \cup {e0}
      /\ \/ UNCHANGED <<map, content, frame>>
         \/ StillMapped(x) /\ PromotionUndone(x, k)
  BY DEF UnstableMergeFailed, applyRest, insert_error_log
<1>3. hphase = "apply" /\ applied < Len(log)
  BY <1>1 DEF EntryDone
<1>4. /\ x \in Items /\ y \in Items /\ MergeItems(Entry) = {x, y}
      /\ k \in Pfns /\ frame[k] = "anon"
      /\ ~Sharer(x) /\ ~Sharer(y) /\ ~ListedKsm(x) /\ ~ListedKsm(y)
      /\ Believed(x, k)
  BY <1>1, <1>3, PromotedFrame
<1>5. /\ FramesOK' /\ ListingExclusive'
      /\ \A i \in Items : Sharer(i)' => Sharer(i) /\ map'[i] = map[i]
      /\ \A i \in Items : (ListedKsm(i)' /\ i # x) => ListedKsm(i)
      /\ \A q \in Pfns : /\ frame[q] # "anon" => frame'[q] # "anon"
                         /\ frame'[q] = "node" => frame[q] = "node"
  BY <1>1, <1>2, <1>3, FailedFrames
<1>6. /\ SystemTypeOK /\ hitem \in [Items -> HostItemRec]
      /\ applied \in Nat /\ Entry = log[applied + 1]
  BY <1>3, EntryFacts DEF JointInv, GuestInv, SystemTypeOK
<1>7. e0.type = "MERGE_TWO_FAILED" /\ e0.from = x /\ e0.to = y
  OBVIOUS
<1>8. ReportOf(e0, log[applied + 1])
  BY <1>1, <1>6, <1>7 DEF ReportOf
<1>9. shadow[x] = k /\ k # NoPfn
  BY <1>4, ServerAssumption
<1> HIDE DEF x, y, k, e0
<1>10. ASSUME NEW i \in Items
       PROVE  /\ i \in {x, y} => hitem'[i].stable = FALSE
              /\ i \notin {x, y} => hitem'[i] = hitem[i]
              /\ hitem'[i].alloc = hitem[i].alloc
  <2>1. hitem[i] \in HostItemRec
    BY <1>6
  <2>2. hitem'[i] = IF i \in {x, y} THEN remove_rmap_item_from_tree(hitem[i]) ELSE hitem[i]
    BY <1>2 DEF BothRemoved
  <2>3. /\ remove_rmap_item_from_tree(hitem[i]).stable = FALSE
        /\ remove_rmap_item_from_tree(hitem[i]).alloc = hitem[i].alloc
    BY <2>1, AppendedItem
  <2>4. QED
    BY <2>2, <2>3
<1>11. HostItemsOK'
  <2>1. ASSUME NEW i \in Items, hitem'[i].stable \/ shadow[i] # NoPfn
        PROVE  hitem'[i].alloc
    BY <1>10, <2>1 DEF JointInv, HostItemsOK
  <2>2. QED
    BY <1>2, <2>1 DEF HostItemsOK
<1>12. SharersInHList'
  <2>1. ASSUME NEW i \in Items, Sharer(i)'
        PROVE  map'[i] \in hnode /\ hitem'[i].stable /\ hitem'[i].head = map'[i]
    <3>1. Sharer(i) /\ map'[i] = map[i] /\ i \notin {x, y}
      BY <1>4, <1>5, <2>1
    <3>2. QED
      BY <1>10, <3>1 DEF JointInv, SharersInHList, HList, Sharer
  <2>2. QED
    BY <1>2, <2>1 DEF SharersInHList, HList, Sharer
<1>13. ASSUME NEW i \in Items, Sharer(i)'
       PROVE  ~Undone(i, errtab')
  <2>1. Sharer(i) /\ Believed(i, map[i]) /\ ~Undone(i, errtab)
    BY <1>3, <1>5, <1>13 DEF JointInv, ServerKnows, OpenErrs
  <2>2. x # i /\ rmap_tree[x].stable_node # rmap_tree[i].stable_node
    BY <1>4, <2>1 DEF Believed, Sharer
  <2>3. QED
    BY <1>2, <1>7, <2>1, <2>2 DEF Undone
<1>14. ASSUME NEW e \in errtab'
       PROVE  /\ \E l \in 1 .. applied + 1 : ReportOf(e, log[l])
              /\ e.type = "MERGE_ONE_FAILED" => e.kpfn \in Pfns /\ frame'[e.kpfn] # "anon"
              /\ e.type = "MERGE_TWO_FAILED" =>
                   shadow[e.from] # NoPfn /\ frame'[shadow[e.from]] # "node"
  <2>1. CASE e = e0
    <3>1. applied + 1 \in 1 .. applied + 1
      BY <1>6
    <3>2. QED
      BY <1>4, <1>5, <1>7, <1>8, <1>9, <2>1, <3>1
  <2>2. CASE e \in errtab
    <3>1. PICK l \in 1 .. applied : ReportOf(e, log[l])
      BY <1>3, <2>2, FailureFacts
    <3>2. l \in 1 .. applied + 1
      BY <1>6, <3>1
    <3>3. e.type = "MERGE_ONE_FAILED" => e.kpfn \in Pfns /\ frame[e.kpfn] # "anon"
      BY <1>3, <2>2, FailureFacts
    <3>4. e.type = "MERGE_TWO_FAILED" => shadow[e.from] \in Pfns /\ frame[shadow[e.from]] # "node"
      BY <1>3, <2>2, FailureFacts
    <3>5. QED
      BY <1>5, <3>1, <3>2, <3>3, <3>4, ServerAssumption
  <2>3. QED
    BY <1>2, <2>1, <2>2
<1>15. ASSUME NEW e \in errtab', NEW f \in errtab', e.type = "MERGE_ONE_FAILED",
              f.type = "MERGE_TWO_FAILED"
       PROVE  rmap_tree[e.from].stable_node # rmap_tree[f.from].stable_node
  <2>1. e \in errtab
    BY <1>2, <1>7, <1>15
  <2>2. CASE f = e0
    <3>1. Believed(e.from, e.kpfn) /\ frame[e.kpfn] # "anon"
      BY <1>3, <1>15, <2>1, FailureFacts
    <3>2. QED
      BY <1>4, <1>7, <2>2, <3>1 DEF Believed
  <2>3. CASE f \in errtab
    BY <1>3, <1>15, <2>1, <2>3 DEF JointInv, ErrorsAreReportable, HostReports
  <2>4. QED
    BY <1>2, <2>2, <2>3
<1>16. \A i \in MergeItems(Entry) :
           /\ Sharer(i)' => Believed(i, map'[i])
           /\ ListedKsm(i)' => Believed(i, shadow[i])
  BY <1>4, <1>5, <1>9
<1>17. \A i \in Items \ MergeItems(Entry) :
           /\ Sharer(i)' => Sharer(i) /\ map'[i] = map[i]
           /\ ListedKsm(i)' => ListedKsm(i)
  BY <1>4, <1>5
<1>18. QED
  BY <1>1, <1>5, <1>11, <1>12, <1>13, <1>14, <1>15, <1>16, <1>17, EntryFrame

-----------------------------------------------------------------------------
(***************************************************************************)
(* The server at work                                                      *)
(***************************************************************************)

\* While the server works, the sharers are listed, the server knows them as
\* such, and no failure that it has still to handle undoes them.
LEMMA OffloadFacts ==
  ASSUME JointInv, hphase = "offload"
  PROVE  /\ \A i \in Items : i \in present <=> shadow[i] # NoPfn
         /\ \A i \in Items : Sharer(i) => ListedKsm(i) /\ map[i] = shadow[i]
         /\ \A i \in Items : ListedKsm(i) =>
              /\ i \in present
              /\ rmap_tree[i].state = "Stable"
              /\ Believed(i, shadow[i])
              /\ ~Undone(i, errs)
<1>1. \A i \in Items : i \in present <=> shadow[i] # NoPfn
  BY DEF JointInv, RoundOK, Listed
<1>2. \A i \in Items : Sharer(i) => ListedKsm(i) /\ map[i] = shadow[i]
  BY DEF JointInv, ListingCurrent, Sharer, ListedKsm
<1>3. \A i \in Items : ListedKsm(i) => Believed(i, shadow[i]) /\ ~Undone(i, errs)
  BY DEF JointInv, ServerKnows, OpenErrs
<1>4. QED
  BY <1>1, <1>2, <1>3 DEF ListedKsm, Believed

\* The entry r may be added to the log: its items are of anonymous pages and
\* of no merge so far.
MayLog(r) ==
  /\ r \in LogRec
  /\ \A k \in DOMAIN log : EntryItems(r) \cap MergeItems(log[k]) = {}
  /\ \A i \in EntryItems(r) : shadow[i] # NoPfn /\ ~ListedKsm(i)

\* A step of the server that leaves the items that stay Stable in their nodes,
\* and demotes none that was listed with a ksm page.
LEMMA ServerFrame ==
  ASSUME JointInv, GuestInv', ServerInv', hphase = "offload", UNCHANGED hostVars,
         phase' # "down", present' = present, errs' \subseteq errs,
         \A i \in Items :
           (rmap_tree[i].state = "Stable" /\ rmap_tree'[i].state = "Stable") =>
             /\ rmap_tree'[i].stable_node = rmap_tree[i].stable_node
             /\ node'[rmap_tree[i].stable_node].pfn = node[rmap_tree[i].stable_node].pfn,
         \A i \in Items : ListedKsm(i) => rmap_tree'[i].state = "Stable",
         \/ log' = log
         \/ \E r \in LogRec :
              /\ log' = Append(log, r) /\ MayLog(r)
              /\ r.type = "UNSTABLE_MERGE" =>
                   node'[rmap_tree'[r.from].stable_node].pfn = shadow[r.from],
         PageFrame'
  PROVE  JointInv'
<1>1. /\ map' = map /\ content' = content /\ frame' = frame /\ pinned' = pinned
      /\ hitem' = hitem /\ hnode' = hnode /\ shadow' = shadow /\ hphase' = "offload"
      /\ hphase = "offload"
  BY DEF hostVars, guestVars
<1>2. /\ FramesOK' /\ ListingExclusive' /\ HostItemsOK' /\ SharersInHList'
      /\ \A i \in Items : (Sharer(i)' <=> Sharer(i)) /\ (ListedKsm(i)' <=> ListedKsm(i))
  BY <1>1, SameListing
<1>3. /\ \A i \in Items : i \in present <=> shadow[i] # NoPfn
      /\ \A i \in Items : Sharer(i) => ListedKsm(i) /\ map[i] = shadow[i]
      /\ \A i \in Items : ListedKsm(i) =>
           /\ rmap_tree[i].state = "Stable" /\ Believed(i, shadow[i]) /\ ~Undone(i, errs)
  BY OffloadFacts
<1>4. RoundOK'
  BY <1>1 DEF JointInv, RoundOK, Listed
<1>5. ListingCurrent'
  <2>1. \A i \in Items : Sharer(i)' => shadow'[i] = map'[i]
    BY <1>1, <1>2, <1>3
  <2>2. QED
    BY <1>1, <2>1 DEF ListingCurrent
<1>6. FailuresOK' /\ ErrorsAreReportable'
  BY <1>1 DEF FailuresOK, ErrorsAreReportable
<1>7. log \in Seq(LogRec) /\ log' \in Seq(LogRec)
  BY DEF JointInv, ServerInv, TypeOK
<1>8. ServerKnows'
  <2>1. ASSUME NEW i \in Items, ListedKsm(i)
        PROVE  /\ rmap_tree'[i].state = "Stable"
               /\ rmap_tree'[i].stable_node = rmap_tree[i].stable_node
               /\ node'[rmap_tree'[i].stable_node].pfn = shadow[i]
    BY <1>3, <2>1 DEF Believed
  <2>2. ASSUME NEW i \in Items, ListedKsm(i)
        PROVE  ~Undone(i, errs)'
    <3>1. SUFFICES ASSUME NEW e \in errs',
                          \/ e.from = i
                          \/ /\ e.type = "MERGE_TWO_FAILED"
                             /\ rmap_tree'[e.from].stable_node = rmap_tree'[i].stable_node
                   PROVE  FALSE
      BY DEF Undone
    <3>2. e \in errs /\ e.from \in Items
      BY ErrorFacts DEF JointInv
    <3>3. rmap_tree[e.from].state = "Stable" /\ rmap_tree'[e.from].state = "Stable"
      BY <3>1, <3>2 DEF JointInv, ServerInv, ErrorsApply
    <3>4. rmap_tree'[e.from].stable_node = rmap_tree[e.from].stable_node
      BY <3>2, <3>3
    <3>5. Undone(i, errs)
      BY <2>1, <2>2, <3>1, <3>2, <3>4 DEF Undone
    <3>6. QED
      BY <1>3, <2>2, <3>5
  <2>3. OpenErrs' = errs'
    BY <1>1 DEF OpenErrs
  <2>4. \A i \in Items : ListedKsm(i)' =>
          /\ rmap_tree'[i].state = "Stable" /\ node'[rmap_tree'[i].stable_node].pfn = shadow[i]
          /\ ~Undone(i, errs)'
    BY <1>2, <2>1, <2>2
  <2>5. \A i \in Items : Sharer(i)' => ListedKsm(i)' /\ map'[i] = shadow'[i]
    BY <1>1, <1>2, <1>3
  <2>6. QED
    BY <1>1, <2>3, <2>4, <2>5 DEF ServerKnows, Believed, Undone
<1>9. \A k \in DOMAIN log : EntryItems(log[k]) \subseteq Items
  BY <1>7 DEF EntryItems, MergeItems, LogRec
<1>10. \A k \in DOMAIN log : \A i \in EntryItems(log[k]) :
          shadow[i] # NoPfn /\ ~ListedKsm(i) /\ ~Sharer(i)
  <2>1. Pending = DOMAIN log
    BY <1>1 DEF Pending
  <2>2. QED
    BY <1>1, <2>1 DEF JointInv, PendingAnonymous
<1>11. ASSUME NEW k \in DOMAIN log, log[k].type = "UNSTABLE_MERGE",
              rmap_tree'[log[k].from].state = "Stable"
       PROVE  node'[rmap_tree'[log[k].from].stable_node].pfn = shadow[log[k].from]
  <2>1. log[k].from \in Items
    BY <1>7, LogTypes
  <2>2. Believed(log[k].from, shadow[log[k].from])
    BY <1>1, <1>11 DEF JointInv, NewNodeFrames
  <2>3. QED
    BY <1>11, <2>1, <2>2 DEF Believed
<1>12. ASSUME NEW k \in DOMAIN log', log'[k].type = "UNSTABLE_MERGE"
       PROVE  rmap_tree'[log'[k].from].state = "Stable"
  BY <1>12 DEF ServerInv, LogMatchesMetadata
<1>13. LogOrder' /\ PendingAnonymous' /\ NewNodeFrames'
  <2>1. CASE log' = log
    <3>1. LogOrder'
      BY <2>1 DEF JointInv, LogOrder, EntryItems, MergeItems
    <3>2. Pending' = DOMAIN log
      BY <1>1, <2>1 DEF Pending
    <3>3. PendingAnonymous'
      BY <1>1, <1>2, <1>9, <1>10, <2>1, <3>2 DEF PendingAnonymous, EntryItems, MergeItems
    <3>4. NewNodeFrames'
      BY <1>1, <1>11, <1>12, <2>1 DEF NewNodeFrames, Believed
    <3>5. QED
      BY <3>1, <3>3, <3>4
  <2>2. CASE log' # log
    <3>1. PICK r \in LogRec :
            /\ log' = Append(log, r) /\ MayLog(r)
            /\ r.type = "UNSTABLE_MERGE" =>
                 node'[rmap_tree'[r.from].stable_node].pfn = shadow[r.from]
      BY <2>2
    <3> DEFINE N == Len(log) + 1
    <3>2. /\ DOMAIN log' = DOMAIN log \cup {N} /\ N \notin DOMAIN log
          /\ \A k \in DOMAIN log : log'[k] = log[k]
          /\ log'[N] = r /\ \A k \in DOMAIN log : k < N
      BY <1>7, <3>1, AppendEntry
    <3> HIDE DEF N
    <3>3. /\ \A k \in DOMAIN log : EntryItems(r) \cap MergeItems(log[k]) = {}
          /\ \A i \in EntryItems(r) : shadow[i] # NoPfn /\ ~ListedKsm(i)
      BY <3>1 DEF MayLog
    <3>4. ASSUME NEW k \in DOMAIN log', NEW l \in DOMAIN log', k < l
          PROVE  EntryItems(log'[l]) \cap MergeItems(log'[k]) = {}
      <4>1. k \in DOMAIN log
        <5>1. k \in Nat /\ l \in Nat
          BY <1>7
        <5>2. ~(N < l)
          BY <3>2, <5>1
        <5>3. QED
          BY <3>2, <3>4, <5>1, <5>2
      <4>2. CASE l = N
        BY <3>2, <3>3, <4>1, <4>2
      <4>3. CASE l \in DOMAIN log
        BY <3>2, <3>4, <4>1, <4>3 DEF JointInv, LogOrder
      <4>4. QED
        BY <3>2, <4>2, <4>3
    <3>5. LogOrder'
      BY <3>4 DEF LogOrder, EntryItems, MergeItems
    <3>6. ASSUME NEW k \in DOMAIN log', NEW i \in EntryItems(log'[k])
          PROVE  i \in Items /\ shadow[i] # NoPfn /\ ~ListedKsm(i) /\ ~Sharer(i)
      <4>1. CASE k = N
        <5>1. i \in EntryItems(r)
          BY <3>2, <3>6, <4>1
        <5>2. i \in Items
          BY <3>1, <5>1 DEF EntryItems, MergeItems, LogRec
        <5>3. QED
          BY <1>3, <3>3, <5>1, <5>2
      <4>2. CASE k \in DOMAIN log
        BY <1>9, <1>10, <3>2, <3>6, <4>2
      <4>3. QED
        BY <3>2, <4>1, <4>2
    <3>7. PendingAnonymous'
      BY <1>1, <1>2, <3>6 DEF PendingAnonymous, EntryItems, MergeItems, Pending
    <3>8. ASSUME NEW k \in DOMAIN log', log'[k].type = "UNSTABLE_MERGE"
          PROVE  /\ rmap_tree'[log'[k].from].state = "Stable"
                 /\ node'[rmap_tree'[log'[k].from].stable_node].pfn = shadow[log'[k].from]
      <4>1. rmap_tree'[log'[k].from].state = "Stable"
        BY <1>12, <3>8
      <4>2. CASE k = N
        BY <3>1, <3>2, <3>8, <4>1, <4>2
      <4>3. CASE k \in DOMAIN log
        BY <1>11, <3>2, <3>8, <4>1, <4>3
      <4>4. QED
        BY <3>2, <4>1, <4>2, <4>3
    <3>9. NewNodeFrames'
      BY <1>1, <3>8 DEF NewNodeFrames, Believed
    <3>10. QED
      BY <3>5, <3>7, <3>9
  <2>3. QED
    BY <2>1, <2>2
<1>14. QED
  BY <1>2, <1>4, <1>5, <1>6, <1>8, <1>13 DEF JointInv

\* An item that leaves its node leaves the other items in theirs.
LEMMA OthersStay ==
  ASSUME ServerInv, NEW x \in Items, NEW it \in ItemRec, it.state # "Stable",
         rmap_tree' = [rmap_tree EXCEPT ![x] = it],
         created' = created, clashed' = clashed,
         \/ rmap_tree[x].state = "Stable" /\ LeaveNode(x)
         \/ node' = node
  PROVE  /\ rmap_tree'[x] = it
         /\ \A i \in Items : i # x => rmap_tree'[i] = rmap_tree[i]
         /\ \A i \in Items :
              (rmap_tree[i].state = "Stable" /\ rmap_tree'[i].state = "Stable") =>
                /\ rmap_tree'[i].stable_node = rmap_tree[i].stable_node
                /\ node'[rmap_tree[i].stable_node].pfn = node[rmap_tree[i].stable_node].pfn
<1>1. TypeOK /\ StructInv /\ rmap_tree \in [Items -> ItemRec]
  BY DEF ServerInv, TypeOK
<1>2. rmap_tree'[x] = it /\ \A i \in Items : i # x => rmap_tree'[i] = rmap_tree[i]
  BY <1>1
<1>3. \A i \in Items : (i # x /\ rmap_tree[i].state = "Stable") =>
         node'[rmap_tree[i].stable_node].pfn = node[rmap_tree[i].stable_node].pfn
  <2>1. CASE rmap_tree[x].state = "Stable" /\ LeaveNode(x)
    BY <1>1, <2>1, LeaveStruct
  <2>2. CASE node' = node
    BY <2>2
  <2>3. QED
    BY <2>1, <2>2
<1>4. QED
  BY <1>2, <1>3

\* The log after an item was taken out of a node that may have gone with it.
LEMMA StaleLogged ==
  ASSUME JointInv, NEW x \in Items, rmap_tree[x].state = "Stable",
         log' = IF IsLastItem(x) THEN Append(log, log_stale_node(x)) ELSE log
  PROVE  \/ log' = log
         \/ \E r \in LogRec :
              /\ log' = Append(log, r) /\ MayLog(r)
              /\ r.type = "UNSTABLE_MERGE" =>
                   node'[rmap_tree'[r.from].stable_node].pfn = shadow[r.from]
<1>1. log_stale_node(x) \in LogRec
  BY DemotionType DEF JointInv, ServerInv
<1>2. log_stale_node(x).type = "STALE_STABLE_NODE"
  BY DEF log_stale_node
<1>3. EntryItems(log_stale_node(x)) = {}
  BY <1>2 DEF EntryItems, MergeItems
<1>4. MayLog(log_stale_node(x))
  BY <1>1, <1>3 DEF MayLog
<1>5. CASE IsLastItem(x)
  <2>1. log' = Append(log, log_stale_node(x))
    BY <1>5
  <2>2. QED
    BY <1>1, <1>2, <1>4, <2>1
<1>6. CASE ~IsLastItem(x)
  BY <1>6
<1>7. QED
  BY <1>5, <1>6

\* do_handle_error: no item that was listed with a ksm page is undone.
LEMMA HandleErrorJoint ==
  ASSUME JointInv, GuestInv', hphase = "offload", UNCHANGED hostVars, HandleError
  PROVE  JointInv'
<1>1. ServerInv /\ ServerInv'
  BY HandleErrorInv DEF JointInv
<1>2. /\ phase = "work" /\ phase' = phase /\ present' = present /\ page' = page
      /\ created' = created /\ clashed' = clashed
  BY DEF HandleError
<1>3. PICK e \in errs : (MergeOneFailed(e) \/ MergeTwoFailed(e)) /\ errs' = errs \ {e}
  BY DEF HandleError
<1> DEFINE x == e.from
<1>4. page = NoPage /\ x \in Items /\ rmap_tree[x].state = "Stable"
  BY <1>1, ErrorFacts
<1>5. PageFrame'
  BY <1>2, <1>4 DEF PageFrame
<1>6. \A i \in Items : ListedKsm(i) =>
         /\ rmap_tree[i].state = "Stable" /\ i # x
         /\ e.type = "MERGE_TWO_FAILED" =>
              rmap_tree[x].stable_node # rmap_tree[i].stable_node
  BY OffloadFacts DEF Undone
<1>7. phase' # "down" /\ errs' \subseteq errs
  BY <1>2, <1>3
<1>8. rmap_tree \in [Items -> ItemRec] /\ node \in [NodeIds -> NodeRec]
  BY <1>1 DEF ServerInv, TypeOK
<1>9. CASE MergeOneFailed(e)
  <2> DEFINE it == reset_item_state(rmap_tree[x])
  <2>1. /\ LeaveNode(x) /\ rmap_tree' = [rmap_tree EXCEPT ![x] = it]
        /\ log' = IF IsLastItem(x) THEN Append(log, log_stale_node(x)) ELSE log
    BY <1>9 DEF MergeOneFailed
  <2>2. it \in ItemRec /\ it.state = "Volatile"
    BY <1>4, <1>8, ResetType
  <2> HIDE DEF it, x
  <2>3. /\ \A i \in Items : i # x => rmap_tree'[i] = rmap_tree[i]
        /\ \A i \in Items :
             (rmap_tree[i].state = "Stable" /\ rmap_tree'[i].state = "Stable") =>
               /\ rmap_tree'[i].stable_node = rmap_tree[i].stable_node
               /\ node'[rmap_tree[i].stable_node].pfn = node[rmap_tree[i].stable_node].pfn
    BY <1>1, <1>2, <1>4, <2>1, <2>2, OthersStay
  <2>4. \A i \in Items : ListedKsm(i) => rmap_tree'[i].state = "Stable"
    BY <1>6, <2>3
  <2>5. \/ log' = log
        \/ \E r \in LogRec :
             /\ log' = Append(log, r) /\ MayLog(r)
             /\ r.type = "UNSTABLE_MERGE" =>
                  node'[rmap_tree'[r.from].stable_node].pfn = shadow[r.from]
    BY <1>4, <2>1, StaleLogged
  <2>6. QED
    BY <1>1, <1>2, <1>5, <1>7, <2>3, <2>4, <2>5, ServerFrame
<1>10. CASE MergeTwoFailed(e)
  <2> DEFINE n == rmap_tree[x].stable_node
  <2>1. /\ e.type = "MERGE_TWO_FAILED" /\ log' = log
        /\ rmap_tree' = [i \in Items |-> IF i \in node[n].sharing
                                         THEN reset_item_state(rmap_tree[i])
                                         ELSE rmap_tree[i]]
        /\ node' = [node EXCEPT ![n] = FreeNode]
    BY <1>10 DEF MergeTwoFailed, UndoneItems
  <2>2. \A i \in node[n].sharing : rmap_tree[i].stable_node = n
    <3>1. n \in NodeIds
      BY <1>1, <1>4 DEF ServerInv, StructInv, SharingConsistent
    <3>2. QED
      BY <1>1, <3>1 DEF ServerInv, StructInv, SharingConsistent
  <2> HIDE DEF n, x
  <2>3. ASSUME NEW i \in Items
        PROVE  /\ i \in node[n].sharing => rmap_tree'[i].state = "Volatile"
               /\ i \notin node[n].sharing => rmap_tree'[i] = rmap_tree[i]
    BY <1>8, <2>1, ResetType
  <2>4. ASSUME NEW i \in Items, rmap_tree[i].state = "Stable", rmap_tree'[i].state = "Stable"
        PROVE  /\ rmap_tree'[i].stable_node = rmap_tree[i].stable_node
               /\ node'[rmap_tree[i].stable_node].pfn = node[rmap_tree[i].stable_node].pfn
    <3>1. i \notin node[n].sharing
      BY <2>3, <2>4
    <3>2. rmap_tree[i].stable_node \in NodeIds /\ rmap_tree[i].stable_node # n
      BY <1>1, <2>4, <3>1 DEF ServerInv, StructInv, SharingConsistent
    <3>3. QED
      BY <1>8, <2>1, <2>3, <3>1, <3>2
  <2>5. ASSUME NEW i \in Items, ListedKsm(i)
        PROVE  rmap_tree'[i].state = "Stable"
    <3>1. rmap_tree[i].stable_node # n /\ rmap_tree[i].state = "Stable"
      BY <1>6, <2>1, <2>5 DEF n
    <3>2. i \notin node[n].sharing
      BY <2>2, <3>1
    <3>3. QED
      BY <2>3, <3>1, <3>2
  <2>6. QED
    BY <1>1, <1>2, <1>5, <1>7, <2>1, <2>4, <2>5, ServerFrame
<1>11. QED
  BY <1>3, <1>9, <1>10

\* lookup_rmap_item: the page in hand gets the frame it was listed with.
LEMMA LookupJoint ==
  ASSUME JointInv, GuestInv', hphase = "offload", UNCHANGED hostVars,
         NEW i \in todo, lookup_rmap_item(i, shadow[i], content[shadow[i]])
  PROVE  JointInv'
<1> DEFINE p == shadow[i]
           base == IF InTree(i) THEN rmap_tree[i] ELSE NewItem
           it == [base EXCEPT !.pfn = p, !.last_access = ToShort(iteration)]
<1>1. ServerInv /\ i \in Items /\ i \in present /\ rmap_tree \in [Items -> ItemRec]
  BY DEF JointInv, ServerInv, TypeOK
<1>2. p # NoPfn /\ p \in Pfns /\ content[p] \in Hashes
  BY <1>1, OffloadFacts, FrameTypes DEF JointInv, GuestInv, FramesOK
<1>3. ServerInv'
  BY <1>1, <1>2, LookupInv
<1>4. /\ phase = "work" /\ errs = {} /\ page' = [item |-> i, hash |-> content[p]]
      /\ rmap_tree' = [rmap_tree EXCEPT ![i] = it]
      /\ phase' = phase /\ present' = present /\ errs' = errs /\ node' = node /\ log' = log
  BY DEF lookup_rmap_item
<1>5. base \in ItemRec /\ (base.state = "Stable" <=> rmap_tree[i].state = "Stable")
      /\ (rmap_tree[i].state = "Stable" => base = rmap_tree[i])
  <2>1. NewItem \in ItemRec /\ NewItem.state = "Volatile"
    BY DEF NewItem, AbsentItem, ItemRec, NoNode
  <2>2. QED
    BY <1>1, <2>1 DEF InTree
<1>6. it.pfn = p /\ it.state = base.state /\ it.stable_node = base.stable_node
  BY <1>5 DEF ItemRec
<1> HIDE DEF it, base, p
<1>7. rmap_tree'[i] = it /\ \A j \in Items : j # i => rmap_tree'[j] = rmap_tree[j]
  BY <1>1, <1>4
<1>8. PageFrame'
  <2>1. page'.item = i /\ shadow' = shadow
    BY <1>4 DEF hostVars
  <2>2. QED
    BY <1>6, <1>7, <2>1 DEF PageFrame, curr, p
<1>9. \A j \in Items :
         rmap_tree[j].state = "Stable" =>
           /\ rmap_tree'[j].state = "Stable"
           /\ rmap_tree'[j].stable_node = rmap_tree[j].stable_node
  BY <1>5, <1>6, <1>7
<1>10. \A j \in Items : ListedKsm(j) => rmap_tree'[j].state = "Stable"
  BY <1>9, OffloadFacts
<1>11. phase' # "down" /\ errs' \subseteq errs
  BY <1>4
<1>12. QED
  BY <1>3, <1>4, <1>8, <1>9, <1>10, <1>11, ServerFrame

\* The merges of the log are not about the page in hand, nor about an item
\* that is not Stable.
LEMMA MergesElsewhere ==
  ASSUME ServerInv, page # NoPage, NEW k \in DOMAIN log
  PROVE  /\ page.item \notin MergeItems(log[k])
         /\ \A i \in MergeItems(log[k]) : rmap_tree[i].state = "Stable"
<1>1. log[k].type = "STABLE_MERGE" =>
         log[k].from # page.item /\ rmap_tree[log[k].from].state = "Stable"
  BY DEF ServerInv, LogOK, LogMatchesMetadata, IsMerge
<1>2. log[k].type = "UNSTABLE_MERGE" =>
         /\ log[k].from # page.item /\ rmap_tree[log[k].from].state = "Stable"
         /\ log[k].to # page.item /\ rmap_tree[log[k].to].state = "Stable"
  BY DEF ServerInv, LogOK, LogMatchesMetadata, IsMerge
<1>3. QED
  BY <1>1, <1>2 DEF MergeItems

\* A Stable page that is mapped to another frame than its node's was not
\* listed with a ksm page.
LEMMA StableMovedJoint ==
  ASSUME JointInv, GuestInv', hphase = "offload", UNCHANGED hostVars, StableMoved
  PROVE  JointInv'
<1> DEFINE x == page.item
           it == reset_item_state(rmap_tree[x])
           r == IF IsLastItem(x) THEN log_stale_node(x) ELSE log_item_state_change(x)
<1>1. ServerInv /\ ServerInv'
  BY StableMovedInv DEF JointInv
<1>2. /\ phase = "work" /\ page # NoPage
      /\ x \in Items /\ x \in present
      /\ rmap_tree[x].state = "Stable" /\ rmap_tree[x] \in ItemRec
  BY <1>1, InHand DEF StableMoved
<1>3. /\ LeaveNode(x) /\ rmap_tree' = [rmap_tree EXCEPT ![x] = it]
      /\ node[rmap_tree[x].stable_node].pfn # rmap_tree[x].pfn
      /\ log' = Append(log, r) /\ page' = page
      /\ created' = created /\ clashed' = clashed
      /\ phase' = phase /\ present' = present /\ errs' = errs
  BY DEF StableMoved, DemotionLog, scanRest, curr
<1>4. it \in ItemRec /\ it.state = "Volatile" /\ it.old_hash = NullHash
  <2>1. it.old_hash = NullHash
    BY <1>2 DEF reset_item_state, ItemRec
  <2>2. QED
    BY <1>2, <2>1, ResetType
<1>5. rmap_tree[x].pfn = shadow[x]
  BY <1>2 DEF JointInv, PageFrame, curr
<1>6. shadow[x] # NoPfn /\ ~ListedKsm(x)
  <2>1. ListedKsm(x) => Believed(x, shadow[x])
    BY <1>2, OffloadFacts
  <2>2. QED
    BY <1>2, <1>3, <1>5, <2>1, OffloadFacts DEF Believed
<1>7. /\ r \in LogRec /\ EntryItems(r) \subseteq {x} /\ r.type # "UNSTABLE_MERGE"
  <2>1. log_stale_node(x) \in LogRec /\ log_item_state_change(x) \in LogRec
    BY <1>1, <1>2, DemotionType DEF ServerInv
  <2>2. /\ log_stale_node(x).type = "STALE_STABLE_NODE"
        /\ log_item_state_change(x).type = "ITEM_STATE_CHANGE"
        /\ log_item_state_change(x).from = x
    BY DEF log_stale_node, log_item_state_change
  <2>3. EntryItems(log_stale_node(x)) = {} /\ EntryItems(log_item_state_change(x)) = {x}
    BY <2>2 DEF EntryItems, MergeItems
  <2>4. QED
    BY <2>1, <2>2, <2>3
<1> HIDE DEF it, r, x
<1>8. MayLog(r)
  <2>1. \A k \in DOMAIN log : x \notin MergeItems(log[k])
    BY <1>1, <1>2, MergesElsewhere DEF x
  <2>2. QED
    BY <1>6, <1>7, <2>1 DEF MayLog
<1>9. /\ rmap_tree'[x] = it
      /\ \A i \in Items : i # x => rmap_tree'[i] = rmap_tree[i]
      /\ \A i \in Items :
           (rmap_tree[i].state = "Stable" /\ rmap_tree'[i].state = "Stable") =>
             /\ rmap_tree'[i].stable_node = rmap_tree[i].stable_node
             /\ node'[rmap_tree[i].stable_node].pfn = node[rmap_tree[i].stable_node].pfn
  BY <1>1, <1>2, <1>3, <1>4, OthersStay
<1>10. \A i \in Items : ListedKsm(i) => rmap_tree'[i].state = "Stable"
  BY <1>6, <1>9, OffloadFacts
<1>11. PageFrame'
  BY <1>3, <1>4, <1>9 DEF PageFrame, curr, x
<1>12. phase' # "down" /\ errs' \subseteq errs
  BY <1>2, <1>3
<1>13. QED
  BY <1>1, <1>3, <1>7, <1>8, <1>9, <1>10, <1>11, <1>12, ServerFrame

\* A step that puts the page down, leaves every Stable item in its node and
\* logs at most one merge.
LEMMA PutDownJoint ==
  ASSUME JointInv, GuestInv', ServerInv', hphase = "offload", UNCHANGED hostVars,
         phase' # "down", present' = present, errs' \subseteq errs, page' = NoPage,
         \A i \in Items : rmap_tree[i].state = "Stable" =>
             /\ rmap_tree'[i].state = "Stable"
             /\ rmap_tree'[i].stable_node = rmap_tree[i].stable_node
             /\ node'[rmap_tree[i].stable_node].pfn = node[rmap_tree[i].stable_node].pfn,
         \/ log' = log
         \/ \E r \in LogRec :
              /\ log' = Append(log, r) /\ MayLog(r)
              /\ r.type = "UNSTABLE_MERGE" =>
                   node'[rmap_tree'[r.from].stable_node].pfn = shadow[r.from]
  PROVE  JointInv'
<1>1. PageFrame'
  BY DEF PageFrame
<1>2. \A i \in Items : ListedKsm(i) => rmap_tree'[i].state = "Stable"
  BY OffloadFacts
<1>3. QED
  BY <1>1, <1>2, ServerFrame

LEMMA StableRekeyedJoint ==
  ASSUME JointInv, GuestInv', hphase = "offload", UNCHANGED hostVars, StableRekeyed
  PROVE  JointInv'
<1> DEFINE h == page.hash
           c == node[rmap_tree[page.item].stable_node].chain
<1>1. ServerInv /\ ServerInv'
  BY StableRekeyedInv DEF JointInv
<1>2. /\ node' = [n \in NodeIds |-> IF n \in Chain(node, c)
                                    THEN [node[n] EXCEPT !.page_hash = h] ELSE node[n]]
      /\ rmap_tree' = [k \in Items |-> IF \E n \in Chain(node, c) : k \in node[n].sharing
                                       THEN [rmap_tree[k] EXCEPT !.old_hash = h]
                                       ELSE rmap_tree[k]]
      /\ page' = NoPage /\ log' = log
      /\ phase = "work" /\ phase' = phase /\ present' = present /\ errs' = errs
  BY DEF StableRekeyed, RekeyScope, curr, scanRest, PageInHand
<1>3. /\ rmap_tree \in [Items -> ItemRec] /\ node \in [NodeIds -> NodeRec]
  BY <1>1 DEF ServerInv, TypeOK
<1> HIDE DEF h, c
<1>4. \A n \in NodeIds : node'[n].pfn = node[n].pfn
  BY <1>2, <1>3 DEF NodeRec
<1>5. \A i \in Items : /\ rmap_tree'[i].state = rmap_tree[i].state
                       /\ rmap_tree'[i].stable_node = rmap_tree[i].stable_node
  BY <1>2, <1>3 DEF ItemRec
<1>6. \A i \in Items : rmap_tree[i].state = "Stable" => rmap_tree[i].stable_node \in NodeIds
  BY <1>1 DEF ServerInv, StructInv, SharingConsistent
<1>7. phase' # "down" /\ errs' \subseteq errs
  BY <1>2
<1>8. QED
  BY <1>1, <1>2, <1>4, <1>5, <1>6, <1>7, PutDownJoint

\* The steps that change no node and no Stable item.
LEMMA QuietJoint ==
  ASSUME JointInv, GuestInv', hphase = "offload", UNCHANGED hostVars,
         StableKept \/ VolatileSkipped \/ InsertUnstable \/ VolatileChanged
  PROVE  JointInv'
<1> DEFINE x == page.item
<1>1. ServerInv /\ ServerInv'
  BY CmpAndMergeInv DEF JointInv, cmp_and_merge_one
<1>2. rmap_tree \in [Items -> ItemRec]
  BY <1>1 DEF ServerInv, TypeOK
<1>3. /\ page' = NoPage /\ log' = log /\ node' = node
      /\ phase = "work" /\ phase' = phase /\ present' = present /\ errs' = errs
  BY DEF StableKept, VolatileSkipped, InsertUnstable, VolatileChanged, PageInHand, scanRest,
       metaVars
<1>4. ASSUME NEW i \in Items, rmap_tree[i].state = "Stable"
      PROVE  rmap_tree'[i] = rmap_tree[i]
  <2>1. CASE StableKept \/ VolatileSkipped
    BY <2>1 DEF StableKept, VolatileSkipped, metaVars
  <2>2. CASE InsertUnstable \/ VolatileChanged
    <3>1. rmap_tree[x].state = "Volatile"
      BY <2>2 DEF InsertUnstable, VolatileChanged, PageInHand, curr
    <3>2. x # i
      BY <1>4, <3>1
    <3>3. QED
      BY <1>2, <2>2, <3>2 DEF InsertUnstable, VolatileChanged
  <2>3. QED
    BY <2>1, <2>2
<1>5. phase' # "down" /\ errs' \subseteq errs
  BY <1>3
<1>6. QED
  BY <1>1, <1>3, <1>4, <1>5, PutDownJoint

\* A merge with a stable node: the page was anonymous when it was listed.
LEMMA MergeWithStableJoint ==
  ASSUME JointInv, GuestInv', hphase = "offload", UNCHANGED hostVars, MergeWithStable
  PROVE  JointInv'
<1> DEFINE x == page.item
<1>1. ServerInv /\ ServerInv'
  BY MergeWithStableInv DEF JointInv
<1>2. /\ phase = "work" /\ page # NoPage
      /\ x \in Items /\ x \in present /\ rmap_tree[x].state = "Volatile"
  BY <1>1, InHand DEF MergeWithStable
<1>3. PICK n \in cmp_with_stable(page.hash) :
         /\ node' = insert_item_to_node(node, n, x)
         /\ rmap_tree' = [rmap_tree EXCEPT ![x] = ItemInNode(rmap_tree[x], node, n)]
         /\ log' = Append(log, log_stable_merge(x, n))
  BY DEF MergeWithStable
<1>4. /\ page' = NoPage /\ phase' = phase /\ present' = present /\ errs' = errs
  BY DEF MergeWithStable, scanRest
<1>5. n \in NodeIds
  BY DEF cmp_with_stable, Chain
<1>6. /\ node \in [NodeIds -> NodeRec] /\ rmap_tree \in [Items -> ItemRec]
  BY <1>1 DEF ServerInv, TypeOK
<1> DEFINE r == log_stable_merge(x, n)
<1>7. /\ r \in LogRec /\ r.type = "STABLE_MERGE" /\ EntryItems(r) = {x}
  <2>1. node[n].pfn \in Pfns \cup {NoPfn}
    BY <1>5, <1>6 DEF NodeRec
  <2>2. r.type = "STABLE_MERGE" /\ r.from = x
    BY DEF log_stable_merge
  <2>3. r \in LogRec
    BY <1>2, <2>1 DEF log_stable_merge, LogRec
  <2>4. QED
    BY <2>2, <2>3 DEF EntryItems, MergeItems
<1>8. \A k \in DOMAIN log : x \notin MergeItems(log[k])
  BY <1>1, <1>2, MergesElsewhere
<1>9. shadow[x] # NoPfn /\ ~ListedKsm(x)
  BY <1>2, OffloadFacts
<1> HIDE DEF r, x
<1>10. MayLog(r)
  BY <1>7, <1>8, <1>9 DEF MayLog
<1>11. \A m \in NodeIds : node'[m].pfn = node[m].pfn
  BY <1>3, <1>5, <1>6 DEF insert_item_to_node, NodeRec
<1>12. \A i \in Items : i # x => rmap_tree'[i] = rmap_tree[i]
  BY <1>3, <1>6
<1>13. \A i \in Items : rmap_tree[i].state = "Stable" =>
          i # x /\ rmap_tree[i].stable_node \in NodeIds
  BY <1>1, <1>2 DEF ServerInv, StructInv, SharingConsistent
<1>14. phase' # "down" /\ errs' \subseteq errs
  BY <1>2, <1>4
<1>15. log' = Append(log, r)
  BY <1>3 DEF r
<1>16. QED
  BY <1>1, <1>4, <1>7, <1>10, <1>11, <1>12, <1>13, <1>14, <1>15, PutDownJoint

\* A node made of two pages that were anonymous when they were listed gets the
\* frame that the page in hand was listed with.
LEMMA MergeWithUnstableJoint ==
  ASSUME JointInv, GuestInv', hphase = "offload", UNCHANGED hostVars, MergeWithUnstable
  PROVE  JointInv'
<1> DEFINE x == page.item
           h == page.hash
           j == unstable_hash_table[h]
           n == created + 1
           p == rmap_tree[x].pfn
           new == [page_hash |-> h, pfn |-> p, chain |-> ChainFor(n, h),
                   sharing |-> {}, shared_cnt |-> 0]
           nd == [node EXCEPT ![n] = new]
           nd1 == insert_item_to_node(nd, n, j)
           r == log_unstable_merge(x, j)
<1>1. ServerInv /\ ServerInv'
  BY MergeWithUnstableInv DEF JointInv
<1>2. /\ phase = "work" /\ page # NoPage
      /\ x \in Items /\ x \in present /\ h \in Hashes
      /\ rmap_tree[x].state = "Volatile" /\ rmap_tree[x] \in ItemRec
  BY <1>1, InHand DEF MergeWithUnstable
<1>3. /\ j # NoItem /\ created < MaxNodes /\ rmap_tree[x].old_hash = h
      /\ node' = insert_item_to_node(nd1, n, x)
      /\ rmap_tree' = [rmap_tree EXCEPT ![j] = ItemInNode(rmap_tree[j], nd, n),
                                        ![x] = ItemInNode(rmap_tree[x], nd, n)]
      /\ log' = Append(log, r)
      /\ page' = NoPage /\ phase' = phase /\ present' = present /\ errs' = errs
  <2>1. /\ j # NoItem /\ created < MaxNodes /\ rmap_tree[x].old_hash = h
        /\ page' = NoPage /\ phase' = phase /\ present' = present /\ errs' = errs
    BY DEF MergeWithUnstable, curr, scanRest
  <2>2. node' = insert_item_to_node(nd1, n, x)
    BY DEF MergeWithUnstable, curr
  <2>3. log' = Append(log, r)
    BY DEF MergeWithUnstable, curr
  <2>4. j # x
    BY <1>1, <1>2, <2>1 DEF ServerInv, TypeOK, UnstableExact
  <2>5. rmap_tree' = [rmap_tree EXCEPT ![j] = ItemInNode(rmap_tree[j], nd, n),
                                       ![x] = ItemInNode(rmap_tree[x], nd, n)]
    BY <2>4 DEF MergeWithUnstable, curr
  <2>6. QED
    BY <2>1, <2>2, <2>3, <2>5
<1>4. /\ node \in [NodeIds -> NodeRec] /\ rmap_tree \in [Items -> ItemRec]
      /\ created \in 0 .. MaxNodes /\ unstable_hash_table \in [Hashes -> Items \cup {NoItem}]
      /\ present \in SUBSET Items
  BY <1>1 DEF ServerInv, TypeOK
<1>5. j \in Items /\ rmap_tree[j].state = "Unstable" /\ j \in present
  BY <1>1, <1>2, <1>3, <1>4 DEF ServerInv, UnstableExact
<1>6. n \in NodeIds
  BY <1>3, <1>4, ServerAssumption DEF NodeIds
<1>7. p = shadow[x]
  <2>1. rmap_tree[x].old_hash # NullHash
    BY <1>2, <1>3, ServerAssumption
  <2>2. QED
    BY <1>2, <2>1 DEF JointInv, PageFrame, curr
<1>8. r \in LogRec /\ r.from = x /\ EntryItems(r) = {x, j}
  <2>1. r \in LogRec
    BY <1>2, <1>5 DEF log_unstable_merge, LogRec
  <2>2. r.type = "UNSTABLE_MERGE" /\ r.from = x /\ r.to = j
    BY DEF log_unstable_merge
  <2>3. QED
    BY <2>1, <2>2 DEF EntryItems, MergeItems
<1>9. new.pfn = p
  OBVIOUS
<1> HIDE DEF new, r, x, j, n, p, h
<1>10. /\ node'[n].pfn = p
       /\ \A m \in NodeIds : m # n => node'[m] = node[m]
  <2>1. nd[n].pfn = p /\ \A m \in NodeIds : m # n => nd[m] = node[m]
    BY <1>4, <1>6, <1>9
  <2>2. DOMAIN nd = NodeIds /\ DOMAIN nd1 = NodeIds
    BY <1>4 DEF insert_item_to_node
  <2> HIDE DEF nd
  <2>3. nd1[n].pfn = p /\ \A m \in NodeIds : m # n => nd1[m] = node[m]
    BY <1>6, <2>1, <2>2 DEF insert_item_to_node
  <2> HIDE DEF nd1
  <2>4. QED
    BY <1>3, <1>6, <2>2, <2>3 DEF insert_item_to_node
<1>11. /\ rmap_tree'[x].stable_node = n
       /\ \A i \in Items : (i # x /\ i # j) => rmap_tree'[i] = rmap_tree[i]
  <2>1. rmap_tree'[x] = ItemInNode(rmap_tree[x], nd, n)
    BY <1>2, <1>3, <1>4
  <2>2. ItemInNode(rmap_tree[x], nd, n).stable_node = n
    BY <1>2 DEF ItemInNode, ItemRec
  <2>3. QED
    BY <1>3, <1>4, <2>1, <2>2
<1>12. \A k \in DOMAIN log : {x, j} \cap MergeItems(log[k]) = {}
  BY <1>1, <1>2, <1>5, MergesElsewhere DEF x
<1>13. /\ shadow[x] # NoPfn /\ ~ListedKsm(x)
       /\ shadow[j] # NoPfn /\ ~ListedKsm(j)
  BY <1>2, <1>5, OffloadFacts
<1>14. MayLog(r)
  BY <1>8, <1>12, <1>13 DEF MayLog
<1>15. ASSUME NEW i \in Items, rmap_tree[i].state = "Stable"
       PROVE  /\ rmap_tree'[i] = rmap_tree[i]
              /\ node'[rmap_tree[i].stable_node].pfn = node[rmap_tree[i].stable_node].pfn
  <2>1. i # x /\ i # j
    BY <1>2, <1>5, <1>15
  <2>2. rmap_tree[i].stable_node \in NodeIds /\ rmap_tree[i].stable_node <= created
    BY <1>1, <1>15, NodeOfStable DEF ServerInv
  <2>3. rmap_tree[i].stable_node # n
    BY <1>4, <2>2 DEF n, NodeIds
  <2>4. QED
    BY <1>10, <1>11, <2>1, <2>2, <2>3
<1>16. node'[rmap_tree'[r.from].stable_node].pfn = shadow[r.from]
  BY <1>7, <1>8, <1>10, <1>11
<1>17. phase' # "down" /\ errs' \subseteq errs
  BY <1>2, <1>3
<1>18. QED
  BY <1>1, <1>3, <1>8, <1>14, <1>15, <1>16, <1>17, PutDownJoint

\* prune_metadata: the candidates become volatile again.
LEMMA PruneMetadataJoint ==
  ASSUME MaxIteration <= ShortRange \div 2,
         JointInv, GuestInv', hphase = "offload", UNCHANGED hostVars, prune_metadata
  PROVE  JointInv'
<1>1. ServerInv /\ ServerInv'
  BY PruneMetadataInv DEF JointInv
<1>2. /\ page' = NoPage /\ phase' = "prune" /\ present' = present /\ errs' = errs
      /\ node' = node /\ log' = log
      /\ rmap_tree' = [i \in Items |->
                         IF \E h \in Hashes : unstable_hash_table[h] = i
                         THEN [rmap_tree[i] EXCEPT !.state = "Volatile"]
                         ELSE rmap_tree[i]]
  BY DEF prune_metadata
<1>3. ASSUME NEW i \in Items, rmap_tree[i].state = "Stable"
      PROVE  rmap_tree'[i] = rmap_tree[i]
  <2>1. \A h \in Hashes : unstable_hash_table[h] # i
    BY <1>1, <1>3, ServerAssumption DEF ServerInv, UnstableExact
  <2>2. QED
    BY <1>2, <2>1
<1>4. phase' # "down" /\ errs' \subseteq errs
  BY <1>2
<1>5. QED
  BY <1>1, <1>2, <1>3, <1>4, PutDownJoint

\* prune_rmap_tree: an item that is pruned was not listed.
LEMMA PruneTreeJoint ==
  ASSUME JointInv, GuestInv', hphase = "offload", UNCHANGED hostVars, prune_rmap_tree
  PROVE  JointInv'
<1>1. ServerInv /\ ServerInv'
  BY PruneTreeInv DEF JointInv
<1>2. /\ phase = "prune" /\ phase' = phase /\ present' = present /\ errs' = errs
      /\ page' = page /\ created' = created /\ clashed' = clashed
  BY DEF prune_rmap_tree
<1>3. PICK x \in victims :
         /\ IF rmap_tree[x].state = "Stable"
            THEN /\ LeaveNode(x)
                 /\ log' = IF IsLastItem(x) THEN Append(log, log_stale_node(x)) ELSE log
            ELSE UNCHANGED <<node, stable_hash_table, log>>
         /\ rmap_tree' = [rmap_tree EXCEPT ![x] = AbsentItem]
  BY DEF prune_rmap_tree
<1>4. x \in Items /\ x \notin present /\ page = NoPage
  BY <1>1, <1>2 DEF ServerInv, TypeOK, PhaseOK, PruneOnlyUnaccessed
<1>5. AbsentItem \in ItemRec /\ AbsentItem.state = "Absent"
  BY DEF AbsentItem, ItemRec, NoNode
<1>6. PageFrame'
  BY <1>2, <1>4 DEF PageFrame
<1>7. \/ rmap_tree[x].state = "Stable" /\ LeaveNode(x)
      \/ node' = node
  BY <1>3
<1>8. /\ \A i \in Items : i # x => rmap_tree'[i] = rmap_tree[i]
      /\ \A i \in Items :
           (rmap_tree[i].state = "Stable" /\ rmap_tree'[i].state = "Stable") =>
             /\ rmap_tree'[i].stable_node = rmap_tree[i].stable_node
             /\ node'[rmap_tree[i].stable_node].pfn = node[rmap_tree[i].stable_node].pfn
  BY <1>1, <1>2, <1>3, <1>4, <1>5, <1>7, OthersStay
<1>9. \A i \in Items : ListedKsm(i) => rmap_tree'[i].state = "Stable"
  BY <1>4, <1>8, OffloadFacts
<1>10. \/ log' = log
       \/ \E r \in LogRec :
            /\ log' = Append(log, r) /\ MayLog(r)
            /\ r.type = "UNSTABLE_MERGE" =>
                 node'[rmap_tree'[r.from].stable_node].pfn = shadow[r.from]
  <2>1. CASE rmap_tree[x].state = "Stable"
    <3>1. log' = IF IsLastItem(x) THEN Append(log, log_stale_node(x)) ELSE log
      BY <1>3, <2>1
    <3>2. QED
      BY <1>4, <2>1, <3>1, StaleLogged
  <2>2. CASE rmap_tree[x].state # "Stable"
    BY <1>3, <2>2
  <2>3. QED
    BY <2>1, <2>2
<1>11. phase' # "down" /\ errs' \subseteq errs
  BY <1>2
<1>12. QED
  BY <1>1, <1>2, <1>6, <1>8, <1>9, <1>10, <1>11, ServerFrame

\* The result is sent.
LEMMA SendResultJoint ==
  ASSUME JointInv, GuestInv', hphase = "offload", UNCHANGED hostVars, SendResult
  PROVE  JointInv'
<1>1. ServerInv /\ ServerInv'
  BY SendResultInv DEF JointInv
<1>2. /\ phase = "prune" /\ phase' = "wait" /\ present' = present /\ errs' = errs
      /\ page' = page /\ log' = log /\ rmap_tree' = rmap_tree /\ node' = node
  BY DEF SendResult, metaVars
<1>3. page' = NoPage
  BY <1>1, <1>2 DEF ServerInv, PhaseOK
<1>4. phase' # "down" /\ errs' \subseteq errs
  BY <1>2
<1>5. QED
  BY <1>1, <1>2, <1>3, <1>4, PutDownJoint

\* Every step of the server.
LEMMA ServerJoint ==
  ASSUME MaxIteration <= ShortRange \div 2, JointInv, GuestInv', ServerWorks
  PROVE  JointInv'
<1>1. hphase = "offload" /\ UNCHANGED hostVars
  BY DEF ServerWorks
<1>2. CASE HandleError
  BY <1>1, <1>2, HandleErrorJoint
<1>3. CASE \E i \in todo : lookup_rmap_item(i, shadow[i], content[shadow[i]])
  BY <1>1, <1>3, LookupJoint
<1>4. CASE cmp_and_merge_one
  BY <1>1, <1>4, StableMovedJoint, StableRekeyedJoint, QuietJoint, MergeWithStableJoint,
     MergeWithUnstableJoint DEF cmp_and_merge_one
<1>5. CASE prune_metadata
  BY <1>1, <1>5, PruneMetadataJoint
<1>6. CASE prune_rmap_tree
  BY <1>1, <1>6, PruneTreeJoint
<1>7. CASE SendResult
  BY <1>1, <1>7, SendResultJoint
<1>8. QED
  BY <1>2, <1>3, <1>4, <1>5, <1>6, <1>7 DEF ServerWorks

-----------------------------------------------------------------------------
(***************************************************************************)
(* The theorems                                                            *)
(***************************************************************************)

\* No frame is a ksm page when the address space is first listed.
LEMMA InitJoint == SystemInit => JointInv
<1> SUFFICES ASSUME SystemInit PROVE JointInv
  OBVIOUS
<1>1. ServerInv /\ GuestInv
  BY InitServerInv, InitGuestInv DEF SystemInit
<1>2. /\ phase = "wait" /\ log = <<>> /\ hphase = "walk" /\ cursor = 1 /\ errtab = {}
      /\ hnode = {} /\ \A p \in Pfns : frame[p] = "anon"
      /\ \A i \in Items : shadow[i] = NoPfn /\ hitem[i] = NoHostItem
  BY DEF SystemInit, Init
<1>3. \A i \in Items : map[i] # NoPfn => map[i] \in Pfns
  BY DEF SystemInit
<1>4. \A i \in Items : ~Sharer(i) /\ ~ListedKsm(i)
  BY <1>2, <1>3 DEF Sharer, ListedKsm
<1>5. RoundOK
  <2>1. Cardinality(Items) \in Nat
    BY FS_CardinalityType, ServerAssumption
  <2>2. cursor \in 1 .. Cardinality(Items) + 1
    BY <1>2, <2>1
  <2>3. QED
    BY <1>2, <2>2 DEF RoundOK
<1>6. FramesOK
  <2>1. \A i \in Items : map[i] # NoPfn => content[map[i]] \in Hashes
    BY <1>3 DEF SystemInit, Mapped
  <2>2. QED
    BY <1>2, <1>3, <2>1 DEF FramesOK
<1>7. ListingExclusive /\ HostItemsOK /\ ListingCurrent
  BY <1>2, <1>4 DEF ListingExclusive, HostItemsOK, NoHostItem, ListingCurrent
<1>8. SharersInHList
  BY <1>4 DEF SharersInHList, Sharer
<1>9. ServerKnows
  BY <1>4 DEF ServerKnows
<1>10. DOMAIN log = {}
  BY <1>2
<1>11. LogOrder /\ PendingAnonymous /\ NewNodeFrames
  BY <1>10 DEF LogOrder, PendingAnonymous, NewNodeFrames, Pending
<1>12. PageFrame /\ FailuresOK /\ ErrorsAreReportable
  BY <1>2 DEF PageFrame, FailuresOK, ErrorsAreReportable
<1>13. QED
  BY <1>1, <1>5, <1>6, <1>7, <1>8, <1>9, <1>11, <1>12 DEF JointInv

\* Every step of guests, host and server keeps the invariant.
LEMMA NextJoint ==
  ASSUME MaxIteration <= ShortRange \div 2, JointInv, [SystemNext]_sysVars
  PROVE  JointInv'
<1>1. GuestInv'
  BY NextGuestInv DEF JointInv
<1>2. CASE GuestStep
  BY <1>1, <1>2, GuestStepMoves, GuestJoint
<1>3. CASE HostStep
  <2>1. CASE apply_result
    BY <1>1, <2>1, SkippedJoint, StableMergeJoint, StableFailedJoint, UnstableMergeJoint,
       UnstableFailedJoint, StaleJoint, ItemStateChangeJoint, EndJoint DEF apply_result
  <2>2. QED
    BY <1>1, <1>3, <2>1, ScanJoint, EndJoint, SendJoint, RecvJoint, DestroyJoint DEF HostStep
<1>4. CASE ServerWorks
  BY <1>1, <1>4, ServerJoint
<1>5. CASE UNCHANGED sysVars
  <2>1. GuestMove
    BY <1>5 DEF GuestMove, guestRest, sysVars, hostVars, guestVars, JointInv, FramesOK
  <2>2. QED
    BY <1>1, <2>1, GuestJoint
<1>6. QED
  BY <1>2, <1>3, <1>4, <1>5 DEF SystemNext

\* The inductive invariant of host and server together: the server knows who
\* shares which ksm page, undoes no sharer, and its log is about pages that are
\* anonymous until their entry is carried out.
THEOREM JointInvariant ==
  ASSUME MaxIteration <= ShortRange \div 2
  PROVE  SystemSpec => []JointInv
<1>1. SystemInit => JointInv
  BY InitJoint
<1>2. JointInv /\ [SystemNext]_sysVars => JointInv'
  BY NextJoint
<1>3. QED
  BY <1>1, <1>2, PTL DEF SystemSpec

\* Ksm pages, stable nodes and rmap items of the host belong together, however
\* guests write and give back pages between the steps: no stable node outlives
\* its ksm page, a ksm page is mapped only by items of its node, and an unstable
\* merge never promotes a page that is a ksm page already.
THEOREM KsmPagesTheorem ==
  ASSUME MaxIteration <= ShortRange \div 2
  PROVE  SystemSpec => []KsmPagesSound
<1>1. ASSUME JointInv PROVE KsmPagesSound
  <2>1. SystemTypeOK /\ FramesOK /\ SharersInHList
    BY <1>1 DEF JointInv, GuestInv
  <2>2. KeyholeHolds
    <3>1. \A k \in hnode : k \in Pfns
      BY <2>1 DEF SystemTypeOK
    <3>2. QED
      BY <2>1, <3>1, KsmFrames DEF KeyholeHolds, FramesOK
  <2>3. PromotesAnonymous
    <3>1. SUFFICES ASSUME hphase = "apply", applied < Len(log), Entry.type = "UNSTABLE_MERGE"
                   PROVE  ~PageKsm(shadow[Entry.from])
      BY DEF PromotesAnonymous
    <3>2. shadow[Entry.from] \in Pfns /\ frame[shadow[Entry.from]] = "anon"
      BY <1>1, <3>1, PromotedFrame
    <3>3. QED
      BY <3>2 DEF PageKsm
  <2>4. QED
    BY <2>1, <2>2, <2>3 DEF KsmPagesSound
<1>2. JointInv => KsmPagesSound
  BY <1>1
<1>3. QED
  BY <1>2, JointInvariant, PTL

\* What the host puts into its error table while it carries out the log, and
\* sends with the next listing, is what the server takes for granted about it:
\* a merge of that log, and never both a failed stable merge into a node and
\* the failure of the unstable merge that was to make the node.
THEOREM ReportsTheorem ==
  ASSUME MaxIteration <= ShortRange \div 2
  PROVE  SystemSpec => []ErrorsAreReportable
<1>1. JointInv => ErrorsAreReportable
  BY DEF JointInv
<1>2. QED
  BY <1>1, JointInvariant, PTL

\* A step of the system is, for the server, a step that BaskServer describes.
LEMMA ServerSees ==
  ASSUME JointInv, [SystemNext]_sysVars
  PROVE  [Next]_vars
<1>1. CASE rdma_send_metadata
  <2>1. RecvMetadata(Listed, errtab)
    BY <1>1 DEF rdma_send_metadata
  <2>2. Listed \in SUBSET Items
    BY DEF Listed
  <2>3. errtab \in SUBSET Reportable
    BY <2>1, ReportsAreReportable DEF RecvMetadata, JointInv, GuestInv
  <2>4. QED
    BY <2>1, <2>2, <2>3 DEF Next
<1>2. CASE ServerWorks
  <2>1. hphase = "offload"
    BY <1>2 DEF ServerWorks
  <2>2. ASSUME NEW i \in todo, lookup_rmap_item(i, shadow[i], content[shadow[i]])
        PROVE  ServerStep
    <3>1. i \in Items /\ i \in present
      BY DEF JointInv, ServerInv, TypeOK
    <3>2. shadow[i] \in Pfns /\ content[shadow[i]] \in Hashes
      BY <2>1, <3>1, OffloadFacts, FrameTypes DEF JointInv, GuestInv, FramesOK
    <3>3. QED
      BY <2>2, <3>2 DEF ServerStep
  <2>3. QED
    BY <1>2, <2>2 DEF ServerWorks, ServerStep, Next
<1>3. CASE HostStep /\ ~rdma_send_metadata
  BY <1>3 DEF HostStep, scan_pte_entry, NothingListed, recv_offload_result, apply_result,
       destroy_metadata, StableMergeSkipped, StableMergeDone, StableMergeFailed,
       UnstableMergeDone, UnstableMergeFailed, StaleStableNode, ItemStateChange,
       debug_stop, applyRest
<1>4. CASE GuestStep
  BY <1>4 DEF GuestStep, Write, Fault, Discard, guestRest
<1>5. CASE UNCHANGED sysVars
  BY <1>5 DEF sysVars
<1>6. QED
  BY <1>1, <1>2, <1>3, <1>4, <1>5 DEF SystemNext

\* The host is an environment that BaskServer allows: what it lists and reports
\* and when, and the frames and contents it shows the server, never leave the
\* specification of the server, so that the server's own theorems hold of the
\* server in the system.
THEOREM ServerInSystem ==
  ASSUME MaxIteration <= ShortRange \div 2
  PROVE  SystemSpec => Spec
<1>1. SystemInit => Init
  BY DEF SystemInit
<1>2. JointInv /\ [SystemNext]_sysVars => [Next]_vars
  BY ServerSees
<1>3. QED
  BY <1>1, <1>2, JointInvariant, PTL DEF SystemSpec, Spec
=============================================================================
