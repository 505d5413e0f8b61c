-------------------------- MODULE BaskAgree_proofs --------------------------
(***************************************************************************)
(* The log fits the host, and between rounds the two sides agree: proved   *)
(* for every number of pages, frames and contents, as long as no guest     *)
(* gives a page back and the server's sharing limit is within the host's.  *)
(*                                                                         *)
(* The argument.  The log of a round says of each item at most: it leaves  *)
(* its node, then it joins one.  An item of the host is therefore at any   *)
(* time where the server has it, but for the entries that are still to be  *)
(* carried out and the failures that are still to be undone.  Frames of    *)
(* stable nodes are never reused, so that a frame names at most one node   *)
(* of the server, and a node that is logged as stale is mapped by no page  *)
(* and stays so.                                                           *)
(*                                                                         *)
(* The second half shows, on top of this, what quiet rounds lead to: equal *)
(* pages get shared.                                                       *)
(***************************************************************************)
EXTENDS BaskJoint_proofs, WellFoundedInduction

\* The entries that the host has still to carry out, in any phase.
Todo == IF hphase = "walk" THEN {} ELSE Pending

IsStale(r) == r.type = "STALE_STABLE_NODE"
IsChange(r) == r.type = "ITEM_STATE_CHANGE"
IsNew(r) == r.type = "UNSTABLE_MERGE"

\* The items that an entry is about.
AllItems(r) == IF IsNew(r) THEN {r.from, r.to} ELSE {r.from}

\* Item i is still to leave its node, or to join one.
WillLeave(i) == \E k \in Todo : ~IsMerge(log[k]) /\ log[k].from = i
WillJoin(i) == \E k \in Todo : i \in MergeItems(log[k])

-----------------------------------------------------------------------------
\* Items that the host has allocated are mapped, and listed once the walk has
\* passed them; the server has no others.
KnownListed ==
  \A i \in Items :
    /\ rmap_tree[i].state # "Absent" => hitem[i].alloc
    /\ hitem[i].alloc => map[i] # NoPfn
    /\ (hitem[i].alloc /\ (hphase = "walk" => i < cursor)) => shadow[i] # NoPfn

\* A frame names at most one stable node of the server.
UniqueFrames ==
  \A n, m \in NodeIds : (n # m /\ Live(n) /\ Live(m)) => node[n].pfn # node[m].pfn

\* A node of the server is one of the host, unless the merge that makes it is
\* still to come or has failed.
UndoneNode(n) ==
  \E e \in OpenErrs : e.type = "MERGE_TWO_FAILED" /\ rmap_tree[e.from].stable_node = n

NewNode(n) == \E k \in Todo : IsNew(log[k]) /\ rmap_tree[log[k].from].stable_node = n

NodesReal ==
  \A n \in NodeIds : Live(n) => node[n].pfn \in hnode \/ UndoneNode(n) \/ NewNode(n)

\* The item of a failed stable merge remembers the node it was to join.
ErrHeads ==
  \A e \in OpenErrs : e.type = "MERGE_ONE_FAILED" =>
    hitem[e.from].head = e.kpfn /\ e.kpfn \in hnode

\* Where the host has an item.
ItemsAgree ==
  /\ \A k \in Todo : IsChange(log[k]) =>
       hitem[log[k].from].stable /\ hitem[log[k].from].head = log[k].kpfn
  /\ \A i \in Items : ~WillLeave(i) =>
       IF WillJoin(i) THEN ~hitem[i].stable
       ELSE /\ hitem[i].stable <=> (rmap_tree[i].state = "Stable" /\ ~Undone(i, OpenErrs))
            /\ hitem[i].stable => hitem[i].head = node[rmap_tree[i].stable_node].pfn

\* A node that is logged as stale: the server has it no more, no page is mapped
\* to it, and the items that the host has in it leave it before.
StaleFits(k) ==
  LET x == log[k].from
      p == log[k].kpfn
  IN  /\ shadow[x] # NoPfn /\ hitem[x].head = p /\ p \in hnode
      /\ \A i \in Items : map[i] # p
      /\ \A n \in NodeIds : Live(n) => node[n].pfn # p
      /\ \A i \in Items : (hitem[i].stable /\ hitem[i].head = p) =>
           \/ i = x
           \/ \E l \in Todo : l < k /\ IsChange(log[l]) /\ log[l].from = i
      /\ \A l \in Todo : (l # k /\ IsStale(log[l])) => log[l].kpfn # p

StaleOK == \A k \in Todo : IsStale(log[k]) => StaleFits(k)

\* The items of the node of stable merge k that the host has in it when it
\* comes to k.
AtMerge(k) ==
  {i \in Items :
     \/ /\ Believed(i, log[k].kpfn)
        /\ \A l \in DOMAIN log : l >= k => i \notin MergeItems(log[l])
     \/ \E l \in DOMAIN log : /\ l >= k /\ IsChange(log[l])
                              /\ log[l].from = i /\ log[l].kpfn = log[k].kpfn}

\* There is room for one more then.
Room ==
  \A k \in DOMAIN log : log[k].type = "STABLE_MERGE" =>
    Cardinality(AtMerge(k)) < MAX_PAGE_SHARING

\* An item leaves its node at most once, before it joins one.
LeavesFirst ==
  /\ \A k, l \in DOMAIN log : (k < l /\ ~IsMerge(log[l])) => log[l].from \notin AllItems(log[k])
  /\ \A k \in DOMAIN log : (~IsMerge(log[k]) /\ rmap_tree[log[k].from].state = "Stable") =>
       \E l \in DOMAIN log : k < l /\ log[k].from \in MergeItems(log[l])

\* A node that the log makes is made before it is joined, and has no item that
\* the log does not put there.
MadeFirst ==
  \A l \in DOMAIN log : IsNew(log[l]) =>
    \A i \in Items :
      (rmap_tree[i].state = "Stable"
         /\ rmap_tree[i].stable_node = rmap_tree[log[l].from].stable_node) =>
        \E k \in DOMAIN log : k >= l /\ i \in MergeItems(log[k])

AgreeParts ==
  /\ KnownListed
  /\ UniqueFrames
  /\ NodesReal
  /\ ErrHeads
  /\ ItemsAgree
  /\ StaleOK
  /\ Room
  /\ LeavesFirst
  /\ MadeFirst

AgreeInv ==
  ~discarded =>
    /\ hphase # "stopped"
    /\ hphase # "removed" => AgreeParts

-----------------------------------------------------------------------------
(***************************************************************************)
(* Steps that leave the log alone                                          *)
(***************************************************************************)

\* The parts that are about the server and its log only.
LEMMA SameServer ==
  ASSUME AgreeParts, rmap_tree' = rmap_tree, node' = node, log' = log
  PROVE  UniqueFrames' /\ Room' /\ LeavesFirst' /\ MadeFirst'
<1>1. UniqueFrames'
  BY DEF AgreeParts, UniqueFrames, Live
<1>2. Room'
  BY DEF AgreeParts, Room, AtMerge, Believed, MergeItems, IsChange
<1>3. LeavesFirst'
  BY DEF AgreeParts, LeavesFirst, IsMerge, AllItems, IsNew, MergeItems
<1>4. MadeFirst'
  BY DEF AgreeParts, MadeFirst, IsNew, MergeItems
<1>5. QED
  BY <1>1, <1>2, <1>3, <1>4

\* The parts that are about both sides, when neither moves: while entries are
\* left, the listing stays and no page comes to a ksm page.
LEMMA SameSides ==
  ASSUME AgreeParts, rmap_tree' = rmap_tree, node' = node, hitem' = hitem, hnode' = hnode,
         OpenErrs' = OpenErrs, Todo' = Todo,
         \/ Todo = {}
         \/ /\ log' = log /\ shadow' = shadow
            /\ \A i \in Items : map'[i] = map[i] \/ map'[i] \notin hnode
  PROVE  NodesReal' /\ ErrHeads' /\ ItemsAgree' /\ StaleOK'
<1>1. Todo = {} \/ log' = log
  OBVIOUS
<1>2. \A i : (WillLeave(i)' <=> WillLeave(i)) /\ (WillJoin(i)' <=> WillJoin(i))
  BY <1>1 DEF WillLeave, WillJoin, IsMerge, MergeItems
<1>3. NodesReal'
  <2>1. \A n : (UndoneNode(n)' <=> UndoneNode(n)) /\ (NewNode(n)' <=> NewNode(n))
    BY <1>1 DEF UndoneNode, NewNode, IsNew
  <2>2. QED
    BY <2>1 DEF AgreeParts, NodesReal, Live
<1>4. ErrHeads'
  BY DEF AgreeParts, ErrHeads
<1>5. ItemsAgree'
  <2>1. \A k \in Todo' : IsChange(log'[k]) =>
          hitem'[log'[k].from].stable /\ hitem'[log'[k].from].head = log'[k].kpfn
    BY <1>1 DEF AgreeParts, ItemsAgree, IsChange
  <2>2. \A i \in Items : Undone(i, OpenErrs)' <=> Undone(i, OpenErrs)
    BY DEF Undone
  <2>3. ASSUME NEW i \in Items, ~WillLeave(i)'
        PROVE  IF WillJoin(i)' THEN ~hitem'[i].stable
               ELSE /\ hitem'[i].stable <=> (rmap_tree'[i].state = "Stable" /\ ~Undone(i, OpenErrs)')
                    /\ hitem'[i].stable => hitem'[i].head = node'[rmap_tree'[i].stable_node].pfn
    BY <1>2, <2>2, <2>3 DEF AgreeParts, ItemsAgree
  <2>4. QED
    BY <2>1, <2>3 DEF ItemsAgree, IsChange
<1>6. StaleOK'
  <2>1. CASE Todo = {}
    BY <2>1 DEF StaleOK
  <2>2. CASE /\ log' = log /\ shadow' = shadow
             /\ \A i \in Items : map'[i] = map[i] \/ map'[i] \notin hnode
    <3>1. ASSUME NEW k \in Todo, IsStale(log[k])
          PROVE  StaleFits(k)'
      <4>1. StaleFits(k)
        BY <3>1 DEF AgreeParts, StaleOK
      <4>2. \A i \in Items : map'[i] # log[k].kpfn
        BY <2>2, <4>1 DEF StaleFits
      <4>3. QED
        BY <2>2, <4>1, <4>2 DEF StaleFits, Live, IsChange, IsStale
    <3>2. QED
      BY <2>2, <3>1 DEF StaleOK, IsStale
  <2>3. QED
    BY <2>1, <2>2
<1>7. QED
  BY <1>3, <1>4, <1>5, <1>6

\* Guests that give no page back: pages that are mapped stay mapped, and move
\* only to frames that are no ksm pages.
LEMMA GuestAgree ==
  ASSUME JointInv, AgreeParts, GuestStep, ~discarded'
  PROVE  AgreeParts'
<1>1. SystemTypeOK /\ FramesOK
  BY DEF JointInv, GuestInv
<1>2. UNCHANGED guestRest
  BY DEF GuestStep, Write, Fault, Discard
<1>3. /\ hitem' = hitem /\ hnode' = hnode /\ shadow' = shadow /\ errtab' = errtab
      /\ hphase' = hphase /\ cursor' = cursor /\ applied' = applied
      /\ log' = log /\ errs' = errs /\ rmap_tree' = rmap_tree /\ node' = node
  BY <1>2 DEF guestRest, vars, scanVars, metaVars
<1>4. \A i \in Items : map'[i] = map[i] \/ map'[i] \in FreeFrames
  <2>1. ASSUME NEW i \in Items, NEW v \in Hashes, NEW p \in FreeFrames, MoveTo(i, p, v)
        PROVE  \A j \in Items : map'[j] = map[j] \/ map'[j] \in FreeFrames
    BY <1>1, <2>1 DEF MoveTo, SystemTypeOK
  <2>2. ASSUME NEW i \in Items, NEW v \in Hashes, Write(i, v) \/ Fault(i, v)
        PROVE  \A j \in Items : map'[j] = map[j] \/ map'[j] \in FreeFrames
    BY <2>1, <2>2 DEF Write, Fault
  <2>3. \A i \in Items : ~Discard(i)
    BY DEF Discard
  <2>4. QED
    BY <2>2, <2>3 DEF GuestStep
<1>5. \A p \in FreeFrames : p # NoPfn /\ p \notin hnode
  <2>1. \A p \in FreeFrames : p \in Pfns /\ frame[p] = "anon"
    BY <1>1, KsmFrames DEF FreeFrames
  <2>2. QED
    BY <1>1, <2>1, ServerAssumption DEF FramesOK
<1>6. KnownListed'
  BY <1>3, <1>4, <1>5 DEF AgreeParts, KnownListed
<1>7. Todo' = Todo /\ OpenErrs' = OpenErrs
  BY <1>3 DEF Todo, Pending, OpenErrs
<1>8. UniqueFrames' /\ Room' /\ LeavesFirst' /\ MadeFirst'
  BY <1>3, SameServer
<1>9. NodesReal' /\ ErrHeads' /\ ItemsAgree' /\ StaleOK'
  BY <1>3, <1>4, <1>5, <1>7, SameSides
<1>10. QED
  BY <1>6, <1>8, <1>9 DEF AgreeParts

-----------------------------------------------------------------------------
(***************************************************************************)
(* The host's round                                                        *)
(***************************************************************************)

\* scan_pte_entry: the walk frees no item, since what it passed over has none.
LEMMA ScanAgree ==
  ASSUME JointInv, AgreeParts, scan_pte_entry
  PROVE  AgreeParts'
<1> DEFINE c == cursor
<1>1. SystemTypeOK /\ ServerInv /\ HostItemsOK
  BY DEF JointInv, GuestInv
<1>2. /\ UNCHANGED vars /\ hnode' = hnode /\ errtab' = errtab /\ hphase' = hphase
      /\ map' = map /\ hphase = "walk" /\ c \in Items /\ cursor' = c + 1
  BY DEF scan_pte_entry, guestVars
<1>3. log' = log /\ rmap_tree' = rmap_tree /\ node' = node
  BY <1>2 DEF vars, metaVars
<1>4. \A i \in Items : i \in Int
  BY FS_CardinalityType, ServerAssumption, SystemAssumption
<1>5. ASSUME NEW i \in Items
      PROVE  /\ rmap_tree[i].state # "Absent" => hitem[i].alloc
             /\ hitem[i].alloc => map[i] # NoPfn
             /\ (hitem[i].alloc /\ i < c) => shadow[i] # NoPfn
             /\ hitem[i].stable => hitem[i].alloc
  BY <1>1, <1>2 DEF AgreeParts, KnownListed, HostItemsOK
<1> HIDE DEF c
<1>6. ASSUME NEW i \in Items
      PROVE  /\ hitem'[i] = hitem[i] \/ (~hitem[i].alloc /\ ~hitem'[i].stable)
             /\ hitem'[i].alloc => hitem[i].alloc \/ (i = c /\ map[c] # NoPfn)
             /\ shadow'[i] = IF i = c /\ map[c] # NoPfn THEN map[c] ELSE shadow[i]
  <2>1. CASE map[c] = NoPfn
    BY <2>1 DEF scan_pte_entry, c
  <2>2. CASE map[c] # NoPfn
    <3>1. shadow' = [shadow EXCEPT ![c] = map[c]] /\ hitem' = get_next_rmap_item(c)
      BY <2>2 DEF scan_pte_entry, c
    <3>2. shadow'[i] = IF i = c /\ map[c] # NoPfn THEN map[c] ELSE shadow[i]
      BY <1>1, <2>2, <3>1 DEF SystemTypeOK
    <3>3. hitem'[i] = IF i = c /\ ~hitem[c].alloc THEN FreshHostItem
                      ELSE IF i < c /\ i \notin Listed THEN NoHostItem
                      ELSE hitem[i]
      BY <3>1 DEF get_next_rmap_item
    <3>4. (i < c /\ i \notin Listed) => ~hitem[i].alloc
      BY <1>5 DEF Listed
    <3>5. hitem'[i] = hitem[i] \/ (~hitem[i].alloc /\ ~hitem'[i].stable)
      BY <3>3, <3>4 DEF FreshHostItem, NoHostItem
    <3>6. hitem'[i].alloc => hitem[i].alloc \/ (i = c /\ map[c] # NoPfn)
      BY <2>2, <3>3 DEF FreshHostItem, NoHostItem
    <3>7. QED
      BY <3>2, <3>5, <3>6
  <2>3. QED
    BY <2>1, <2>2
<1>7. KnownListed'
  <2>1. ASSUME NEW i \in Items
        PROVE  /\ rmap_tree[i].state # "Absent" => hitem'[i].alloc
               /\ hitem'[i].alloc => map[i] # NoPfn
               /\ (hitem'[i].alloc /\ i < c + 1) => shadow'[i] # NoPfn
    <3>1. rmap_tree[i].state # "Absent" => hitem'[i].alloc
      BY <1>5, <1>6
    <3>2. hitem'[i].alloc => map[i] # NoPfn
      BY <1>5, <1>6
    <3>3. ASSUME hitem'[i].alloc, i < c + 1 PROVE shadow'[i] # NoPfn
      <4>1. i < c \/ i = c
        BY <1>2, <1>4, <3>3 DEF c
      <4>2. CASE i = c
        BY <1>6, <3>2, <3>3, <4>2
      <4>3. CASE i # c
        BY <1>5, <1>6, <3>3, <4>1, <4>3
      <4>4. QED
        BY <4>2, <4>3
    <3>4. QED
      BY <3>1, <3>2, <3>3
  <2>2. QED
    BY <1>2, <1>3, <2>1 DEF KnownListed, c
<1>8. Todo = {} /\ Todo' = {} /\ OpenErrs = errtab /\ OpenErrs' = errtab
  BY <1>2 DEF Todo, OpenErrs
<1>9. NodesReal'
  <2>1. \A n : (UndoneNode(n)' <=> UndoneNode(n)) /\ (NewNode(n)' <=> NewNode(n))
    BY <1>3, <1>8 DEF UndoneNode, NewNode
  <2>2. QED
    BY <1>2, <1>3, <2>1 DEF AgreeParts, NodesReal, Live
<1>10. ErrHeads'
  <2>1. ASSUME NEW e \in errtab, e.type = "MERGE_ONE_FAILED"
        PROVE  hitem'[e.from].head = e.kpfn /\ e.kpfn \in hnode
    <3>1. HostReports(errtab)
      BY <1>2, <2>1 DEF JointInv, ErrorsAreReportable
    <3>2. PICK k \in DOMAIN log : log[k].from = e.from /\ log[k].type = "STABLE_MERGE"
      BY <2>1, <3>1 DEF HostReports
    <3>3. rmap_tree[e.from].state = "Stable"
      BY <1>1, <3>2 DEF ServerInv, LogMatchesMetadata
    <3>4. e.from \in Items
      BY <1>1, <2>1 DEF SystemTypeOK, ErrRec
    <3>5. hitem[e.from].alloc
      BY <1>5, <3>3, <3>4
    <3>6. hitem'[e.from] = hitem[e.from]
      BY <1>6, <3>4, <3>5
    <3>7. QED
      BY <1>8, <2>1, <3>6 DEF AgreeParts, ErrHeads
  <2>2. QED
    BY <1>2, <1>8, <2>1 DEF ErrHeads
<1>11. ItemsAgree'
  <2>1. \A i : ~WillLeave(i) /\ ~WillJoin(i) /\ ~WillLeave(i)' /\ ~WillJoin(i)'
    BY <1>8 DEF WillLeave, WillJoin
  <2>2. ASSUME NEW i \in Items
        PROVE  /\ hitem'[i].stable <=> (rmap_tree[i].state = "Stable" /\ ~Undone(i, errtab))
               /\ hitem'[i].stable => hitem'[i].head = node[rmap_tree[i].stable_node].pfn
    <3>1. /\ hitem[i].stable <=> (rmap_tree[i].state = "Stable" /\ ~Undone(i, errtab))
          /\ hitem[i].stable => hitem[i].head = node[rmap_tree[i].stable_node].pfn
      BY <1>8, <2>1 DEF AgreeParts, ItemsAgree
    <3>2. CASE hitem'[i] = hitem[i]
      BY <3>1, <3>2
    <3>3. CASE ~hitem[i].alloc /\ ~hitem'[i].stable
      BY <1>5, <3>1, <3>3
    <3>4. QED
      BY <1>6, <3>2, <3>3
  <2>3. \A i : Undone(i, OpenErrs)' <=> Undone(i, errtab)
    BY <1>2, <1>3, <1>8 DEF Undone
  <2>4. QED
    BY <1>3, <1>8, <2>1, <2>2, <2>3 DEF ItemsAgree
<1>12. StaleOK'
  BY <1>8 DEF StaleOK
<1>13. UniqueFrames' /\ Room' /\ LeavesFirst' /\ MadeFirst'
  BY <1>3, SameServer
<1>14. QED
  BY <1>7, <1>9, <1>10, <1>11, <1>12, <1>13 DEF AgreeParts

\* rdma_send_metadata: every item of the host is listed, and a new log begins.
LEMMA SendAgree ==
  ASSUME JointInv, AgreeParts, rdma_send_metadata
  PROVE  AgreeParts'
<1>1. /\ hphase = "walk" /\ hphase' = "offload" /\ cursor \notin Items
      /\ hitem' = hitem /\ hnode' = hnode /\ shadow' = shadow /\ map' = map
      /\ errs' = errtab /\ log' = <<>> /\ rmap_tree' = rmap_tree /\ node' = node
  BY DEF rdma_send_metadata, RecvMetadata, guestVars, metaVars
<1>2. DOMAIN log' = {}
  BY <1>1
<1>3. Todo = {} /\ Todo' = {} /\ OpenErrs = errtab /\ OpenErrs' = errtab
  BY <1>1, <1>2 DEF Todo, Pending, OpenErrs
<1>4. \A i \in Items : i < cursor
  <2>1. Items = 1 .. Cardinality(Items) /\ Cardinality(Items) \in Nat
    BY FS_CardinalityType, ServerAssumption, SystemAssumption
  <2>2. cursor \in 1 .. Cardinality(Items) + 1
    BY <1>1 DEF JointInv, RoundOK
  <2>3. cursor \notin 1 .. Cardinality(Items)
    BY <1>1, <2>1
  <2>4. cursor = Cardinality(Items) + 1
    BY <2>1, <2>2, <2>3
  <2>5. QED
    BY <2>1, <2>4
<1>5. KnownListed'
  BY <1>1, <1>4 DEF AgreeParts, KnownListed
<1>6. UniqueFrames'
  BY <1>1 DEF AgreeParts, UniqueFrames, Live
<1>7. Room' /\ LeavesFirst' /\ MadeFirst'
  BY <1>2 DEF Room, LeavesFirst, MadeFirst
<1>8. NodesReal' /\ ErrHeads' /\ ItemsAgree' /\ StaleOK'
  BY <1>1, <1>3, SameSides
<1>9. QED
  BY <1>5, <1>6, <1>7, <1>8 DEF AgreeParts

\* recv_offload_result: all of the log is to be carried out.
LEMMA RecvAgree ==
  ASSUME JointInv, AgreeParts, recv_offload_result
  PROVE  AgreeParts'
<1>1. /\ hphase = "offload" /\ hphase' = "apply" /\ phase = "wait" /\ applied' = 0
      /\ hitem' = hitem /\ hnode' = hnode /\ shadow' = shadow /\ map' = map
      /\ errtab' = {} /\ log' = log /\ rmap_tree' = rmap_tree /\ node' = node
  BY DEF recv_offload_result, vars, metaVars, guestVars
<1>2. errs = {}
  BY <1>1 DEF JointInv, ServerInv, PhaseOK
<1>3. \A k \in DOMAIN log : k > 0
  BY DEF JointInv, ServerInv, TypeOK
<1>4. Todo' = Todo /\ OpenErrs' = OpenErrs
  BY <1>1, <1>2, <1>3 DEF Todo, Pending, OpenErrs
<1>5. KnownListed'
  BY <1>1 DEF AgreeParts, KnownListed
<1>6. UniqueFrames' /\ Room' /\ LeavesFirst' /\ MadeFirst'
  BY <1>1, SameServer
<1>7. NodesReal' /\ ErrHeads' /\ ItemsAgree' /\ StaleOK'
  BY <1>1, <1>4, SameSides
<1>8. QED
  BY <1>5, <1>6, <1>7 DEF AgreeParts

\* destroy_metadata: nothing of the log is left.
LEMMA DestroyAgree ==
  ASSUME JointInv, AgreeParts, destroy_metadata
  PROVE  AgreeParts'
<1>1. /\ hphase = "apply" /\ hphase' = "walk" /\ applied = Len(log) /\ cursor' = 1
      /\ hitem' = hitem /\ hnode' = hnode /\ map' = map /\ errtab' = errtab
      /\ log' = log /\ rmap_tree' = rmap_tree /\ node' = node
  BY DEF destroy_metadata, vars, metaVars, guestVars
<1>2. \A k \in DOMAIN log : ~(k > applied)
  BY <1>1 DEF JointInv, ServerInv, TypeOK
<1>3. Todo = {} /\ Todo' = {} /\ OpenErrs' = OpenErrs
  BY <1>1, <1>2 DEF Todo, Pending, OpenErrs
<1>4. \A i \in Items : ~(i < 1)
  BY FS_CardinalityType, ServerAssumption, SystemAssumption
<1>5. KnownListed'
  BY <1>1, <1>4 DEF AgreeParts, KnownListed
<1>6. UniqueFrames' /\ Room' /\ LeavesFirst' /\ MadeFirst'
  BY <1>1, SameServer
<1>7. NodesReal' /\ ErrHeads' /\ ItemsAgree' /\ StaleOK'
  BY <1>1, <1>3, SameSides
<1>8. QED
  BY <1>5, <1>6, <1>7 DEF AgreeParts

-----------------------------------------------------------------------------
(***************************************************************************)
(* Carrying out the log                                                    *)
(***************************************************************************)

\* The entries that are left while the log is carried out, and what the entry
\* in hand has to do with the later ones.
LEMMA EntryOrder ==
  ASSUME JointInv, AgreeParts, hphase = "apply", applied < Len(log)
  PROVE  /\ Todo = {k \in DOMAIN log : k > applied} /\ OpenErrs = errtab
         /\ applied + 1 \in Todo /\ Entry = log[applied + 1] /\ Entry \in LogRec
         /\ \A k \in Todo : k = applied + 1 \/ k > applied + 1
         /\ AllItems(Entry) \subseteq Items /\ MergeItems(Entry) \subseteq AllItems(Entry)
         /\ Entry.from \in AllItems(Entry)
         /\ IsMerge(Entry) => AllItems(Entry) = MergeItems(Entry)
         /\ ~IsMerge(Entry) => MergeItems(Entry) = {} /\ AllItems(Entry) = {Entry.from}
         /\ \A k \in Todo : k > applied + 1 =>
              /\ ~IsMerge(log[k]) => log[k].from \notin AllItems(Entry)
              /\ MergeItems(log[k]) \cap MergeItems(Entry) = {}
         /\ \A e \in errtab : e.from \notin AllItems(Entry)
<1>1. /\ applied \in Nat /\ applied + 1 \in DOMAIN log /\ Entry = log[applied + 1]
      /\ Entry \in LogRec
  BY EntryFacts
<1>2. \A k \in DOMAIN log : k \in Nat
  BY DEF JointInv, ServerInv, TypeOK
<1>3. Todo = {k \in DOMAIN log : k > applied} /\ OpenErrs = errtab
  BY DEF Todo, Pending, OpenErrs
<1>4. applied + 1 \in Todo /\ \A k \in Todo : k = applied + 1 \/ k > applied + 1
  BY <1>1, <1>2, <1>3
<1>5. /\ AllItems(Entry) \subseteq Items /\ MergeItems(Entry) \subseteq AllItems(Entry)
      /\ Entry.from \in AllItems(Entry)
      /\ IsMerge(Entry) => AllItems(Entry) = MergeItems(Entry)
      /\ ~IsMerge(Entry) => MergeItems(Entry) = {} /\ AllItems(Entry) = {Entry.from}
  <2>1. Entry.from \in Items /\ (Entry.type = "UNSTABLE_MERGE" => Entry.to \in Items)
    BY <1>1, LogTypes
  <2>2. QED
    BY <2>1 DEF AllItems, MergeItems, IsMerge, IsNew
<1>6. ASSUME NEW k \in Todo, k > applied + 1
      PROVE  /\ ~IsMerge(log[k]) => log[k].from \notin AllItems(Entry)
             /\ MergeItems(log[k]) \cap MergeItems(Entry) = {}
  <2>1. k \in DOMAIN log /\ applied + 1 < k
    BY <1>1, <1>2, <1>3, <1>6
  <2>2. ~IsMerge(log[k]) => log[k].from \notin AllItems(Entry)
    BY <1>1, <2>1 DEF AgreeParts, LeavesFirst
  <2>3. EntryItems(log[k]) \cap MergeItems(log[applied + 1]) = {}
    BY <1>1, <2>1 DEF JointInv, LogOrder
  <2>4. MergeItems(log[k]) \subseteq EntryItems(log[k])
    BY DEF MergeItems, EntryItems
  <2>5. QED
    BY <1>1, <2>2, <2>3, <2>4
<1>7. ASSUME NEW e \in errtab PROVE e.from \notin AllItems(Entry)
  <2>1. e.from \notin EntryItems(Entry) /\ \E k \in 1 .. applied : ReportOf(e, log[k])
    BY FailureFacts
  <2>2. CASE IsMerge(Entry)
    BY <1>5, <2>1, <2>2 DEF EntryItems, IsMerge
  <2>3. CASE ~IsMerge(Entry)
    <3>1. PICK k \in 1 .. applied : ReportOf(e, log[k])
      BY <2>1
    <3>2. k \in DOMAIN log /\ k < applied + 1
      BY <1>1 DEF JointInv, ServerInv, TypeOK
    <3>3. log[applied + 1].from \notin AllItems(log[k])
      BY <1>1, <2>3, <3>2 DEF AgreeParts, LeavesFirst
    <3>4. log[k].from = e.from /\ log[k].from \in AllItems(log[k])
      BY <3>1 DEF ReportOf, AllItems
    <3>5. QED
      BY <1>1, <1>5, <2>3, <3>3, <3>4
  <2>4. QED
    BY <2>2, <2>3
<1>8. QED
  BY <1>1, <1>3, <1>4, <1>5, <1>6, <1>7

\* The items of a merge are in no node when it is carried out, and no entry
\* after it is about them.
LEMMA EntryJoins ==
  ASSUME JointInv, AgreeParts, hphase = "apply", applied < Len(log),
         NEW i \in MergeItems(Entry)
  PROVE  ~hitem[i].stable /\ IsMerge(Entry) /\ i \in Items
<1>1. /\ applied + 1 \in Todo /\ Entry = log[applied + 1]
      /\ \A k \in Todo : k = applied + 1 \/ k > applied + 1
      /\ AllItems(Entry) \subseteq Items /\ MergeItems(Entry) \subseteq AllItems(Entry)
      /\ \A k \in Todo : k > applied + 1 => (~IsMerge(log[k]) => log[k].from \notin AllItems(Entry))
  BY EntryOrder
<1>2. IsMerge(Entry)
  BY DEF MergeItems, IsMerge
<1>3. ~WillLeave(i)
  BY <1>1, <1>2 DEF WillLeave
<1>4. WillJoin(i)
  BY <1>1 DEF WillJoin
<1>5. QED
  BY <1>1, <1>2, <1>3, <1>4 DEF AgreeParts, ItemsAgree

\* An entry keeps the two sides in step if it touches its own items only and
\* leaves them as the server has them, but for the failures it reports.
LEMMA ApplyFrame ==
  ASSUME JointInv, AgreeParts, EntryDone,
         \A i \in Items : /\ hitem'[i].alloc = hitem[i].alloc
                          /\ map[i] # NoPfn => map'[i] # NoPfn
                          /\ i \notin AllItems(Entry) => hitem'[i] = hitem[i],
         \A k \in Todo : IsStale(log[k]) => \A i \in Items : map'[i] # log[k].kpfn,
         \A q \in hnode : q \in hnode' \/ (IsStale(Entry) /\ q = Entry.kpfn),
         errtab \subseteq errtab',
         \A e \in errtab' : (e \notin errtab /\ e.type = "MERGE_ONE_FAILED") =>
           hitem'[e.from].head = e.kpfn /\ e.kpfn \in hnode',
         \A i \in Items \ AllItems(Entry) :
           (rmap_tree[i].state = "Stable" /\ Undone(i, errtab')) =>
             \/ Undone(i, errtab)
             \/ \E k \in DOMAIN log : k > applied + 1 /\ i \in MergeItems(log[k]),
         \A i \in MergeItems(Entry) :
           /\ hitem'[i].stable <=> (rmap_tree[i].state = "Stable" /\ ~Undone(i, errtab'))
           /\ hitem'[i].stable => hitem'[i].head = node[rmap_tree[i].stable_node].pfn,
         ~IsMerge(Entry) => ~hitem'[Entry.from].stable,
         IsNew(Entry) =>
           \/ node[rmap_tree[Entry.from].stable_node].pfn \in hnode'
           \/ \E e \in errtab' : e.type = "MERGE_TWO_FAILED" /\ e.from = Entry.from
  PROVE  AgreeParts'
<1> DEFINE here == applied + 1
<1>1. /\ UNCHANGED vars /\ shadow' = shadow /\ hphase' = hphase /\ hphase = "apply"
      /\ cursor' = cursor /\ applied < Len(log) /\ applied' = here
  BY DEF EntryDone
<1>2. log' = log /\ rmap_tree' = rmap_tree /\ node' = node
  BY <1>1 DEF vars, metaVars
<1>3. /\ Todo = {k \in DOMAIN log : k > applied} /\ OpenErrs = errtab
      /\ here \in Todo /\ Entry = log[here] /\ Entry \in LogRec
      /\ \A k \in Todo : k = here \/ k > here
      /\ AllItems(Entry) \subseteq Items /\ MergeItems(Entry) \subseteq AllItems(Entry)
      /\ Entry.from \in AllItems(Entry)
      /\ IsMerge(Entry) => AllItems(Entry) = MergeItems(Entry)
      /\ ~IsMerge(Entry) => MergeItems(Entry) = {} /\ AllItems(Entry) = {Entry.from}
      /\ \A k \in Todo : k > here =>
           /\ ~IsMerge(log[k]) => log[k].from \notin AllItems(Entry)
           /\ MergeItems(log[k]) \cap MergeItems(Entry) = {}
      /\ \A e \in errtab : e.from \notin AllItems(Entry)
  BY <1>1, EntryOrder
<1>4. applied \in Nat /\ \A k \in DOMAIN log : k \in Nat
  BY DEF JointInv, GuestInv, SystemTypeOK, ServerInv, TypeOK
<1>5. Todo' = {k \in DOMAIN log : k > here} /\ OpenErrs' = errtab'
  BY <1>1, <1>2 DEF Todo, Pending, OpenErrs
<1>6. /\ \A k \in Todo' : k \in Todo /\ k > here
      /\ \A k \in Todo : k = here \/ k \in Todo'
  BY <1>3, <1>4, <1>5
<1> HIDE DEF here
<1>7. ASSUME NEW n \in NodeIds, Live(n), IsStale(Entry)
      PROVE  node[n].pfn # Entry.kpfn
  BY <1>3, <1>7 DEF AgreeParts, StaleOK, StaleFits
<1>8. ASSUME NEW i \in Items, rmap_tree[i].state = "Stable"
      PROVE  rmap_tree[i].stable_node \in NodeIds /\ Live(rmap_tree[i].stable_node)
  BY <1>8 DEF JointInv, ServerInv, StructInv, SharingConsistent
<1>9. KnownListed'
  BY <1>1, <1>2 DEF AgreeParts, KnownListed
<1>10. NodesReal'
  <2>1. ASSUME NEW n \in NodeIds, Live(n)
        PROVE  node[n].pfn \in hnode' \/ UndoneNode(n)' \/ NewNode(n)'
    <3>1. CASE node[n].pfn \in hnode
      BY <1>7, <2>1, <3>1
    <3>2. CASE UndoneNode(n)
      BY <1>2, <1>3, <1>5, <3>2 DEF UndoneNode
    <3>3. CASE NewNode(n)
      <4>1. PICK k \in Todo : IsNew(log[k]) /\ rmap_tree[log[k].from].stable_node = n
        BY <3>3 DEF NewNode
      <4>2. CASE k = here
        <5>1. IsNew(Entry) /\ rmap_tree[Entry.from].stable_node = n
          BY <1>3, <4>1, <4>2
        <5>2. QED
          BY <1>2, <1>5, <5>1 DEF UndoneNode
      <4>3. CASE k # here
        BY <1>2, <1>6, <4>1, <4>3 DEF NewNode, IsNew
      <4>4. QED
        BY <4>2, <4>3
    <3>4. QED
      BY <2>1, <3>1, <3>2, <3>3 DEF AgreeParts, NodesReal
  <2>2. QED
    BY <1>2, <2>1 DEF NodesReal, Live
<1>11. ErrHeads'
  <2>1. ASSUME NEW e \in errtab, e.type = "MERGE_ONE_FAILED"
        PROVE  hitem'[e.from].head = e.kpfn /\ e.kpfn \in hnode'
    <3>1. hitem[e.from].head = e.kpfn /\ e.kpfn \in hnode
      BY <1>3, <2>1 DEF AgreeParts, ErrHeads
    <3>2. e.from \in Items /\ Believed(e.from, e.kpfn)
      BY <1>1, <2>1, FailureFacts
    <3>3. hitem'[e.from] = hitem[e.from]
      BY <1>3, <3>2
    <3>4. ~(IsStale(Entry) /\ e.kpfn = Entry.kpfn)
      BY <1>7, <1>8, <3>2 DEF Believed
    <3>5. QED
      BY <3>1, <3>3, <3>4
  <2>2. QED
    BY <1>5, <2>1 DEF ErrHeads
<1>12. ItemsAgree'
  <2>1. ASSUME NEW k \in Todo', IsChange(log[k])
        PROVE  hitem'[log[k].from].stable /\ hitem'[log[k].from].head = log[k].kpfn
    <3>1. ~IsMerge(log[k]) /\ k \in Todo /\ k > here
      BY <1>6, <2>1 DEF IsChange, IsMerge
    <3>2. log[k].from \notin AllItems(Entry)
      BY <1>3, <3>1
    <3>3. log[k] \in LogRec
      BY <1>3, <3>1 DEF JointInv, ServerInv, TypeOK
    <3>4. log[k].from \in Items
      BY <3>3, LogTypes
    <3>5. hitem[log[k].from].stable /\ hitem[log[k].from].head = log[k].kpfn
      BY <2>1, <3>1 DEF AgreeParts, ItemsAgree
    <3>6. QED
      BY <3>2, <3>4, <3>5
  <2>2. ASSUME NEW i \in Items, ~WillLeave(i)'
        PROVE  IF WillJoin(i)' THEN ~hitem'[i].stable
               ELSE /\ hitem'[i].stable <=> (rmap_tree[i].state = "Stable" /\ ~Undone(i, errtab'))
                    /\ hitem'[i].stable => hitem'[i].head = node[rmap_tree[i].stable_node].pfn
    <3>1. CASE i \in MergeItems(Entry)
      <4>1. ~WillJoin(i)'
        BY <1>2, <1>3, <1>6, <3>1 DEF WillJoin, MergeItems
      <4>2. QED
        BY <3>1, <4>1
    <3>2. CASE ~IsMerge(Entry) /\ i = Entry.from
      <4>1. ~hitem'[i].stable
        BY <3>2
      <4>2. rmap_tree[i].state = "Stable" => WillJoin(i)'
        <5>1. rmap_tree[i].state = "Stable" =>
                \E l \in DOMAIN log : here < l /\ i \in MergeItems(log[l])
          BY <1>3, <3>2 DEF AgreeParts, LeavesFirst
        <5>2. \A l \in DOMAIN log : here < l => l \in Todo'
          BY <1>4, <1>5 DEF here
        <5>3. QED
          BY <1>2, <5>1, <5>2 DEF WillJoin, MergeItems
      <4>3. QED
        BY <4>1, <4>2
    <3>3. CASE i \notin AllItems(Entry)
      <4>1. hitem'[i] = hitem[i]
        BY <3>3
      <4>2. \A k \in Todo : ((~IsMerge(log[k]) /\ log[k].from = i) \/ i \in MergeItems(log[k]))
              => k \in Todo'
        BY <1>3, <1>6, <3>3
      <4>3. ~WillLeave(i)
        BY <1>2, <2>2, <4>2 DEF WillLeave, IsMerge
      <4>4. WillJoin(i) <=> WillJoin(i)'
        BY <1>2, <1>6, <4>2 DEF WillJoin, MergeItems
      <4>5. CASE WillJoin(i)
        BY <4>1, <4>3, <4>4, <4>5 DEF AgreeParts, ItemsAgree
      <4>6. CASE ~WillJoin(i)
        <5>1. /\ hitem[i].stable <=> (rmap_tree[i].state = "Stable" /\ ~Undone(i, errtab))
              /\ hitem[i].stable => hitem[i].head = node[rmap_tree[i].stable_node].pfn
          BY <1>3, <4>3, <4>6 DEF AgreeParts, ItemsAgree
        <5>2. Undone(i, errtab) => Undone(i, errtab')
          BY DEF Undone
        <5>3. ~\E k \in DOMAIN log : k > here /\ i \in MergeItems(log[k])
          BY <1>2, <1>5, <4>4, <4>6 DEF WillJoin, MergeItems
        <5>4. (rmap_tree[i].state = "Stable" /\ Undone(i, errtab')) => Undone(i, errtab)
          BY <3>3, <5>3 DEF here
        <5>5. QED
          BY <4>1, <4>4, <4>6, <5>1, <5>2, <5>4
      <4>7. QED
        BY <4>5, <4>6
    <3>4. QED
      BY <1>3, <3>1, <3>2, <3>3
  <2>3. \A i : Undone(i, OpenErrs)' <=> Undone(i, errtab')
    BY <1>2, <1>5 DEF Undone
  <2>4. QED
    BY <1>2, <2>1, <2>2, <2>3 DEF ItemsAgree, IsChange
<1>13. StaleOK'
  <2>1. ASSUME NEW k \in Todo', IsStale(log[k])
        PROVE  StaleFits(k)'
    <3> DEFINE x == log[k].from
               p == log[k].kpfn
    <3>1. ~IsMerge(log[k]) /\ k \in Todo /\ k > here
      BY <1>6, <2>1 DEF IsStale, IsMerge
    <3>2. log[k] \in LogRec
      BY <1>3, <3>1 DEF JointInv, ServerInv, TypeOK
    <3>3. x \in Items /\ x \notin AllItems(Entry)
      BY <1>3, <3>1, <3>2, LogTypes
    <3>4. StaleFits(k)
      BY <2>1, <3>1 DEF AgreeParts, StaleOK
    <3>5. /\ shadow[x] # NoPfn /\ hitem[x].head = p /\ p \in hnode
          /\ \A n \in NodeIds : Live(n) => node[n].pfn # p
          /\ \A i \in Items : (hitem[i].stable /\ hitem[i].head = p) =>
               \/ i = x
               \/ \E l \in Todo : l < k /\ IsChange(log[l]) /\ log[l].from = i
          /\ \A l \in Todo : (l # k /\ IsStale(log[l])) => log[l].kpfn # p
      BY <3>4 DEF StaleFits
    <3>6. k # here
      BY <1>4, <3>1 DEF here
    <3>7. p \in hnode'
      BY <1>3, <3>5, <3>6
    <3>8. \A i \in Items : map'[i] # p
      BY <2>1, <3>1
    <3>9. ASSUME NEW i \in Items, hitem'[i].stable, hitem'[i].head = p
          PROVE  i = x \/ \E l \in Todo' : l < k /\ IsChange(log[l]) /\ log[l].from = i
      <4>1. CASE i \in MergeItems(Entry)
        BY <1>8, <3>5, <3>9, <4>1
      <4>2. CASE i \notin AllItems(Entry)
        <5>1. i = x \/ \E l \in Todo : l < k /\ IsChange(log[l]) /\ log[l].from = i
          BY <3>5, <3>9, <4>2
        <5>2. \A l \in Todo : log[l].from = i => l \in Todo'
          BY <1>3, <1>6, <4>2
        <5>3. QED
          BY <5>1, <5>2
      <4>3. QED
        BY <1>3, <3>9, <4>1, <4>2
    <3>10. hitem'[x].head = p
      BY <3>3, <3>5
    <3>11. \A l \in Todo' : (l # k /\ IsStale(log[l])) => log[l].kpfn # p
      BY <1>6, <3>5
    <3> HIDE DEF x, p
    <3>12. /\ shadow'[x] # NoPfn /\ hitem'[x].head = p /\ p \in hnode'
           /\ \A i \in Items : map'[i] # p
           /\ \A n \in NodeIds : Live(n)' => node'[n].pfn # p
           /\ x = log'[k].from /\ p = log'[k].kpfn
      BY <1>1, <1>2, <3>5, <3>7, <3>8, <3>10 DEF Live, x, p
    <3>13. /\ \A i \in Items : (hitem'[i].stable /\ hitem'[i].head = p) =>
                \/ i = x
                \/ \E l \in Todo' : l < k /\ IsChange(log[l])' /\ log'[l].from = i
           /\ \A l \in Todo' : (l # k /\ IsStale(log[l])') => log'[l].kpfn # p
      BY <1>2, <3>9, <3>11 DEF IsChange, IsStale
    <3>14. QED
      BY <3>12, <3>13 DEF StaleFits
  <2>2. QED
    BY <1>2, <2>1 DEF StaleOK, IsStale
<1>14. UniqueFrames' /\ Room' /\ LeavesFirst' /\ MadeFirst'
  BY <1>2, SameServer
<1>15. QED
  BY <1>9, <1>10, <1>11, <1>12, <1>13, <1>14 DEF AgreeParts

\* The frame of a node that is logged as stale is nobody's.
LEMMA StaleApart ==
  ASSUME JointInv, AgreeParts, NEW k \in Todo, IsStale(log[k])
  PROVE  /\ log[k].kpfn \in hnode
         /\ \A i \in Items : map[i] # log[k].kpfn
         /\ \A i \in Items : ~Believed(i, log[k].kpfn)
<1>1. StaleFits(k)
  BY DEF AgreeParts, StaleOK
<1>2. \A i \in Items : rmap_tree[i].state = "Stable" =>
        rmap_tree[i].stable_node \in NodeIds /\ Live(rmap_tree[i].stable_node)
  BY DEF JointInv, ServerInv, StructInv, SharingConsistent
<1>3. QED
  BY <1>1, <1>2 DEF StaleFits, Believed

\* A stable merge that is passed over: its node is one whose making failed, so
\* the server will undo the item with the node.
LEMMA SkippedAgree ==
  ASSUME JointInv, AgreeParts, StableMergeSkipped
  PROVE  AgreeParts'
<1> DEFINE x == Entry.from
           q == Entry.kpfn
           n == rmap_tree[x].stable_node
<1>1. /\ EntryDone /\ Entry.type = "STABLE_MERGE" /\ ~HasStableNode(q)
      /\ errtab' = errtab /\ map' = map /\ hitem' = hitem /\ hnode' = hnode
  BY DEF StableMergeSkipped, SkipErrors, Applying, applyRest, EntryDone
<1>2. hphase = "apply" /\ applied < Len(log)
  BY <1>1 DEF EntryDone
<1>3. MergeItems(Entry) = {x} /\ IsMerge(Entry) /\ ~IsNew(Entry) /\ ~IsStale(Entry)
  BY <1>1 DEF MergeItems, IsMerge, IsNew, IsStale
<1>4. x \in Items /\ Believed(x, q)
  BY <1>1, <1>2, <1>3, EntryFacts
<1>5. ~hitem[x].stable
  BY <1>2, <1>3, EntryJoins
<1>6. n \in NodeIds /\ Live(n) /\ node[n].pfn = q /\ rmap_tree[x].state = "Stable"
  BY <1>4 DEF JointInv, ServerInv, StructInv, SharingConsistent, Believed
<1>7. q \notin hnode
  <2>1. SystemTypeOK /\ FramesOK
    BY DEF JointInv, GuestInv
  <2>2. \A p \in hnode : HasStableNode(p)
    BY <2>1, KsmFrames DEF FramesOK, SystemTypeOK
  <2>3. QED
    BY <1>1, <2>2
<1>8. Todo = {k \in DOMAIN log : k > applied} /\ OpenErrs = errtab /\ Entry = log[applied + 1]
      /\ applied + 1 \in DOMAIN log /\ applied \in Nat /\ \A k \in DOMAIN log : k \in Nat
  BY <1>2, EntryOrder, EntryFacts DEF JointInv, ServerInv, TypeOK
<1>9. ~NewNode(n)
  <2>1. SUFFICES ASSUME NEW k \in Todo, IsNew(log[k]), rmap_tree[log[k].from].stable_node = n
                 PROVE  FALSE
    BY DEF NewNode
  <2>2. k \in DOMAIN log /\ k > applied
    BY <1>8
  <2>3. PICK l \in DOMAIN log : l >= k /\ x \in MergeItems(log[l])
    BY <1>4, <1>6, <2>1, <2>2 DEF AgreeParts, MadeFirst
  <2>4. \A a, b \in DOMAIN log : a < b => MergeItems(log[b]) \cap MergeItems(log[a]) = {}
    <3>1. \A b : MergeItems(log[b]) \subseteq EntryItems(log[b])
      BY DEF MergeItems, EntryItems
    <3>2. QED
      BY <3>1 DEF JointInv, LogOrder
  <2>5. x \in MergeItems(log[applied + 1])
    BY <1>3, <1>8
  <2>6. ~(l < applied + 1) /\ ~(applied + 1 < l)
    BY <1>8, <2>3, <2>4, <2>5
  <2>7. k = applied + 1
    BY <1>8, <2>2, <2>3, <2>6
  <2>8. QED
    BY <1>3, <1>8, <2>1, <2>7
<1>10. Undone(x, errtab)
  <2>1. UndoneNode(n)
    BY <1>6, <1>7, <1>9 DEF AgreeParts, NodesReal
  <2>2. QED
    BY <1>8, <2>1 DEF UndoneNode, Undone
<1>11. \A i \in MergeItems(Entry) :
         /\ hitem'[i].stable <=> (rmap_tree[i].state = "Stable" /\ ~Undone(i, errtab'))
         /\ hitem'[i].stable => hitem'[i].head = node[rmap_tree[i].stable_node].pfn
  BY <1>1, <1>3, <1>5, <1>10
<1>12. \A k \in Todo : IsStale(log[k]) => \A i \in Items : map'[i] # log[k].kpfn
  BY <1>1, StaleApart
<1>13. QED
  BY <1>1, <1>3, <1>11, <1>12, ApplyFrame

\* A stable merge that is done.
LEMMA StableMergeAgree ==
  ASSUME JointInv, AgreeParts, StableMergeDone
  PROVE  AgreeParts'
<1> DEFINE x == Entry.from
           q == Entry.kpfn
<1>1. /\ EntryDone /\ Entry.type = "STABLE_MERGE" /\ HasStableNode(q)
      /\ errtab' = errtab /\ hnode' = hnode
      /\ hitem' = [hitem EXCEPT ![x] = stable_tree_append(hitem[x], q)]
      /\ map' = map \/ map' = [map EXCEPT ![x] = q]
  BY DEF StableMergeDone, Applying, applyRest, EntryDone
<1>2. hphase = "apply" /\ applied < Len(log)
  BY <1>1 DEF EntryDone
<1>3. /\ MergeItems(Entry) = {x} /\ AllItems(Entry) = {x}
      /\ IsMerge(Entry) /\ ~IsNew(Entry) /\ ~IsStale(Entry)
  BY <1>1 DEF MergeItems, AllItems, IsMerge, IsNew, IsStale
<1>4. x \in Items /\ Believed(x, q)
  BY <1>1, <1>2, <1>3, EntryFacts
<1>5. q \in Pfns /\ frame[q] = "node" /\ q # NoPfn
  BY <1>1, ServerAssumption DEF HasStableNode
<1>6. map \in [Items -> Pfns \cup {NoPfn}] /\ hitem \in [Items -> HostItemRec]
  BY DEF JointInv, GuestInv, SystemTypeOK
<1> HIDE DEF x, q
<1>7. \A i \in Items : map'[i] = map[i] \/ map'[i] = q
  BY <1>1, <1>6
<1>8. /\ \A i \in Items : i # x => hitem'[i] = hitem[i]
      /\ hitem'[x] = stable_tree_append(hitem[x], q)
  BY <1>1, <1>4, <1>6
<1>9. hitem'[x].stable /\ hitem'[x].head = q /\ hitem'[x].alloc = hitem[x].alloc
  <2>1. hitem[x] \in HostItemRec
    BY <1>4, <1>6
  <2>2. /\ stable_tree_append(hitem[x], q).stable /\ stable_tree_append(hitem[x], q).head = q
        /\ stable_tree_append(hitem[x], q).alloc = hitem[x].alloc
    BY <2>1, AppendedItem
  <2>3. QED
    BY <1>8, <2>2
<1>10. ~Undone(x, errtab)
  <2>1. \A e \in errtab : e.type = "MERGE_TWO_FAILED" => shadow[e.from] # q
    BY <1>2, <1>5, FailureFacts
  <2>2. QED
    BY <1>2, <1>3, <1>4, <2>1, MergeNotUndone
<1>11. \A i \in MergeItems(Entry) :
         /\ hitem'[i].stable <=> (rmap_tree[i].state = "Stable" /\ ~Undone(i, errtab'))
         /\ hitem'[i].stable => hitem'[i].head = node[rmap_tree[i].stable_node].pfn
  BY <1>1, <1>3, <1>4, <1>9, <1>10 DEF Believed
<1>12. \A k \in Todo : IsStale(log[k]) => \A i \in Items : map'[i] # log[k].kpfn
  <2>1. ASSUME NEW k \in Todo, IsStale(log[k]), NEW i \in Items
        PROVE  map'[i] # log[k].kpfn
    <3>1. /\ map[i] # log[k].kpfn
          /\ ~Believed(x, log[k].kpfn)
      BY <1>4, <2>1, StaleApart
    <3>2. QED
      BY <1>4, <1>7, <3>1
  <2>2. QED
    BY <2>1
<1>13. \A i \in Items : /\ hitem'[i].alloc = hitem[i].alloc
                        /\ map[i] # NoPfn => map'[i] # NoPfn
                        /\ i \notin AllItems(Entry) => hitem'[i] = hitem[i]
  BY <1>3, <1>5, <1>7, <1>8, <1>9
<1>14. QED
  BY <1>1, <1>3, <1>11, <1>12, <1>13, ApplyFrame

\* A stable merge that fails: the item is in no node, and remembers which.
LEMMA StableFailedAgree ==
  ASSUME JointInv, AgreeParts, StableMergeFailed
  PROVE  AgreeParts'
<1> DEFINE x == Entry.from
           q == Entry.kpfn
           e0 == [type |-> "MERGE_ONE_FAILED", from |-> x, kpfn |-> q]
<1>1. /\ EntryDone /\ Entry.type = "STABLE_MERGE" /\ HasStableNode(q)
      /\ errtab' = errtab \cup {e0} /\ hnode' = hnode /\ map' = map
      /\ hitem' = [hitem EXCEPT ![x] = FailedItem(hitem[x], q)]
  BY DEF StableMergeFailed, Applying, applyRest, EntryDone, insert_error_log
<1>2. hphase = "apply" /\ applied < Len(log)
  BY <1>1 DEF EntryDone
<1>3. /\ MergeItems(Entry) = {x} /\ AllItems(Entry) = {x}
      /\ IsMerge(Entry) /\ ~IsNew(Entry) /\ ~IsStale(Entry)
  BY <1>1 DEF MergeItems, AllItems, IsMerge, IsNew, IsStale
<1>4. x \in Items
  BY <1>1, <1>2, <1>3, EntryFacts
<1>5. q \in hnode
  BY <1>1 DEF HasStableNode, JointInv, FramesOK
<1>6. hitem \in [Items -> HostItemRec]
  BY DEF JointInv, GuestInv, SystemTypeOK
<1>7. e0.type = "MERGE_ONE_FAILED" /\ e0.from = x /\ e0.kpfn = q
  OBVIOUS
<1> HIDE DEF x, q, e0
<1>8. /\ \A i \in Items : i # x => hitem'[i] = hitem[i]
      /\ hitem'[x] = FailedItem(hitem[x], q)
  BY <1>1, <1>4, <1>6
<1>9. hitem'[x].stable = FALSE /\ hitem'[x].head = q /\ hitem'[x].alloc = hitem[x].alloc
  <2>1. hitem[x] \in HostItemRec
    BY <1>4, <1>6
  <2>2. FailedItem(hitem[x], q).stable = FALSE /\ FailedItem(hitem[x], q).alloc = hitem[x].alloc
    BY <2>1, AppendedItem
  <2>3. FailedItem(hitem[x], q).head = q
    BY <2>1 DEF FailedItem, HostItemRec
  <2>4. QED
    BY <1>8, <2>2, <2>3
<1>10. Undone(x, errtab')
  BY <1>1, <1>7 DEF Undone
<1>11. \A i \in MergeItems(Entry) :
         /\ hitem'[i].stable <=> (rmap_tree[i].state = "Stable" /\ ~Undone(i, errtab'))
         /\ hitem'[i].stable => hitem'[i].head = node[rmap_tree[i].stable_node].pfn
  BY <1>3, <1>9, <1>10
<1>12. \A k \in Todo : IsStale(log[k]) => \A i \in Items : map'[i] # log[k].kpfn
  BY <1>1, StaleApart
<1>13. \A i \in Items : /\ hitem'[i].alloc = hitem[i].alloc
                        /\ map[i] # NoPfn => map'[i] # NoPfn
                        /\ i \notin AllItems(Entry) => hitem'[i] = hitem[i]
  BY <1>1, <1>3, <1>8, <1>9
<1>14. \A e \in errtab' : (e \notin errtab /\ e.type = "MERGE_ONE_FAILED") =>
         hitem'[e.from].head = e.kpfn /\ e.kpfn \in hnode'
  BY <1>1, <1>5, <1>7, <1>9
<1>15. \A i \in Items \ AllItems(Entry) : Undone(i, errtab') => Undone(i, errtab)
  BY <1>1, <1>3, <1>7 DEF Undone
<1>16. QED
  BY <1>1, <1>3, <1>11, <1>12, <1>13, <1>14, <1>15, ApplyFrame

\* An unstable merge that is done makes the node that the server has made.
LEMMA UnstableMergeAgree ==
  ASSUME JointInv, AgreeParts, UnstableMergeDone
  PROVE  AgreeParts'
<1> DEFINE x == Entry.from
           y == Entry.to
           q == shadow[x]
<1>1. /\ EntryDone /\ Entry.type = "UNSTABLE_MERGE"
      /\ errtab' = errtab /\ hnode' = hnode \cup {q}
      /\ map' = [map EXCEPT ![y] = q] /\ hitem' = BothAppended(x, y, q)
  BY DEF UnstableMergeDone, Applying, applyRest, EntryDone
<1>2. hphase = "apply" /\ applied < Len(log)
  BY <1>1 DEF EntryDone
<1>3. /\ AllItems(Entry) = {x, y}
      /\ IsMerge(Entry) /\ ~IsStale(Entry)
  BY <1>1 DEF AllItems, IsMerge, IsNew, IsStale
<1>4. /\ x \in Items /\ y \in Items /\ MergeItems(Entry) = {x, y} /\ q \in Pfns
      /\ \A i \in Items : i # x => shadow[i] # q
      /\ Believed(x, q) /\ Believed(y, q)
  BY <1>1, <1>2, PromotedFrame
<1>5. map \in [Items -> Pfns \cup {NoPfn}] /\ hitem \in [Items -> HostItemRec] /\ q # NoPfn
  BY <1>4, ServerAssumption DEF JointInv, GuestInv, SystemTypeOK
<1> HIDE DEF x, y, q
<1>6. \A i \in Items : map'[i] = map[i] \/ map'[i] = q
  BY <1>1, <1>5
<1>7. ASSUME NEW i \in Items
      PROVE  /\ i \in {x, y} => hitem'[i].stable /\ hitem'[i].head = q
             /\ i \notin {x, y} => hitem'[i] = hitem[i]
             /\ hitem'[i].alloc = hitem[i].alloc
  <2>1. hitem[i] \in HostItemRec
    BY <1>5
  <2>2. hitem'[i] = IF i \in {x, y} THEN stable_tree_append(hitem[i], q) ELSE hitem[i]
    BY <1>1 DEF BothAppended
  <2>3. /\ stable_tree_append(hitem[i], q).stable /\ stable_tree_append(hitem[i], q).head = q
        /\ stable_tree_append(hitem[i], q).alloc = hitem[i].alloc
    BY <2>1, AppendedItem
  <2>4. QED
    BY <2>2, <2>3
<1>8. ASSUME NEW i \in {x, y} PROVE ~Undone(i, errtab) /\ Believed(i, q)
  <2>1. ASSUME NEW e \in errtab, e.type = "MERGE_TWO_FAILED" PROVE shadow[e.from] # q
    <3>1. e.from \in Items /\ e.from \notin EntryItems(Entry)
      BY <1>2, FailureFacts
    <3>2. e.from # x
      BY <1>1, <1>4, <3>1 DEF EntryItems
    <3>3. QED
      BY <1>4, <3>1, <3>2
  <2>2. QED
    BY <1>2, <1>4, <2>1, MergeNotUndone
<1>9. \A i \in MergeItems(Entry) :
         /\ hitem'[i].stable <=> (rmap_tree[i].state = "Stable" /\ ~Undone(i, errtab'))
         /\ hitem'[i].stable => hitem'[i].head = node[rmap_tree[i].stable_node].pfn
  BY <1>1, <1>4, <1>7, <1>8 DEF Believed
<1>10. \A k \in Todo : IsStale(log[k]) => \A i \in Items : map'[i] # log[k].kpfn
  <2>1. ASSUME NEW k \in Todo, IsStale(log[k]), NEW i \in Items
        PROVE  map'[i] # log[k].kpfn
    <3>1. /\ map[i] # log[k].kpfn
          /\ ~Believed(x, log[k].kpfn)
      BY <1>4, <2>1, StaleApart
    <3>2. QED
      BY <1>4, <1>6, <3>1
  <2>2. QED
    BY <2>1
<1>11. \A i \in Items : /\ hitem'[i].alloc = hitem[i].alloc
                        /\ map[i] # NoPfn => map'[i] # NoPfn
                        /\ i \notin AllItems(Entry) => hitem'[i] = hitem[i]
  BY <1>3, <1>5, <1>6, <1>7
<1>12. node[rmap_tree[Entry.from].stable_node].pfn \in hnode'
  BY <1>1, <1>4 DEF Believed, x
<1>13. QED
  BY <1>1, <1>3, <1>9, <1>10, <1>11, <1>12, ApplyFrame

\* An unstable merge that fails: the node will be undone with all its items,
\* and those that the entry is not about have still to come.
LEMMA UnstableFailedAgree ==
  ASSUME JointInv, AgreeParts, UnstableMergeFailed
  PROVE  AgreeParts'
<1> DEFINE x == Entry.from
           y == Entry.to
           e0 == [type |-> "MERGE_TWO_FAILED", from |-> x, to |-> y]
<1>1. /\ EntryDone /\ Entry.type = "UNSTABLE_MERGE" /\ hnode' = hnode
      /\ hitem' = BothRemoved(x, y) /\ errtab' = errtab \cup {e0}
      /\ \/ map' = map
         \/ \E p \in FreeFrames : map' = [map EXCEPT ![x] = p]
  BY DEF UnstableMergeFailed, Applying, applyRest, EntryDone, insert_error_log, PromotionUndone
<1>2. hphase = "apply" /\ applied < Len(log)
  BY <1>1 DEF EntryDone
<1>3. /\ AllItems(Entry) = {x, y}
      /\ IsMerge(Entry) /\ ~IsStale(Entry) /\ IsNew(Entry)
  BY <1>1 DEF AllItems, IsMerge, IsNew, IsStale
<1>4. x \in Items /\ y \in Items /\ MergeItems(Entry) = {x, y}
  BY <1>1, <1>2, PromotedFrame
<1>5. rmap_tree[y].stable_node = rmap_tree[x].stable_node
  BY <1>1, <1>2, EntryFacts
<1>6. map \in [Items -> Pfns \cup {NoPfn}] /\ hitem \in [Items -> HostItemRec]
  BY DEF JointInv, GuestInv, SystemTypeOK
<1>7. e0.type = "MERGE_TWO_FAILED" /\ e0.from = x
  OBVIOUS
<1> HIDE DEF x, y, e0
<1>8. \A p \in FreeFrames : p # NoPfn /\ p \notin hnode
  <2>1. SystemTypeOK /\ FramesOK
    BY DEF JointInv, GuestInv
  <2>2. \A p \in FreeFrames : p \in Pfns /\ frame[p] = "anon"
    BY <2>1, KsmFrames DEF FreeFrames
  <2>3. QED
    BY <2>1, <2>2, ServerAssumption DEF FramesOK
<1>9. \A i \in Items : map'[i] = map[i] \/ map'[i] \in FreeFrames
  BY <1>1, <1>6
<1>10. ASSUME NEW i \in Items
       PROVE  /\ i \in {x, y} => hitem'[i].stable = FALSE
              /\ i \notin {x, y} => hitem'[i] = hitem[i]
              /\ hitem'[i].alloc = hitem[i].alloc
  <2>1. hitem[i] \in HostItemRec
    BY <1>6
  <2>2. hitem'[i] = IF i \in {x, y} THEN remove_rmap_item_from_tree(hitem[i]) ELSE hitem[i]
    BY <1>1 DEF BothRemoved
  <2>3. /\ remove_rmap_item_from_tree(hitem[i]).stable = FALSE
        /\ remove_rmap_item_from_tree(hitem[i]).alloc = hitem[i].alloc
    BY <2>1, AppendedItem
  <2>4. QED
    BY <2>2, <2>3
<1>11. \A i \in MergeItems(Entry) :
         /\ hitem'[i].stable <=> (rmap_tree[i].state = "Stable" /\ ~Undone(i, errtab'))
         /\ hitem'[i].stable => hitem'[i].head = node[rmap_tree[i].stable_node].pfn
  <2>1. Undone(x, errtab') /\ Undone(y, errtab')
    BY <1>1, <1>5, <1>7 DEF Undone
  <2>2. QED
    BY <1>4, <1>10, <2>1
<1>12. \A k \in Todo : IsStale(log[k]) => \A i \in Items : map'[i] # log[k].kpfn
  <2>1. ASSUME NEW k \in Todo, IsStale(log[k]), NEW i \in Items
        PROVE  map'[i] # log[k].kpfn
    <3>1. log[k].kpfn \in hnode /\ map[i] # log[k].kpfn
      BY <2>1, StaleApart
    <3>2. QED
      BY <1>8, <1>9, <3>1
  <2>2. QED
    BY <2>1
<1>13. \A i \in Items : /\ hitem'[i].alloc = hitem[i].alloc
                        /\ map[i] # NoPfn => map'[i] # NoPfn
                        /\ i \notin AllItems(Entry) => hitem'[i] = hitem[i]
  BY <1>3, <1>8, <1>9, <1>10
<1>14. ASSUME NEW i \in Items \ AllItems(Entry), rmap_tree[i].state = "Stable",
              Undone(i, errtab')
       PROVE  \/ Undone(i, errtab)
              \/ \E k \in DOMAIN log : k > applied + 1 /\ i \in MergeItems(log[k])
  <2>1. CASE rmap_tree[x].stable_node = rmap_tree[i].stable_node
    <3>1. /\ Entry = log[applied + 1] /\ applied + 1 \in DOMAIN log /\ applied \in Nat
          /\ \A k \in DOMAIN log : k \in Nat
      BY <1>2, EntryFacts DEF JointInv, ServerInv, TypeOK
    <3>2. PICK k \in DOMAIN log : k >= applied + 1 /\ i \in MergeItems(log[k])
      BY <1>3, <1>14, <2>1, <3>1 DEF AgreeParts, MadeFirst, x
    <3>3. k # applied + 1
      BY <1>3, <1>4, <1>14, <3>1, <3>2
    <3>4. QED
      BY <3>1, <3>2, <3>3
  <2>2. CASE rmap_tree[x].stable_node # rmap_tree[i].stable_node
    BY <1>1, <1>3, <1>7, <1>14, <2>2 DEF Undone
  <2>3. QED
    BY <2>1, <2>2
<1>15. \A e \in errtab' : (e \notin errtab /\ e.type = "MERGE_ONE_FAILED") =>
         hitem'[e.from].head = e.kpfn /\ e.kpfn \in hnode'
  BY <1>1, <1>7
<1>16. \E e \in errtab' : e.type = "MERGE_TWO_FAILED" /\ e.from = Entry.from
  BY <1>1, <1>7 DEF x
<1>17. errtab \subseteq errtab' /\ hnode' = hnode /\ EntryDone
  BY <1>1
<1>18. QED
  BY <1>3, <1>11, <1>12, <1>13, <1>14, <1>15, <1>16, <1>17, ApplyFrame

\* A node that goes: of its items at most the one that is logged is left in it.
LEMMA StaleAgree ==
  ASSUME JointInv, AgreeParts, StaleStableNode
  PROVE  AgreeParts'
<1> DEFINE x == Entry.from
           q == Entry.kpfn
<1>1. /\ EntryDone /\ Entry.type = "STALE_STABLE_NODE" /\ hnode' = hnode \ {q}
      /\ hitem' = remove_node_from_stable_tree(q) /\ errtab' = errtab /\ map' = map
  BY DEF StaleStableNode, Applying, applyRest, EntryDone
<1>2. hphase = "apply" /\ applied < Len(log)
  BY <1>1 DEF EntryDone
<1>3. /\ MergeItems(Entry) = {} /\ AllItems(Entry) = {x}
      /\ ~IsMerge(Entry) /\ IsStale(Entry) /\ ~IsNew(Entry)
  BY <1>1 DEF MergeItems, AllItems, IsMerge, IsNew, IsStale
<1>4. /\ applied + 1 \in Todo /\ Entry = log[applied + 1] /\ x \in Items
      /\ \A k \in Todo : k = applied + 1 \/ k > applied + 1
      /\ applied \in Nat /\ \A k \in Todo : k \in Nat
  <2>1. \A k \in DOMAIN log : k \in Nat
    BY DEF JointInv, ServerInv, TypeOK
  <2>2. QED
    BY <1>2, <1>3, <2>1, EntryOrder, EntryFacts
<1>5. StaleFits(applied + 1)
  BY <1>3, <1>4 DEF AgreeParts, StaleOK
<1>6. HList(q) \subseteq {x} /\ hitem[x].head = q
  <2>1. \A l \in Todo : ~(l < applied + 1)
    BY <1>4
  <2>2. QED
    BY <1>4, <1>5, <2>1 DEF StaleFits, HList
<1>7. hitem \in [Items -> HostItemRec]
  BY DEF JointInv, GuestInv, SystemTypeOK
<1> HIDE DEF x, q
<1>8. ASSUME NEW i \in Items
      PROVE  /\ i # x => hitem'[i] = hitem[i]
             /\ hitem'[i].alloc = hitem[i].alloc
             /\ i = x => ~hitem'[i].stable
  <2>1. hitem'[i] = IF i \in HList(q) THEN [hitem[i] EXCEPT !.stable = FALSE] ELSE hitem[i]
    BY <1>1 DEF remove_node_from_stable_tree
  <2>2. hitem[i] \in HostItemRec
    BY <1>7
  <2>3. CASE i \in HList(q)
    BY <1>6, <2>1, <2>2, <2>3 DEF HostItemRec
  <2>4. CASE i \notin HList(q)
    BY <1>6, <2>1, <2>4 DEF HList
  <2>5. QED
    BY <2>3, <2>4
<1>9. \A k \in Todo : IsStale(log[k]) => \A i \in Items : map'[i] # log[k].kpfn
  BY <1>1, StaleApart
<1>10. \A i \in Items : /\ hitem'[i].alloc = hitem[i].alloc
                        /\ map[i] # NoPfn => map'[i] # NoPfn
                        /\ i \notin AllItems(Entry) => hitem'[i] = hitem[i]
  BY <1>1, <1>3, <1>8
<1>11. ~hitem'[Entry.from].stable
  BY <1>4, <1>8 DEF x
<1>12. \A p \in hnode : p \in hnode' \/ p = Entry.kpfn
  BY <1>1 DEF q
<1>13. QED
  BY <1>1, <1>3, <1>9, <1>10, <1>11, <1>12, ApplyFrame

\* An item that leaves its node.
LEMMA ItemStateChangeAgree ==
  ASSUME JointInv, AgreeParts, ItemStateChange
  PROVE  AgreeParts'
<1> DEFINE x == Entry.from
<1>1. /\ EntryDone /\ Entry.type = "ITEM_STATE_CHANGE" /\ hnode' = hnode
      /\ hitem' = [hitem EXCEPT ![x] = remove_rmap_item_from_tree(hitem[x])]
      /\ errtab' = errtab /\ map' = map
  BY DEF ItemStateChange, Applying, applyRest, EntryDone
<1>2. hphase = "apply" /\ applied < Len(log)
  BY <1>1 DEF EntryDone
<1>3. /\ MergeItems(Entry) = {} /\ AllItems(Entry) = {x}
      /\ ~IsMerge(Entry) /\ ~IsStale(Entry) /\ ~IsNew(Entry)
  BY <1>1 DEF MergeItems, AllItems, IsMerge, IsNew, IsStale
<1>4. x \in Items
  BY <1>2, <1>3, EntryOrder
<1>5. hitem \in [Items -> HostItemRec]
  BY DEF JointInv, GuestInv, SystemTypeOK
<1> HIDE DEF x
<1>6. /\ \A i \in Items : i # x => hitem'[i] = hitem[i]
      /\ hitem'[x] = remove_rmap_item_from_tree(hitem[x])
  BY <1>1, <1>4, <1>5
<1>7. hitem'[x].stable = FALSE /\ hitem'[x].alloc = hitem[x].alloc
  <2>1. hitem[x] \in HostItemRec
    BY <1>4, <1>5
  <2>2. /\ remove_rmap_item_from_tree(hitem[x]).stable = FALSE
        /\ remove_rmap_item_from_tree(hitem[x]).alloc = hitem[x].alloc
    BY <2>1, AppendedItem
  <2>3. QED
    BY <1>6, <2>2
<1>8. \A k \in Todo : IsStale(log[k]) => \A i \in Items : map'[i] # log[k].kpfn
  BY <1>1, StaleApart
<1>9. \A i \in Items : /\ hitem'[i].alloc = hitem[i].alloc
                       /\ map[i] # NoPfn => map'[i] # NoPfn
                       /\ i \notin AllItems(Entry) => hitem'[i] = hitem[i]
  BY <1>1, <1>3, <1>6, <1>7
<1>10. ~hitem'[Entry.from].stable
  BY <1>7 DEF x
<1>11. QED
  BY <1>1, <1>3, <1>8, <1>9, <1>10, ApplyFrame

\* Every entry meets the checks of apply_result: the host has in the node of a
\* stable merge at most the items that the server had in it then.
LEMMA EntryFits ==
  ASSUME MAX_PAGE_SHARING <= ksm_max_page_sharing,
         JointInv, AgreeParts, hphase = "apply", applied < Len(log)
  PROVE  EntryApplies(Entry)
<1>1. /\ Todo = {k \in DOMAIN log : k > applied} /\ applied + 1 \in Todo
      /\ Entry = log[applied + 1] /\ Entry \in LogRec
      /\ applied + 1 \in DOMAIN log /\ applied \in Nat /\ \A k \in DOMAIN log : k \in Nat
  BY EntryOrder, EntryFacts DEF JointInv, ServerInv, TypeOK
<1>2. \A i \in EntryItems(Entry) : i \in Listed
  <2>1. \A i \in EntryItems(Entry) : i \in Items /\ shadow[i] \in Pfns
    BY EntryFacts
  <2>2. QED
    BY <2>1, ServerAssumption DEF Listed
<1>3. ASSUME Entry.type = "STABLE_MERGE"
      PROVE  Entry.from \in Listed /\ Cardinality(HList(Entry.kpfn)) # ksm_max_page_sharing
  <2> DEFINE q == Entry.kpfn
             k0 == applied + 1
  <2>1. Entry.from \in Listed
    BY <1>2, <1>3 DEF EntryItems, MergeItems
  <2>2. Believed(Entry.from, q) /\ Entry.from \in Items
    BY <1>1, <1>3, EntryFacts, LogTypes
  <2>3. ASSUME NEW i \in HList(q) PROVE i \in AtMerge(k0)
    <3>1. i \in Items /\ hitem[i].stable /\ hitem[i].head = q
      BY <2>3 DEF HList
    <3>2. CASE WillLeave(i)
      <4>1. PICK l \in Todo : ~IsMerge(log[l]) /\ log[l].from = i
        BY <3>2 DEF WillLeave
      <4>2. log[l] \in LogRec /\ l \in DOMAIN log /\ l >= k0
        BY <1>1 DEF JointInv, ServerInv, TypeOK
      <4>3. CASE IsChange(log[l])
        <5>1. log[l].kpfn = q
          BY <3>1, <4>1, <4>3 DEF AgreeParts, ItemsAgree
        <5>2. QED
          BY <1>1, <3>1, <4>1, <4>2, <4>3, <5>1 DEF AtMerge
      <4>4. CASE IsStale(log[l])
        <5>1. hitem[i].head = log[l].kpfn
          BY <4>1, <4>4 DEF AgreeParts, StaleOK, StaleFits
        <5>2. ~Believed(Entry.from, log[l].kpfn)
          BY <2>2, <4>4, StaleApart
        <5>3. QED
          BY <2>2, <3>1, <5>1, <5>2
      <4>5. IsChange(log[l]) \/ IsStale(log[l])
        BY <4>1, <4>2 DEF LogRec, IsMerge, IsChange, IsStale
      <4>6. QED
        BY <4>3, <4>4, <4>5
    <3>3. CASE ~WillLeave(i)
      <4>1. ~WillJoin(i)
        BY <3>1, <3>3 DEF AgreeParts, ItemsAgree
      <4>2. Believed(i, q)
        BY <3>1, <3>3, <4>1 DEF AgreeParts, ItemsAgree, Believed
      <4>3. \A l \in DOMAIN log : l >= k0 => i \notin MergeItems(log[l])
        BY <1>1, <4>1 DEF WillJoin
      <4>4. QED
        BY <1>1, <3>1, <4>2, <4>3 DEF AtMerge
    <3>4. QED
      BY <3>2, <3>3
  <2>4. Cardinality(AtMerge(k0)) < MAX_PAGE_SHARING
    BY <1>1, <1>3 DEF AgreeParts, Room
  <2>5. AtMerge(k0) \subseteq Items /\ HList(q) \subseteq AtMerge(k0)
    BY <2>3 DEF AtMerge
  <2>6. IsFiniteSet(AtMerge(k0))
    BY <2>5, FS_Subset, ServerAssumption
  <2>7. /\ Cardinality(HList(q)) <= Cardinality(AtMerge(k0)) /\ IsFiniteSet(HList(q))
    BY <2>5, <2>6, FS_Subset
  <2>8. Cardinality(HList(q)) \in Nat /\ Cardinality(AtMerge(k0)) \in Nat
    BY <2>6, <2>7, FS_CardinalityType
  <2>9. Cardinality(HList(q)) < ksm_max_page_sharing
    BY <2>4, <2>7, <2>8, ServerAssumption, SystemAssumption
  <2>10. QED
    BY <2>1, <2>8, <2>9, SystemAssumption
<1>4. ASSUME Entry.type = "UNSTABLE_MERGE" PROVE Entry.from \in Listed /\ Entry.to \in Listed
  BY <1>2, <1>4 DEF EntryItems, MergeItems
<1>5. ASSUME Entry.type = "STALE_STABLE_NODE"
      PROVE  /\ Entry.from \in Listed
             /\ hitem[Entry.from].head = Entry.kpfn
             /\ Entry.kpfn \in hnode
             /\ HasStableNode(Entry.kpfn)
             /\ ~Mapped(Entry.kpfn)
  <2>1. StaleFits(applied + 1)
    BY <1>1, <1>5 DEF AgreeParts, StaleOK, IsStale
  <2>2. Entry.from \in Items
    BY <1>1, LogTypes
  <2>3. /\ shadow[Entry.from] # NoPfn /\ hitem[Entry.from].head = Entry.kpfn
        /\ Entry.kpfn \in hnode /\ \A i \in Items : map[i] # Entry.kpfn
    BY <1>1, <2>1 DEF StaleFits
  <2>4. SystemTypeOK /\ FramesOK
    BY DEF JointInv, GuestInv
  <2>5. HasStableNode(Entry.kpfn)
    BY <2>3, <2>4, KsmFrames DEF FramesOK, SystemTypeOK
  <2>6. QED
    BY <2>2, <2>3, <2>5 DEF Listed, Mapped
<1>6. ASSUME Entry.type = "ITEM_STATE_CHANGE"
      PROVE  Entry.from \in Listed /\ hitem[Entry.from].stable
  <2>1. Entry.from \in Listed
    BY <1>2, <1>6 DEF EntryItems
  <2>2. QED
    BY <1>1, <1>6, <2>1 DEF AgreeParts, ItemsAgree, IsChange
<1>7. QED
  BY <1>3, <1>4, <1>5, <1>6 DEF EntryApplies


-----------------------------------------------------------------------------
(***************************************************************************)
(* The server at work                                                      *)
(***************************************************************************)

\* While the server works the host stands still, all of the log is to be
\* carried out, and the open failures are those that are not handled yet.
LEMMA OffloadSides ==
  ASSUME hphase = "offload", UNCHANGED hostVars
  PROVE  /\ Todo = DOMAIN log /\ Todo' = DOMAIN log' /\ OpenErrs = errs /\ OpenErrs' = errs'
         /\ map' = map /\ hitem' = hitem /\ hnode' = hnode /\ shadow' = shadow
         /\ hphase' = "offload"
<1>1. /\ map' = map /\ hitem' = hitem /\ hnode' = hnode /\ shadow' = shadow
      /\ hphase' = "offload" /\ cursor' = cursor
  BY DEF hostVars, guestVars
<1>2. QED
  BY <1>1 DEF Todo, Pending, OpenErrs

\* The items of the log and of the failures, as the server has them.
LEMMA OffloadItems ==
  ASSUME JointInv
  PROVE  /\ \A k \in DOMAIN log :
              /\ log[k] \in LogRec /\ log[k].from \in Items /\ AllItems(log[k]) \subseteq Items
              /\ MergeItems(log[k]) \subseteq AllItems(log[k])
              /\ \A i \in MergeItems(log[k]) : i \in Items /\ rmap_tree[i].state = "Stable"
              /\ IsMerge(log[k]) => log[k].from \in MergeItems(log[k])
              /\ IsNew(log[k]) => IsMerge(log[k])
         /\ \A e \in errs : e.from \in Items /\ rmap_tree[e.from].state = "Stable"
         /\ \A i \in Items : rmap_tree[i].state = "Stable" =>
              rmap_tree[i].stable_node \in NodeIds /\ Live(rmap_tree[i].stable_node)
<1>1. ServerInv
  BY DEF JointInv
<1>2. ASSUME NEW k \in DOMAIN log
      PROVE  /\ log[k] \in LogRec /\ log[k].from \in Items /\ AllItems(log[k]) \subseteq Items
             /\ MergeItems(log[k]) \subseteq AllItems(log[k])
             /\ \A i \in MergeItems(log[k]) : i \in Items /\ rmap_tree[i].state = "Stable"
             /\ IsMerge(log[k]) => log[k].from \in MergeItems(log[k])
             /\ IsNew(log[k]) => IsMerge(log[k])
  <2>1. log[k] \in LogRec
    BY <1>1 DEF ServerInv, TypeOK
  <2>2. log[k].from \in Items /\ (log[k].type = "UNSTABLE_MERGE" => log[k].to \in Items)
    BY <2>1, LogTypes
  <2>3. /\ log[k].type = "STABLE_MERGE" => rmap_tree[log[k].from].state = "Stable"
        /\ log[k].type = "UNSTABLE_MERGE" =>
             rmap_tree[log[k].from].state = "Stable" /\ rmap_tree[log[k].to].state = "Stable"
    BY <1>1 DEF ServerInv, LogMatchesMetadata
  <2>4. QED
    BY <2>1, <2>2, <2>3 DEF AllItems, MergeItems, IsMerge, IsNew
<1>3. \A e \in errs : e.from \in Items /\ rmap_tree[e.from].state = "Stable"
  BY <1>1, ErrorFacts
<1>4. \A i \in Items : rmap_tree[i].state = "Stable" =>
        rmap_tree[i].stable_node \in NodeIds /\ Live(rmap_tree[i].stable_node)
  BY <1>1 DEF ServerInv, StructInv, SharingConsistent
<1>5. QED
  BY <1>2, <1>3, <1>4

\* A step that logs nothing, keeps every node, and keeps the Stable items.
LEMMA QuietAgree ==
  ASSUME JointInv, AgreeParts, hphase = "offload", UNCHANGED hostVars,
         log' = log, errs' = errs,
         \A i \in Items :
           /\ rmap_tree'[i].state = "Stable" <=> rmap_tree[i].state = "Stable"
           /\ rmap_tree[i].state = "Stable" => rmap_tree'[i].stable_node = rmap_tree[i].stable_node
           /\ rmap_tree'[i].state # "Absent" => rmap_tree[i].state # "Absent" \/ i \in present,
         \A n \in NodeIds : (Live(n)' <=> Live(n)) /\ node'[n].pfn = node[n].pfn
  PROVE  AgreeParts'
<1>1. /\ Todo = DOMAIN log /\ Todo' = DOMAIN log /\ OpenErrs = errs /\ OpenErrs' = errs
      /\ map' = map /\ hitem' = hitem /\ hnode' = hnode /\ shadow' = shadow
      /\ hphase' = "offload"
  BY OffloadSides
<1>2. /\ \A k \in DOMAIN log :
           /\ log[k].from \in Items
           /\ IsNew(log[k]) => rmap_tree[log[k].from].state = "Stable"
      /\ \A e \in errs : e.from \in Items /\ rmap_tree[e.from].state = "Stable"
      /\ \A i \in Items : rmap_tree[i].state = "Stable" => rmap_tree[i].stable_node \in NodeIds
  BY OffloadItems
<1>3. \A i \in Items : \A p : Believed(i, p)' <=> Believed(i, p)
  BY <1>2 DEF Believed
<1>4. \A i \in Items : rmap_tree[i].state = "Stable" =>
        (Undone(i, OpenErrs)' <=> Undone(i, OpenErrs))
  BY <1>1, <1>2 DEF Undone
<1>5. \A i : (WillLeave(i)' <=> WillLeave(i)) /\ (WillJoin(i)' <=> WillJoin(i))
  BY <1>1 DEF WillLeave, WillJoin, IsMerge, MergeItems
<1>6. KnownListed'
  <2>1. \A i \in present : i \in Items => hitem[i].alloc
    BY OffloadFacts DEF JointInv, HostItemsOK
  <2>2. QED
    BY <1>1, <2>1 DEF AgreeParts, KnownListed
<1>7. UniqueFrames'
  BY DEF AgreeParts, UniqueFrames
<1>8. NodesReal'
  <2>1. \A n : UndoneNode(n) => UndoneNode(n)'
    BY <1>1, <1>2 DEF UndoneNode
  <2>2. \A n : NewNode(n) => NewNode(n)'
    BY <1>1, <1>2 DEF NewNode, IsNew
  <2>3. QED
    BY <1>1, <2>1, <2>2 DEF AgreeParts, NodesReal
<1>9. ErrHeads'
  BY <1>1 DEF AgreeParts, ErrHeads
<1>10. ItemsAgree'
  <2>1. \A k \in Todo' : IsChange(log'[k]) =>
          hitem'[log'[k].from].stable /\ hitem'[log'[k].from].head = log'[k].kpfn
    BY <1>1 DEF AgreeParts, ItemsAgree, IsChange
  <2>2. ASSUME NEW i \in Items, ~WillLeave(i)'
        PROVE  IF WillJoin(i)' THEN ~hitem'[i].stable
               ELSE /\ hitem'[i].stable <=> (rmap_tree'[i].state = "Stable" /\ ~Undone(i, OpenErrs)')
                    /\ hitem'[i].stable => hitem'[i].head = node'[rmap_tree'[i].stable_node].pfn
    <3>1. IF WillJoin(i) THEN ~hitem[i].stable
          ELSE /\ hitem[i].stable <=> (rmap_tree[i].state = "Stable" /\ ~Undone(i, OpenErrs))
               /\ hitem[i].stable => hitem[i].head = node[rmap_tree[i].stable_node].pfn
      BY <1>5, <2>2 DEF AgreeParts, ItemsAgree
    <3>2. CASE WillJoin(i)
      BY <1>1, <1>5, <3>1, <3>2
    <3>3. CASE ~WillJoin(i) /\ rmap_tree[i].state = "Stable"
      <4>1. node'[rmap_tree'[i].stable_node].pfn = node[rmap_tree[i].stable_node].pfn
        BY <1>2, <3>3
      <4>2. QED
        BY <1>1, <1>4, <1>5, <3>1, <3>3, <4>1
    <3>4. CASE ~WillJoin(i) /\ rmap_tree[i].state # "Stable"
      BY <1>1, <1>5, <3>1, <3>4
    <3>5. QED
      BY <3>2, <3>3, <3>4
  <2>3. QED
    BY <2>1, <2>2 DEF ItemsAgree, IsChange
<1>11. StaleOK'
  <2>1. ASSUME NEW k \in DOMAIN log, IsStale(log[k])
        PROVE  StaleFits(k)'
    <3>1. StaleFits(k)
      BY <1>1, <2>1 DEF AgreeParts, StaleOK
    <3>2. QED
      BY <1>1, <3>1 DEF StaleFits, IsChange, IsStale
  <2>2. QED
    BY <1>1, <2>1 DEF StaleOK, IsStale
<1>12. Room'
  <2>1. \A k : AtMerge(k)' = AtMerge(k)
    BY <1>3 DEF AtMerge, MergeItems, IsChange
  <2>2. QED
    BY <2>1 DEF AgreeParts, Room
<1>13. LeavesFirst'
  BY <1>2 DEF AgreeParts, LeavesFirst, IsMerge, AllItems, IsNew, MergeItems
<1>14. MadeFirst'
  BY <1>2 DEF AgreeParts, MadeFirst, IsNew, MergeItems
<1>15. QED
  BY <1>6, <1>7, <1>8, <1>9, <1>10, <1>11, <1>12, <1>13, <1>14 DEF AgreeParts


\* lookup_rmap_item: a page that is looked up is listed.
LEMMA LookupAgree ==
  ASSUME JointInv, AgreeParts, hphase = "offload", UNCHANGED hostVars,
         NEW i \in todo, lookup_rmap_item(i, shadow[i], content[shadow[i]])
  PROVE  AgreeParts'
<1> DEFINE base == IF InTree(i) THEN rmap_tree[i] ELSE NewItem
           it == [base EXCEPT !.pfn = shadow[i], !.last_access = ToShort(iteration)]
<1>1. i \in Items /\ i \in present /\ rmap_tree \in [Items -> ItemRec]
  BY DEF JointInv, ServerInv, TypeOK
<1>2. /\ rmap_tree' = [rmap_tree EXCEPT ![i] = it]
      /\ errs' = errs /\ node' = node /\ log' = log
  BY DEF lookup_rmap_item
<1>3. base \in ItemRec /\ (base.state = "Stable" <=> rmap_tree[i].state = "Stable")
      /\ (rmap_tree[i].state = "Stable" => base = rmap_tree[i])
  <2>1. NewItem \in ItemRec /\ NewItem.state = "Volatile"
    BY DEF NewItem, AbsentItem, ItemRec, NoNode
  <2>2. QED
    BY <1>1, <2>1 DEF InTree
<1>4. it.state = base.state /\ it.stable_node = base.stable_node
  BY <1>3 DEF ItemRec
<1> HIDE DEF it, base
<1>5. rmap_tree'[i] = it /\ \A j \in Items : j # i => rmap_tree'[j] = rmap_tree[j]
  BY <1>1, <1>2
<1>6. \A j \in Items :
        /\ rmap_tree'[j].state = "Stable" <=> rmap_tree[j].state = "Stable"
        /\ rmap_tree[j].state = "Stable" => rmap_tree'[j].stable_node = rmap_tree[j].stable_node
        /\ rmap_tree'[j].state # "Absent" => rmap_tree[j].state # "Absent" \/ j \in present
  BY <1>1, <1>3, <1>4, <1>5
<1>7. \A n \in NodeIds : (Live(n)' <=> Live(n)) /\ node'[n].pfn = node[n].pfn
  BY <1>2 DEF Live
<1>8. QED
  BY <1>2, <1>6, <1>7, QuietAgree

\* A re-key moves hashes only.
LEMMA StableRekeyedAgree ==
  ASSUME JointInv, AgreeParts, hphase = "offload", UNCHANGED hostVars, StableRekeyed
  PROVE  AgreeParts'
<1> DEFINE h == page.hash
           c == node[rmap_tree[page.item].stable_node].chain
<1>1. /\ node' = [n \in NodeIds |-> IF n \in Chain(node, c)
                                    THEN [node[n] EXCEPT !.page_hash = h] ELSE node[n]]
      /\ rmap_tree' = [k \in Items |-> IF \E n \in Chain(node, c) : k \in node[n].sharing
                                       THEN [rmap_tree[k] EXCEPT !.old_hash = h]
                                       ELSE rmap_tree[k]]
      /\ log' = log /\ errs' = errs
  BY DEF StableRekeyed, RekeyScope, curr, scanRest
<1>2. /\ rmap_tree \in [Items -> ItemRec] /\ node \in [NodeIds -> NodeRec]
  BY DEF JointInv, ServerInv, TypeOK
<1> HIDE DEF h, c
<1>3. \A n \in NodeIds : (Live(n)' <=> Live(n)) /\ node'[n].pfn = node[n].pfn
  BY <1>1, <1>2 DEF NodeRec, Live
<1>4. \A i \in Items : /\ rmap_tree'[i].state = rmap_tree[i].state
                       /\ rmap_tree'[i].stable_node = rmap_tree[i].stable_node
  BY <1>1, <1>2 DEF ItemRec
<1>5. QED
  BY <1>1, <1>3, <1>4, QuietAgree

\* The steps that change no node and no Stable item.
LEMMA SmallStepsAgree ==
  ASSUME JointInv, AgreeParts, hphase = "offload", UNCHANGED hostVars,
         StableKept \/ VolatileSkipped \/ InsertUnstable \/ VolatileChanged
  PROVE  AgreeParts'
<1> DEFINE x == page.item
<1>1. rmap_tree \in [Items -> ItemRec]
  BY DEF JointInv, ServerInv, TypeOK
<1>2. log' = log /\ node' = node /\ errs' = errs
  BY DEF StableKept, VolatileSkipped, InsertUnstable, VolatileChanged, scanRest, metaVars
<1>3. ASSUME NEW i \in Items
      PROVE  /\ rmap_tree'[i].state = "Stable" <=> rmap_tree[i].state = "Stable"
             /\ rmap_tree[i].state = "Stable" => rmap_tree'[i].stable_node = rmap_tree[i].stable_node
             /\ rmap_tree'[i].state # "Absent" => rmap_tree[i].state # "Absent" \/ i \in present
  <2>1. CASE StableKept \/ VolatileSkipped
    BY <2>1 DEF StableKept, VolatileSkipped, metaVars
  <2>2. CASE InsertUnstable \/ VolatileChanged
    <3>1. rmap_tree[x].state = "Volatile"
      BY <2>2 DEF InsertUnstable, VolatileChanged, PageInHand, curr
    <3>2. CASE i # x
      BY <1>1, <2>2, <3>2 DEF InsertUnstable, VolatileChanged
    <3>3. CASE i = x
      <4>1. rmap_tree[x] \in ItemRec
        BY <1>1, <3>3
      <4>2. \/ rmap_tree'[x] = [rmap_tree[x] EXCEPT !.state = "Unstable"]
            \/ rmap_tree'[x] = [rmap_tree[x] EXCEPT !.old_hash = page.hash]
        BY <1>1, <2>2, <3>3 DEF InsertUnstable, VolatileChanged
      <4>3. rmap_tree'[x].state \in {"Unstable", "Volatile"}
        BY <3>1, <4>1, <4>2 DEF ItemRec
      <4>4. QED
        BY <3>1, <3>3, <4>3
    <3>4. QED
      BY <3>2, <3>3
  <2>3. QED
    BY <2>1, <2>2
<1>4. \A n \in NodeIds : (Live(n)' <=> Live(n)) /\ node'[n].pfn = node[n].pfn
  BY <1>2 DEF Live
<1>5. QED
  BY <1>2, <1>3, <1>4, QuietAgree

\* prune_metadata: the candidates become volatile again.
LEMMA PruneMetadataAgree ==
  ASSUME JointInv, AgreeParts, hphase = "offload", UNCHANGED hostVars, prune_metadata
  PROVE  AgreeParts'
<1>1. /\ node' = node /\ log' = log /\ errs' = errs
      /\ rmap_tree' = [i \in Items |->
                         IF \E h \in Hashes : unstable_hash_table[h] = i
                         THEN [rmap_tree[i] EXCEPT !.state = "Volatile"]
                         ELSE rmap_tree[i]]
  BY DEF prune_metadata
<1>2. ASSUME NEW i \in Items
      PROVE  /\ rmap_tree'[i].state = "Stable" <=> rmap_tree[i].state = "Stable"
             /\ rmap_tree[i].state = "Stable" => rmap_tree'[i].stable_node = rmap_tree[i].stable_node
             /\ rmap_tree'[i].state # "Absent" => rmap_tree[i].state # "Absent" \/ i \in present
  <2>1. CASE \E h \in Hashes : unstable_hash_table[h] = i
    <3>1. rmap_tree[i].state = "Unstable"
      BY <2>1, ServerAssumption DEF JointInv, ServerInv, UnstableExact
    <3>2. rmap_tree[i] \in ItemRec
      BY DEF JointInv, ServerInv, TypeOK
    <3>3. rmap_tree'[i].state = "Volatile"
      BY <1>1, <2>1, <3>2 DEF ItemRec
    <3>4. QED
      BY <3>1, <3>3
  <2>2. CASE ~\E h \in Hashes : unstable_hash_table[h] = i
    BY <1>1, <2>2
  <2>3. QED
    BY <2>1, <2>2
<1>3. \A n \in NodeIds : (Live(n)' <=> Live(n)) /\ node'[n].pfn = node[n].pfn
  BY <1>1 DEF Live
<1>4. QED
  BY <1>1, <1>2, <1>3, QuietAgree

\* The result is sent.
LEMMA SendResultAgree ==
  ASSUME JointInv, AgreeParts, hphase = "offload", UNCHANGED hostVars, SendResult
  PROVE  AgreeParts'
<1>1. errs' = errs /\ log' = log /\ rmap_tree' = rmap_tree /\ node' = node
  BY DEF SendResult, metaVars
<1>2. \A n \in NodeIds : (Live(n)' <=> Live(n)) /\ node'[n].pfn = node[n].pfn
  BY <1>1 DEF Live
<1>3. QED
  BY <1>1, <1>2, QuietAgree

\* prune_rmap_tree has nothing to prune: every item of the server is one that
\* the host has listed.
LEMMA NothingPruned ==
  ASSUME JointInv, AgreeParts, hphase = "offload"
  PROVE  ~prune_rmap_tree
<1>1. SUFFICES ASSUME NEW x \in victims PROVE FALSE
  BY DEF prune_rmap_tree
<1>2. x \in Items /\ x \notin present /\ rmap_tree[x].state # "Absent"
  BY DEF JointInv, ServerInv, TypeOK, PruneOnlyUnaccessed, VictimsOK
<1>3. shadow[x] # NoPfn
  BY <1>2 DEF AgreeParts, KnownListed
<1>4. QED
  BY <1>2, <1>3, OffloadFacts

\* What an item leaves behind when it leaves its node.
LEMMA NodeLeft ==
  ASSUME ServerInv, NEW x \in Items, rmap_tree[x].state = "Stable", LeaveNode(x),
         NEW n, n = rmap_tree[x].stable_node
  PROVE  /\ n \in NodeIds /\ Live(n)
         /\ \A m \in NodeIds : m # n => node'[m] = node[m]
         /\ IsLastItem(x) => ~Live(n)' /\ node[n].sharing = {x}
         /\ ~IsLastItem(x) => Live(n)' /\ node'[n].pfn = node[n].pfn
<1> DEFINE S == node[n].sharing
           r == [node[n] EXCEPT !.shared_cnt = node[n].shared_cnt - 1, !.sharing = S \ {x}]
           nd == remove_item_from_node(node, n, x)
<1>1. /\ n \in NodeIds /\ Live(n) /\ x \in S /\ IsFiniteSet(S)
      /\ node[n].shared_cnt = Cardinality(S) /\ node[n].shared_cnt \in 1 .. MAX_PAGE_SHARING
  BY NodeOfStable DEF ServerInv
<1>2. node \in [NodeIds -> NodeRec] /\ node[n] \in NodeRec
  BY <1>1 DEF ServerInv, TypeOK
<1>3. nd = [node EXCEPT ![n] = r]
  BY DEF remove_item_from_node
<1>4. r.shared_cnt = node[n].shared_cnt - 1 /\ r.chain = node[n].chain /\ r.pfn = node[n].pfn
  BY <1>2 DEF NodeRec
<1>5. nd[n] = r /\ \A m \in NodeIds : m # n => nd[m] = node[m]
  BY <1>1, <1>2, <1>3
<1>6. DOMAIN nd = NodeIds
  BY <1>2, <1>3
<1>7. IsLastItem(x) <=> nd[n].shared_cnt = 0
  BY <1>1, <1>4, <1>5, ServerAssumption DEF IsLastItem
<1>8. /\ nd[n].shared_cnt = 0 => node' = [nd EXCEPT ![n] = FreeNode]
      /\ nd[n].shared_cnt # 0 => node' = nd
  BY DEF LeaveNode
<1>9. FreeNode.chain = NoNode
  BY DEF FreeNode
<1>10. ASSUME IsLastItem(x) PROVE S = {x}
  <2>1. Cardinality(S) = 1
    BY <1>1, <1>10 DEF IsLastItem
  <2>2. IsFiniteSet(S \ {x}) /\ Cardinality(S \ {x}) = 0
    BY <1>1, <2>1, FS_RemoveElement
  <2>3. S \ {x} = {}
    BY <2>2, FS_EmptySet
  <2>4. QED
    BY <1>1, <2>3
<1> HIDE DEF nd, r
<1>11. CASE IsLastItem(x)
  <2>1. node' = [nd EXCEPT ![n] = FreeNode]
    BY <1>7, <1>8, <1>11
  <2>2. node'[n] = FreeNode /\ \A m \in NodeIds : m # n => node'[m] = node[m]
    BY <1>1, <1>5, <1>6, <2>1
  <2>3. QED
    BY <1>1, <1>9, <1>10, <1>11, <2>2 DEF Live
<1>12. CASE ~IsLastItem(x)
  <2>1. node' = nd
    BY <1>7, <1>8, <1>12
  <2>2. node'[n].chain # NoNode /\ node'[n].pfn = node[n].pfn
    BY <1>1, <1>4, <1>5, <2>1 DEF Live
  <2>3. QED
    BY <1>1, <1>5, <1>12, <2>1, <2>2 DEF Live
<1>13. QED
  BY <1>11, <1>12


\* Fewer items leave more room.
LEMMA FewerItems ==
  ASSUME NEW S \in SUBSET Items, NEW T, T \subseteq S, Cardinality(S) < MAX_PAGE_SHARING
  PROVE  Cardinality(T) < MAX_PAGE_SHARING
<1>1. IsFiniteSet(S)
  BY FS_Subset, ServerAssumption
<1>2. IsFiniteSet(T) /\ Cardinality(T) <= Cardinality(S)
  BY <1>1, FS_Subset
<1>3. Cardinality(T) \in Nat /\ Cardinality(S) \in Nat
  BY <1>1, <1>2, FS_CardinalityType
<1>4. QED
  BY <1>2, <1>3, ServerAssumption

\* A log that grows by one entry.
LEMMA LogGrows ==
  ASSUME log \in Seq(LogRec), NEW r \in LogRec, log' = Append(log, r),
         NEW here, here = Len(log) + 1
  PROVE  /\ \A k \in DOMAIN log : k \in DOMAIN log' /\ log'[k] = log[k] /\ k \in Int /\ k < here
         /\ \A k \in DOMAIN log' : k \in DOMAIN log \/ (k = here /\ log'[k] = r)
         /\ here \in DOMAIN log' /\ log'[here] = r /\ here \notin DOMAIN log /\ here \in Int
         /\ log' # log
<1>1. /\ DOMAIN log' = DOMAIN log \cup {here} /\ log'[here] = r /\ here \notin DOMAIN log
      /\ \A k \in DOMAIN log : log'[k] = log[k]
  BY AppendEntry
<1>2. here \in Int /\ \A k \in DOMAIN log : k \in Int /\ k < here
  OBVIOUS
<1>3. QED
  BY <1>1, <1>2

\* An item that leaves its node of frame K: the host is told if the node goes
\* with it or if the host has it in the node.
LEMMA LeaveAgree ==
  ASSUME JointInv, AgreeParts, hphase = "offload", UNCHANGED hostVars,
         NEW x \in Items, rmap_tree[x].state = "Stable", LeaveNode(x),
         created' = created, clashed' = clashed,
         rmap_tree' = [rmap_tree EXCEPT ![x] = reset_item_state(rmap_tree[x])],
         errs' \subseteq errs,
         \A f \in errs : f \notin errs' => f.type = "MERGE_ONE_FAILED" /\ f.from = x,
         \A f \in errs' : f.from # x,
         \A k \in DOMAIN log : x \notin AllItems(log[k]),
         NEW n, n = rmap_tree[x].stable_node,
         NEW K, K = node[n].pfn, hitem[x].head = K, K \in hnode, map[x] # K,
         shadow[x] # NoPfn,
         \/ log' = log /\ ~IsLastItem(x) /\ ~hitem[x].stable
         \/ log' = Append(log, log_stale_node(x)) /\ IsLastItem(x)
         \/ log' = Append(log, log_item_state_change(x)) /\ ~IsLastItem(x) /\ hitem[x].stable
  PROVE  AgreeParts'
<1>0. PICK here : here = Len(log) + 1
  OBVIOUS
<1>1. /\ Todo = DOMAIN log /\ Todo' = DOMAIN log' /\ OpenErrs = errs /\ OpenErrs' = errs'
      /\ map' = map /\ hitem' = hitem /\ hnode' = hnode /\ shadow' = shadow
      /\ hphase' = "offload"
  BY OffloadSides
<1>2. /\ \A k \in DOMAIN log :
           /\ log[k] \in LogRec /\ log[k].from \in Items
           /\ MergeItems(log[k]) \subseteq AllItems(log[k])
           /\ log[k].from \in AllItems(log[k])
           /\ IsNew(log[k]) => rmap_tree[log[k].from].state = "Stable"
      /\ \A e \in errs : e.from \in Items /\ rmap_tree[e.from].state = "Stable"
      /\ \A i \in Items : rmap_tree[i].state = "Stable" =>
           rmap_tree[i].stable_node \in NodeIds /\ Live(rmap_tree[i].stable_node)
  BY OffloadItems DEF AllItems
<1>3. /\ n \in NodeIds /\ Live(n)
      /\ \A m \in NodeIds : m # n => node'[m] = node[m]
      /\ IsLastItem(x) => ~Live(n)' /\ node[n].sharing = {x}
      /\ ~IsLastItem(x) => Live(n)' /\ node'[n].pfn = node[n].pfn
  BY NodeLeft DEF JointInv
<1>4. /\ rmap_tree'[x].state = "Volatile"
      /\ \A i \in Items : i # x => rmap_tree'[i] = rmap_tree[i]
      /\ \A i \in Items : (i # x /\ rmap_tree[i].state = "Stable") =>
           node'[rmap_tree[i].stable_node].pfn = node[rmap_tree[i].stable_node].pfn
  <2> DEFINE it == reset_item_state(rmap_tree[x])
  <2>1. rmap_tree[x] \in ItemRec /\ ServerInv
    BY DEF JointInv, ServerInv, TypeOK
  <2>2. it \in ItemRec /\ it.state = "Volatile"
    BY <2>1, ResetType
  <2>3. rmap_tree' = [rmap_tree EXCEPT ![x] = it]
    OBVIOUS
  <2> HIDE DEF it
  <2>4. /\ rmap_tree'[x] = it
        /\ \A i \in Items : i # x => rmap_tree'[i] = rmap_tree[i]
        /\ \A i \in Items :
             (rmap_tree[i].state = "Stable" /\ rmap_tree'[i].state = "Stable") =>
               /\ rmap_tree'[i].stable_node = rmap_tree[i].stable_node
               /\ node'[rmap_tree[i].stable_node].pfn = node[rmap_tree[i].stable_node].pfn
    BY <2>1, <2>2, <2>3, OthersStay
  <2>5. QED
    BY <2>2, <2>4
<1>5. \A m \in NodeIds : Live(m)' => Live(m) /\ node'[m].pfn = node[m].pfn
  BY <1>3 DEF Live
<1>6. \A m \in NodeIds : (m # n /\ Live(m)) => node[m].pfn # K
  BY <1>3 DEF AgreeParts, UniqueFrames
<1>7. \A i \in Items : Believed(i, K) => i \in node[n].sharing
  <2>1. \A i \in Items : rmap_tree[i].state = "Stable" =>
          i \in node[rmap_tree[i].stable_node].sharing
    BY DEF JointInv, ServerInv, StructInv, SharingConsistent
  <2>2. QED
    BY <1>2, <1>6, <2>1 DEF Believed
<1>8. /\ log_stale_node(x) \in LogRec /\ log_stale_node(x).type = "STALE_STABLE_NODE"
      /\ log_stale_node(x).from = x /\ log_stale_node(x).kpfn = K
      /\ log_item_state_change(x) \in LogRec
      /\ log_item_state_change(x).type = "ITEM_STATE_CHANGE"
      /\ log_item_state_change(x).from = x /\ log_item_state_change(x).kpfn = K
  <2>1. log_stale_node(x) \in LogRec /\ log_item_state_change(x) \in LogRec
    BY DemotionType DEF JointInv, ServerInv
  <2>2. QED
    BY <2>1 DEF log_stale_node, log_item_state_change
<1>9. PICK r : /\ log' = log \/ (r \in LogRec /\ log' = Append(log, r))
               /\ r.from = x /\ r.kpfn = K
               /\ log' # log => IsStale(r) \/ IsChange(r)
               /\ (log' # log /\ IsStale(r)) => IsLastItem(x)
               /\ (log' # log /\ IsChange(r)) => hitem[x].stable
               /\ log' = log => ~hitem[x].stable
  <2>1. CASE log' = log /\ ~IsLastItem(x) /\ ~hitem[x].stable
    BY <1>8, <2>1
  <2>2. CASE log' = Append(log, log_stale_node(x)) /\ IsLastItem(x)
    <3>1. log' # log
      BY <1>8, <2>2 DEF JointInv, ServerInv, TypeOK
    <3>2. IsStale(log_stale_node(x)) /\ ~IsChange(log_stale_node(x))
      BY <1>8 DEF IsStale, IsChange
    <3>3. QED
      BY <1>8, <2>2, <3>1, <3>2
  <2>3. CASE log' = Append(log, log_item_state_change(x)) /\ ~IsLastItem(x) /\ hitem[x].stable
    <3>1. log' # log
      BY <1>8, <2>3 DEF JointInv, ServerInv, TypeOK
    <3>2. ~IsStale(log_item_state_change(x)) /\ IsChange(log_item_state_change(x))
      BY <1>8 DEF IsStale, IsChange
    <3>3. QED
      BY <1>8, <2>3, <3>1, <3>2
  <2>4. QED
    BY <2>1, <2>2, <2>3
<1>10. /\ \A k \in DOMAIN log : k \in DOMAIN log' /\ log'[k] = log[k] /\ k < here
       /\ \A k \in DOMAIN log' : k \in DOMAIN log \/ (log' # log /\ k = here /\ log'[k] = r)
       /\ log' # log => here \in DOMAIN log' /\ log'[here] = r
       /\ \A k \in DOMAIN log' : k \in Int
  <2>1. log \in Seq(LogRec)
    BY DEF JointInv, ServerInv, TypeOK
  <2>2. CASE log' = log
    BY <1>0, <2>1, <2>2
  <2>3. CASE log' # log
    <3>1. r \in LogRec /\ log' = Append(log, r)
      BY <1>9, <2>3
    <3>2. QED
      BY <1>0, <2>1, <2>3, <3>1, LogGrows
  <2>4. QED
    BY <2>2, <2>3
<1>11. log' # log => MergeItems(r) = {} /\ ~IsMerge(r) /\ ~IsNew(r) /\ r.type # "STABLE_MERGE"
  BY <1>9 DEF MergeItems, IsMerge, IsNew, IsStale, IsChange
<1>12. \A k \in DOMAIN log : IsStale(log[k]) => StaleFits(k) /\ log[k].kpfn # K
  BY <1>1, <1>3 DEF AgreeParts, StaleOK, StaleFits
<1>13. KnownListed'
  BY <1>1, <1>4 DEF AgreeParts, KnownListed
<1>14. UniqueFrames'
  BY <1>5 DEF AgreeParts, UniqueFrames
<1>15. NodesReal'
  <2>1. ASSUME NEW m \in NodeIds, UndoneNode(m) PROVE UndoneNode(m)'
    <3>1. PICK e \in errs : e.type = "MERGE_TWO_FAILED" /\ rmap_tree[e.from].stable_node = m
      BY <1>1, <2>1 DEF UndoneNode
    <3>2. e \in errs' /\ e.from \in Items /\ e.from # x
      BY <1>2, <3>1
    <3>3. QED
      BY <1>1, <1>4, <3>1, <3>2 DEF UndoneNode
  <2>2. ASSUME NEW m \in NodeIds, NewNode(m) PROVE NewNode(m)'
    <3>1. PICK k \in DOMAIN log : IsNew(log[k]) /\ rmap_tree[log[k].from].stable_node = m
      BY <1>1, <2>2 DEF NewNode
    <3>2. log[k].from # x /\ log[k].from \in Items
      BY <1>2
    <3>3. IsNew(log'[k]) /\ rmap_tree'[log'[k].from].stable_node = m /\ k \in Todo'
      BY <1>1, <1>4, <1>10, <3>1, <3>2
    <3>4. QED
      BY <3>3 DEF NewNode, IsNew
  <2>3. QED
    BY <1>1, <1>5, <2>1, <2>2 DEF AgreeParts, NodesReal
<1>16. ErrHeads'
  BY <1>1 DEF AgreeParts, ErrHeads
<1>17. ASSUME NEW i \in Items, i # x
       PROVE  /\ WillLeave(i)' <=> WillLeave(i)
              /\ WillJoin(i)' <=> WillJoin(i)
              /\ Undone(i, OpenErrs)' <=> Undone(i, OpenErrs)
  <2>1. WillLeave(i)' <=> WillLeave(i)
    <3>1. \A k \in DOMAIN log' : (~IsMerge(log'[k]) /\ log'[k].from = i) => k \in DOMAIN log
      BY <1>9, <1>10, <1>17
    <3>2. QED
      BY <1>1, <1>10, <3>1 DEF WillLeave, IsMerge
  <2>2. WillJoin(i)' <=> WillJoin(i)
    <3>1. \A k \in DOMAIN log' : i \in MergeItems(log'[k]) => k \in DOMAIN log
      BY <1>10, <1>11
    <3>2. QED
      BY <1>1, <1>10, <3>1 DEF WillJoin, MergeItems
  <2>3. Undone(i, OpenErrs)' <=> Undone(i, OpenErrs)
    BY <1>1, <1>2, <1>4, <1>17 DEF Undone
  <2>4. QED
    BY <2>1, <2>2, <2>3
<1>18. ItemsAgree'
  <2>1. ASSUME NEW k \in DOMAIN log', IsChange(log'[k])
        PROVE  hitem[log'[k].from].stable /\ hitem[log'[k].from].head = log'[k].kpfn
    <3>1. CASE k \in DOMAIN log
      BY <1>1, <1>10, <2>1, <3>1 DEF AgreeParts, ItemsAgree
    <3>2. CASE k \notin DOMAIN log
      BY <1>9, <1>10, <2>1, <3>2
    <3>3. QED
      BY <3>1, <3>2
  <2>2. ASSUME NEW i \in Items, ~WillLeave(i)'
        PROVE  IF WillJoin(i)' THEN ~hitem'[i].stable
               ELSE /\ hitem'[i].stable <=> (rmap_tree'[i].state = "Stable" /\ ~Undone(i, OpenErrs)')
                    /\ hitem'[i].stable => hitem'[i].head = node'[rmap_tree'[i].stable_node].pfn
    <3>1. CASE i # x
      <4>1. IF WillJoin(i) THEN ~hitem[i].stable
            ELSE /\ hitem[i].stable <=> (rmap_tree[i].state = "Stable" /\ ~Undone(i, OpenErrs))
                 /\ hitem[i].stable => hitem[i].head = node[rmap_tree[i].stable_node].pfn
        BY <1>17, <2>2, <3>1 DEF AgreeParts, ItemsAgree
      <4>2. CASE WillJoin(i)
        BY <1>1, <1>17, <3>1, <4>1, <4>2
      <4>3. CASE ~WillJoin(i)
        BY <1>1, <1>4, <1>17, <3>1, <4>1, <4>3
      <4>4. QED
        BY <4>2, <4>3
    <3>2. CASE i = x
      <4>1. log' = log
        <5>1. SUFFICES ASSUME log' # log PROVE FALSE
          OBVIOUS
        <5>2. here \in Todo' /\ ~IsMerge(log'[here]) /\ log'[here].from = x
          BY <1>1, <1>9, <1>10, <1>11, <5>1
        <5>3. WillLeave(x)'
          BY <5>2 DEF WillLeave, IsMerge
        <5>4. QED
          BY <2>2, <3>2, <5>3
      <4>2. ~hitem[x].stable
        BY <1>9, <4>1
      <4>3. QED
        BY <1>1, <1>4, <3>2, <4>2
    <3>3. QED
      BY <3>1, <3>2
  <2>3. QED
    BY <1>1, <2>1, <2>2 DEF ItemsAgree, IsChange
<1>19. StaleOK'
  <2>1. ASSUME NEW k \in DOMAIN log, IsStale(log[k])
        PROVE  StaleFits(k)'
    <3> DEFINE y == log[k].from
               p == log[k].kpfn
    <3>1. StaleFits(k) /\ p # K
      BY <1>12, <2>1
    <3>2. /\ shadow[y] # NoPfn /\ hitem[y].head = p /\ p \in hnode
          /\ \A i \in Items : map[i] # p
          /\ \A m \in NodeIds : Live(m) => node[m].pfn # p
          /\ \A i \in Items : (hitem[i].stable /\ hitem[i].head = p) =>
               \/ i = y
               \/ \E l \in DOMAIN log : l < k /\ IsChange(log[l]) /\ log[l].from = i
          /\ \A l \in DOMAIN log : (l # k /\ IsStale(log[l])) => log[l].kpfn # p
      BY <1>1, <3>1 DEF StaleFits
    <3>3. y = log'[k].from /\ p = log'[k].kpfn
      BY <1>10
    <3> HIDE DEF y, p
    <3>4. /\ shadow'[y] # NoPfn /\ hitem'[y].head = p /\ p \in hnode'
          /\ \A i \in Items : map'[i] # p
          /\ \A m \in NodeIds : Live(m)' => node'[m].pfn # p
      BY <1>1, <1>5, <3>2
    <3>5. \A i \in Items : (hitem'[i].stable /\ hitem'[i].head = p) =>
            \/ i = y
            \/ \E l \in DOMAIN log' : l < k /\ IsChange(log'[l]) /\ log'[l].from = i
      BY <1>1, <1>10, <3>2
    <3>6. \A l \in DOMAIN log' : (l # k /\ IsStale(log'[l])) => log'[l].kpfn # p
      BY <1>9, <1>10, <3>1, <3>2
    <3>7. QED
      BY <1>1, <3>3, <3>4, <3>5, <3>6 DEF StaleFits, IsChange, IsStale
  <2>2. ASSUME log' # log, IsStale(r)
        PROVE  StaleFits(here)'
    <3>1. IsLastItem(x) /\ here \in DOMAIN log' /\ log'[here] = r
      BY <1>9, <1>10, <2>2
    <3>2. \A i \in Items : Believed(i, K) => i = x
      BY <1>3, <1>7, <3>1
    <3>3. ASSUME NEW i \in Items, map[i] = K PROVE FALSE
      <4>1. K \in Pfns /\ K # NoPfn /\ frame[K] = "node"
        BY ServerAssumption DEF JointInv, GuestInv, SystemTypeOK, FramesOK
      <4>2. Sharer(i)
        BY <3>3, <4>1 DEF Sharer
      <4>3. Believed(i, K)
        BY <3>3, <4>2, OffloadFacts
      <4>4. QED
        BY <3>2, <3>3, <4>3
    <3>4. \A m \in NodeIds : Live(m)' => node'[m].pfn # K
      BY <1>3, <1>5, <1>6, <3>1
    <3>5. ASSUME NEW i \in Items, hitem[i].stable, hitem[i].head = K, i # x
          PROVE  \E l \in DOMAIN log : IsChange(log[l]) /\ log[l].from = i
      <4>1. CASE WillLeave(i)
        <5>1. PICK l \in DOMAIN log : ~IsMerge(log[l]) /\ log[l].from = i
          BY <1>1, <4>1 DEF WillLeave
        <5>2. ~IsStale(log[l])
          BY <1>12, <3>5, <5>1 DEF StaleFits
        <5>3. QED
          BY <1>2, <5>1, <5>2 DEF LogRec, IsMerge, IsStale, IsChange
      <4>2. CASE ~WillLeave(i)
        <5>1. Believed(i, K)
          BY <3>5, <4>2 DEF AgreeParts, ItemsAgree, Believed
        <5>2. QED
          BY <3>2, <3>5, <5>1
      <4>3. QED
        BY <4>1, <4>2
    <3>6. \A i \in Items : (hitem'[i].stable /\ hitem'[i].head = K) =>
            \/ i = x
            \/ \E l \in DOMAIN log' : l < here /\ IsChange(log'[l]) /\ log'[l].from = i
      BY <1>1, <1>10, <3>5
    <3>7. \A l \in DOMAIN log' : (l # here /\ IsStale(log'[l])) => log'[l].kpfn # K
      BY <1>10, <1>12
    <3>8. log'[here].from = x /\ log'[here].kpfn = K
      BY <1>9, <3>1
    <3>9. /\ shadow'[x] # NoPfn /\ hitem'[x].head = K /\ K \in hnode'
          /\ \A i \in Items : map'[i] # K
      BY <1>1, <3>3
    <3>10. QED
      BY <1>1, <3>4, <3>6, <3>7, <3>8, <3>9 DEF StaleFits, IsChange, IsStale
  <2>3. ASSUME NEW k \in DOMAIN log', IsStale(log'[k]) PROVE StaleFits(k)'
    BY <1>10, <2>1, <2>2, <2>3
  <2>4. QED
    BY <1>1, <2>3 DEF StaleOK, IsStale
<1>20. Room'
  <2>1. ASSUME NEW k \in DOMAIN log, log[k].type = "STABLE_MERGE", NEW i \in AtMerge(k)'
        PROVE  i \in AtMerge(k)
    <3>1. PICK p : p = log[k].kpfn
      OBVIOUS
    <3>2. /\ i \in Items
          /\ \/ /\ Believed(i, p)'
                /\ \A l \in DOMAIN log' : l >= k => i \notin MergeItems(log'[l])
             \/ \E l \in DOMAIN log' :
                  l >= k /\ IsChange(log'[l]) /\ log'[l].from = i /\ log'[l].kpfn = p
      BY <1>10, <2>1, <3>1 DEF AtMerge, Believed, MergeItems, IsChange
    <3>3. CASE /\ Believed(i, p)'
               /\ \A l \in DOMAIN log' : l >= k => i \notin MergeItems(log'[l])
      <4>1. Believed(i, p)
        BY <1>4, <3>2, <3>3 DEF Believed
      <4>2. \A l \in DOMAIN log : l >= k => i \notin MergeItems(log[l])
        BY <1>10, <3>3
      <4>3. QED
        BY <3>1, <3>2, <4>1, <4>2 DEF AtMerge
    <3>4. ASSUME NEW l \in DOMAIN log', l >= k, IsChange(log'[l]), log'[l].from = i,
                 log'[l].kpfn = p
          PROVE  i \in AtMerge(k)
      <4>1. CASE l \in DOMAIN log
        BY <1>10, <3>1, <3>2, <3>4, <4>1 DEF AtMerge
      <4>2. CASE l \notin DOMAIN log
        <5>1. i = x /\ p = K
          BY <1>9, <1>10, <3>4, <4>2
        <5>2. Believed(i, p) /\ \A m \in DOMAIN log : i \notin MergeItems(log[m])
          BY <1>2, <5>1 DEF Believed
        <5>3. QED
          BY <3>1, <3>2, <5>2 DEF AtMerge
      <4>3. QED
        BY <4>1, <4>2
    <3>5. QED
      BY <3>2, <3>3, <3>4
  <2>2. ASSUME NEW k \in DOMAIN log', log'[k].type = "STABLE_MERGE"
        PROVE  Cardinality(AtMerge(k)') < MAX_PAGE_SHARING
    <3>1. k \in DOMAIN log /\ log[k].type = "STABLE_MERGE"
      BY <1>10, <1>11, <2>2
    <3>2. AtMerge(k)' \subseteq AtMerge(k) /\ AtMerge(k) \subseteq Items
      BY <2>1, <3>1 DEF AtMerge
    <3>3. Cardinality(AtMerge(k)) < MAX_PAGE_SHARING
      BY <3>1 DEF AgreeParts, Room
    <3>4. QED
      BY <3>2, <3>3, FewerItems
  <2>3. QED
    BY <2>2 DEF Room
<1>21. LeavesFirst'
  <2>1. ASSUME NEW k \in DOMAIN log', NEW l \in DOMAIN log', k < l, ~IsMerge(log'[l])
        PROVE  log'[l].from \notin AllItems(log'[k])
    <3>1. k \in DOMAIN log
      BY <1>10, <2>1
    <3>2. CASE l \in DOMAIN log
      BY <1>10, <2>1, <3>1, <3>2 DEF AgreeParts, LeavesFirst
    <3>3. CASE l \notin DOMAIN log
      BY <1>9, <1>10, <3>1, <3>3
    <3>4. QED
      BY <3>2, <3>3
  <2>2. ASSUME NEW k \in DOMAIN log', ~IsMerge(log'[k]),
               rmap_tree'[log'[k].from].state = "Stable"
        PROVE  \E l \in DOMAIN log' : k < l /\ log'[k].from \in MergeItems(log'[l])
    <3>1. k \in DOMAIN log
      BY <1>4, <1>9, <1>10, <2>2
    <3>2. log'[k] = log[k] /\ log[k].from # x /\ log[k].from \in Items
      BY <1>2, <1>10, <3>1
    <3>3. rmap_tree[log[k].from].state = "Stable"
      BY <1>4, <2>2, <3>2
    <3>4. PICK l \in DOMAIN log : k < l /\ log[k].from \in MergeItems(log[l])
      BY <2>2, <3>1, <3>2, <3>3 DEF AgreeParts, LeavesFirst
    <3>5. QED
      BY <1>10, <3>2, <3>4
  <2>3. QED
    BY <2>1, <2>2 DEF LeavesFirst, IsMerge, AllItems, IsNew, MergeItems
<1>22. MadeFirst'
  <2>1. ASSUME NEW l \in DOMAIN log', IsNew(log'[l]), NEW i \in Items,
               rmap_tree'[i].state = "Stable",
               rmap_tree'[i].stable_node = rmap_tree'[log'[l].from].stable_node
        PROVE  \E k \in DOMAIN log' : k >= l /\ i \in MergeItems(log'[k])
    <3>1. l \in DOMAIN log /\ log'[l] = log[l] /\ log[l].from # x /\ i # x
      BY <1>2, <1>4, <1>10, <1>11, <2>1
    <3>2. /\ rmap_tree[i].state = "Stable"
          /\ rmap_tree[i].stable_node = rmap_tree[log[l].from].stable_node
      BY <1>2, <1>4, <2>1, <3>1
    <3>3. PICK k \in DOMAIN log : k >= l /\ i \in MergeItems(log[k])
      BY <2>1, <3>1, <3>2 DEF AgreeParts, MadeFirst
    <3>4. QED
      BY <1>10, <3>3
  <2>2. QED
    BY <2>1 DEF MadeFirst, IsNew, MergeItems
<1>23. QED
  BY <1>13, <1>14, <1>15, <1>16, <1>18, <1>19, <1>20, <1>21, <1>22 DEF AgreeParts


\* An item of the log that is no merge is not Stable unless a merge follows.
LEMMA NoEntryOf ==
  ASSUME JointInv, AgreeParts, NEW x \in Items, rmap_tree[x].state = "Stable",
         \A k \in DOMAIN log : x \notin MergeItems(log[k])
  PROVE  \A k \in DOMAIN log : x \notin AllItems(log[k])
<1>1. SUFFICES ASSUME NEW k \in DOMAIN log, x \in AllItems(log[k]) PROVE FALSE
  OBVIOUS
<1>2. CASE IsMerge(log[k])
  BY <1>1, <1>2 DEF AllItems, MergeItems, IsMerge, IsNew
<1>3. CASE ~IsMerge(log[k])
  <2>1. log[k].from = x
    BY <1>1, <1>3 DEF AllItems, IsMerge, IsNew
  <2>2. QED
    BY <1>3, <2>1 DEF AgreeParts, LeavesFirst
<1>4. QED
  BY <1>2, <1>3

\* A page that is mapped to the frame of a node of the host, while the server
\* works.
LEMMA MappedToNode ==
  ASSUME JointInv, hphase = "offload", NEW x \in Items, map[x] \in hnode
  PROVE  map[x] = shadow[x] /\ Believed(x, map[x]) /\ ~Undone(x, errs)
<1>1. map[x] \in Pfns /\ map[x] # NoPfn /\ frame[map[x]] = "node"
  BY ServerAssumption DEF JointInv, GuestInv, SystemTypeOK, FramesOK
<1>2. Sharer(x)
  BY <1>1 DEF Sharer
<1>3. QED
  BY <1>2, OffloadFacts

\* HOST_MERGE_ONE_FAILED: the host does not have the item in the node, but the
\* item remembers it.
LEMMA MergeOneAgree ==
  ASSUME JointInv, AgreeParts, hphase = "offload", UNCHANGED hostVars,
         NEW e \in errs, MergeOneFailed(e), errs' = errs \ {e},
         created' = created, clashed' = clashed
  PROVE  AgreeParts'
<1>1. PICK x : x = e.from
  OBVIOUS
<1>2. PICK n : n = rmap_tree[x].stable_node
  OBVIOUS
<1>3. PICK K : K = node[n].pfn
  OBVIOUS
<1>4. /\ e.type = "MERGE_ONE_FAILED" /\ LeaveNode(x)
      /\ rmap_tree' = [rmap_tree EXCEPT ![x] = reset_item_state(rmap_tree[x])]
      /\ log' = IF IsLastItem(x) THEN Append(log, log_stale_node(x)) ELSE log
  BY <1>1 DEF MergeOneFailed
<1>5. /\ x \in Items /\ rmap_tree[x].state = "Stable"
      /\ \A k \in DOMAIN log : ~IsMerge(log[k])
      /\ \A f \in errs : f # e => f.from # x
  BY <1>1, ErrorFacts DEF JointInv
<1>6. OpenErrs = errs /\ Todo = DOMAIN log
  BY OffloadSides
<1>7. hitem[x].head = K /\ K \in hnode
  <2>1. e.kpfn = K
    BY <1>1, <1>2, <1>3, <1>4 DEF JointInv, ServerInv, ErrorsApply
  <2>2. QED
    BY <1>1, <1>4, <1>6, <2>1 DEF AgreeParts, ErrHeads
<1>8. shadow[x] # NoPfn
  BY <1>5 DEF AgreeParts, KnownListed
<1>9. \A k \in DOMAIN log : MergeItems(log[k]) = {}
  BY <1>5 DEF MergeItems, IsMerge
<1>10. \A k \in DOMAIN log : x \notin AllItems(log[k])
  BY <1>5, <1>9, NoEntryOf
<1>11. Undone(x, errs)
  BY <1>1 DEF Undone
<1>12. ~hitem[x].stable
  <2>1. ~WillLeave(x) /\ ~WillJoin(x)
    BY <1>6, <1>9, <1>10 DEF WillLeave, WillJoin, AllItems, IsNew, IsMerge
  <2>2. QED
    BY <1>5, <1>6, <1>11, <2>1 DEF AgreeParts, ItemsAgree
<1>13. map[x] # K
  BY <1>5, <1>7, <1>11, MappedToNode
<1>14. /\ errs' \subseteq errs
       /\ \A f \in errs : f \notin errs' => f.type = "MERGE_ONE_FAILED" /\ f.from = x
       /\ \A f \in errs' : f.from # x
  BY <1>1, <1>4, <1>5
<1>15. \/ log' = log /\ ~IsLastItem(x) /\ ~hitem[x].stable
       \/ log' = Append(log, log_stale_node(x)) /\ IsLastItem(x)
       \/ log' = Append(log, log_item_state_change(x)) /\ ~IsLastItem(x) /\ hitem[x].stable
  BY <1>4, <1>12
<1>16. QED
  BY <1>2, <1>3, <1>4, <1>5, <1>7, <1>8, <1>10, <1>13, <1>14, <1>15, LeaveAgree

\* A Stable page that is mapped to another frame than its node's: the host has
\* it in the node.
LEMMA StableMovedAgree ==
  ASSUME JointInv, AgreeParts, hphase = "offload", UNCHANGED hostVars, StableMoved
  PROVE  AgreeParts'
<1>1. PICK x : x = page.item
  OBVIOUS
<1>2. PICK n : n = rmap_tree[x].stable_node
  OBVIOUS
<1>3. PICK K : K = node[n].pfn
  OBVIOUS
<1>4. /\ page # NoPage /\ errs = {} /\ x \in Items /\ rmap_tree[x].state = "Stable"
  BY <1>1, InHand DEF JointInv, StableMoved
<1>5. /\ LeaveNode(x)
      /\ rmap_tree' = [rmap_tree EXCEPT ![x] = reset_item_state(rmap_tree[x])]
      /\ K # rmap_tree[x].pfn /\ errs' = errs
      /\ log' = Append(log, IF IsLastItem(x) THEN log_stale_node(x)
                                             ELSE log_item_state_change(x))
      /\ created' = created /\ clashed' = clashed
  BY <1>1, <1>2, <1>3 DEF StableMoved, DemotionLog, scanRest, curr
<1>6. \A k \in DOMAIN log : x \notin MergeItems(log[k])
  BY <1>1, <1>4, MergesElsewhere DEF JointInv
<1>7. \A k \in DOMAIN log : x \notin AllItems(log[k])
  BY <1>4, <1>6, NoEntryOf
<1>8. OpenErrs = {} /\ Todo = DOMAIN log
  BY <1>4, OffloadSides
<1>9. hitem[x].stable /\ hitem[x].head = K
  <2>1. ~WillLeave(x) /\ ~WillJoin(x)
    BY <1>6, <1>7, <1>8 DEF WillLeave, WillJoin, AllItems, IsNew, IsMerge
  <2>2. ~Undone(x, OpenErrs)
    BY <1>8 DEF Undone
  <2>3. QED
    BY <1>2, <1>3, <1>4, <2>1, <2>2 DEF AgreeParts, ItemsAgree
<1>10. K \in hnode
  <2>1. n \in NodeIds /\ Live(n)
    BY <1>2, <1>4, OffloadItems
  <2>2. ~UndoneNode(n)
    BY <1>8 DEF UndoneNode
  <2>3. ~NewNode(n)
    BY <1>2, <1>4, <1>6, <1>8 DEF NewNode, AgreeParts, MadeFirst
  <2>4. QED
    BY <1>3, <2>1, <2>2, <2>3 DEF AgreeParts, NodesReal
<1>11. shadow[x] # NoPfn
  BY <1>4 DEF AgreeParts, KnownListed
<1>12. map[x] # K
  <2>1. rmap_tree[x].pfn = shadow[x]
    BY <1>1, <1>4 DEF JointInv, PageFrame, curr
  <2>2. QED
    BY <1>4, <1>5, <1>10, <2>1, MappedToNode
<1>13. /\ errs' \subseteq errs
       /\ \A f \in errs : f \notin errs' => f.type = "MERGE_ONE_FAILED" /\ f.from = x
       /\ \A f \in errs' : f.from # x
  BY <1>4, <1>5
<1>14. \/ log' = log /\ ~IsLastItem(x) /\ ~hitem[x].stable
       \/ log' = Append(log, log_stale_node(x)) /\ IsLastItem(x)
       \/ log' = Append(log, log_item_state_change(x)) /\ ~IsLastItem(x) /\ hitem[x].stable
  BY <1>5, <1>9
<1>15. QED
  BY <1>2, <1>3, <1>4, <1>5, <1>7, <1>9, <1>10, <1>11, <1>12, <1>13, <1>14, LeaveAgree

\* HOST_MERGE_TWO_FAILED: the host has none of the items in the node.
LEMMA MergeTwoAgree ==
  ASSUME JointInv, AgreeParts, hphase = "offload", UNCHANGED hostVars,
         NEW e \in errs, MergeTwoFailed(e), errs' = errs \ {e}
  PROVE  AgreeParts'
<1>1. PICK n : n = rmap_tree[e.from].stable_node
  OBVIOUS
<1>2. PICK S : S = node[n].sharing
  OBVIOUS
<1>3. /\ e.type = "MERGE_TWO_FAILED" /\ log' = log
      /\ rmap_tree' = [i \in Items |-> IF i \in S THEN reset_item_state(rmap_tree[i])
                                                  ELSE rmap_tree[i]]
      /\ node' = [node EXCEPT ![n] = FreeNode]
  BY <1>1, <1>2 DEF MergeTwoFailed, UndoneItems
<1>4. /\ Todo = DOMAIN log /\ Todo' = DOMAIN log /\ OpenErrs = errs /\ OpenErrs' = errs'
      /\ map' = map /\ hitem' = hitem /\ hnode' = hnode /\ shadow' = shadow
      /\ hphase' = "offload"
  BY <1>3, OffloadSides
<1>5. /\ \A k \in DOMAIN log : ~IsMerge(log[k])
      /\ e.from \in Items /\ rmap_tree[e.from].state = "Stable"
      /\ \A f \in errs : f # e =>
           f.from \in Items /\ rmap_tree[f.from].state = "Stable" /\ rmap_tree[f.from].stable_node # n
  BY <1>1, <1>3, ErrorFacts DEF JointInv
<1>6. \A k \in DOMAIN log : MergeItems(log[k]) = {} /\ ~IsNew(log[k]) /\ log[k].from \in Items
  BY <1>5, OffloadItems DEF MergeItems, IsMerge, IsNew
<1>7. /\ n \in NodeIds
      /\ \A i \in Items : i \in S <=> rmap_tree[i].state = "Stable" /\ rmap_tree[i].stable_node = n
  BY <1>1, <1>2, <1>5 DEF JointInv, ServerInv, StructInv, SharingConsistent
<1>8. ASSUME NEW i \in Items
      PROVE  /\ i \in S => rmap_tree'[i].state = "Volatile"
             /\ i \notin S => rmap_tree'[i] = rmap_tree[i]
  <2>1. rmap_tree[i] \in ItemRec
    BY DEF JointInv, ServerInv, TypeOK
  <2>2. QED
    BY <1>3, <2>1, ResetType
<1>9. /\ \A m \in NodeIds : m # n => node'[m] = node[m]
      /\ node'[n].chain = NoNode
  BY <1>3, <1>7 DEF JointInv, ServerInv, TypeOK, FreeNode
<1>10. \A m \in NodeIds : Live(m)' => m # n /\ Live(m) /\ node'[m].pfn = node[m].pfn
  BY <1>9 DEF Live
<1>11. \A f \in errs' : f \in errs /\ f # e /\ f.from \in Items /\ rmap_tree'[f.from] = rmap_tree[f.from]
  BY <1>5, <1>7, <1>8
<1>12. KnownListed'
  BY <1>4, <1>7, <1>8 DEF AgreeParts, KnownListed
<1>13. UniqueFrames'
  BY <1>10 DEF AgreeParts, UniqueFrames
<1>14. NodesReal'
  <2>1. ASSUME NEW m \in NodeIds, m # n, UndoneNode(m) PROVE UndoneNode(m)'
    BY <1>1, <1>4, <1>11, <2>1 DEF UndoneNode
  <2>2. \A m : ~NewNode(m)
    BY <1>4, <1>6 DEF NewNode
  <2>3. QED
    BY <1>4, <1>10, <2>1, <2>2 DEF AgreeParts, NodesReal
<1>15. ErrHeads'
  BY <1>4, <1>11 DEF AgreeParts, ErrHeads
<1>16. ItemsAgree'
  <2>1. \A k \in Todo' : IsChange(log'[k]) =>
          hitem'[log'[k].from].stable /\ hitem'[log'[k].from].head = log'[k].kpfn
    BY <1>3, <1>4 DEF AgreeParts, ItemsAgree, IsChange
  <2>2. \A i : (WillLeave(i)' <=> WillLeave(i)) /\ ~WillJoin(i) /\ ~WillJoin(i)'
    BY <1>3, <1>4, <1>6 DEF WillLeave, WillJoin, IsMerge, MergeItems
  <2>3. ASSUME NEW i \in Items, ~WillLeave(i)
        PROVE  /\ hitem'[i].stable <=> (rmap_tree'[i].state = "Stable" /\ ~Undone(i, OpenErrs)')
               /\ hitem'[i].stable => hitem'[i].head = node'[rmap_tree'[i].stable_node].pfn
    <3>1. /\ hitem[i].stable <=> (rmap_tree[i].state = "Stable" /\ ~Undone(i, errs))
          /\ hitem[i].stable => hitem[i].head = node[rmap_tree[i].stable_node].pfn
      BY <1>4, <2>2, <2>3 DEF AgreeParts, ItemsAgree
    <3>2. CASE i \in S
      <4>1. Undone(i, errs)
        BY <1>1, <1>3, <1>7, <3>2 DEF Undone
      <4>2. QED
        BY <1>4, <1>8, <3>1, <3>2, <4>1
    <3>3. CASE i \notin S /\ rmap_tree[i].state = "Stable"
      <4>1. rmap_tree[i].stable_node # n /\ rmap_tree[i].stable_node \in NodeIds /\ i # e.from
        BY <1>1, <1>5, <1>7, <3>3, OffloadItems
      <4>2. Undone(i, OpenErrs)' <=> Undone(i, errs)
        <5>1. ASSUME NEW f \in errs, \/ f.from = i
                                     \/ f.type = "MERGE_TWO_FAILED"
                                        /\ rmap_tree[f.from].stable_node = rmap_tree[i].stable_node
              PROVE  f \in errs'
          BY <1>1, <4>1, <5>1
        <5>2. rmap_tree'[i] = rmap_tree[i]
          BY <1>8, <3>3
        <5>3. QED
          BY <1>4, <1>11, <5>1, <5>2 DEF Undone
      <4>3. QED
        BY <1>4, <1>8, <1>9, <3>1, <3>3, <4>1, <4>2
    <3>4. CASE i \notin S /\ rmap_tree[i].state # "Stable"
      BY <1>4, <1>8, <3>1, <3>4
    <3>5. QED
      BY <3>2, <3>3, <3>4
  <2>4. QED
    BY <2>1, <2>2, <2>3 DEF ItemsAgree, IsChange
<1>17. StaleOK'
  <2>1. ASSUME NEW k \in DOMAIN log, IsStale(log[k])
        PROVE  StaleFits(k)'
    <3>1. StaleFits(k)
      BY <1>4, <2>1 DEF AgreeParts, StaleOK
    <3>2. QED
      BY <1>3, <1>4, <1>10, <3>1 DEF StaleFits, IsChange, IsStale
  <2>2. QED
    BY <1>3, <1>4, <2>1 DEF StaleOK, IsStale
<1>18. Room'
  BY <1>3, <1>5 DEF Room, IsMerge
<1>19. LeavesFirst'
  BY <1>3, <1>6, <1>8 DEF AgreeParts, LeavesFirst, IsMerge, AllItems, IsNew, MergeItems
<1>20. MadeFirst'
  BY <1>3, <1>6 DEF MadeFirst, IsNew
<1>21. QED
  BY <1>12, <1>13, <1>14, <1>15, <1>16, <1>17, <1>18, <1>19, <1>20 DEF AgreeParts


\* A merge that is logged: its items were in no node, and it makes at most a
\* node of a frame that no node has.
LEMMA JoinAgree ==
  ASSUME JointInv, AgreeParts, hphase = "offload", UNCHANGED hostVars,
         errs = {}, errs' = {},
         NEW r \in LogRec, IsMerge(r), log' = Append(log, r),
         \A i \in MergeItems(r) :
           /\ rmap_tree[i].state \notin {"Stable", "Absent"} /\ rmap_tree'[i].state = "Stable",
         \A i \in Items : i \notin MergeItems(r) => rmap_tree'[i] = rmap_tree[i],
         \A m \in NodeIds : Live(m) => Live(m)' /\ node'[m].pfn = node[m].pfn,
         \A m \in NodeIds : Live(m)' =>
           \/ Live(m)
           \/ /\ IsNew(r) /\ rmap_tree'[r.from].stable_node = m
              /\ node'[m].pfn \notin hnode
              /\ \A j \in NodeIds : Live(j) => node[j].pfn # node'[m].pfn,
         r.type = "STABLE_MERGE" =>
           Cardinality({i \in Items : i \notin MergeItems(r) /\ Believed(i, r.kpfn)})
             < MAX_PAGE_SHARING,
         IsNew(r) => \A i \in Items :
           (rmap_tree'[i].state = "Stable"
              /\ rmap_tree'[i].stable_node = rmap_tree'[r.from].stable_node) =>
             i \in MergeItems(r)
  PROVE  AgreeParts'
<1>1. PICK here : here = Len(log) + 1
  OBVIOUS
<1>2. /\ Todo = DOMAIN log /\ Todo' = DOMAIN log' /\ OpenErrs = {} /\ OpenErrs' = {}
      /\ map' = map /\ hitem' = hitem /\ hnode' = hnode /\ shadow' = shadow
      /\ hphase' = "offload"
  BY OffloadSides
<1>3. /\ \A k \in DOMAIN log : k \in DOMAIN log' /\ log'[k] = log[k] /\ k \in Int /\ k < here
      /\ \A k \in DOMAIN log' : k \in DOMAIN log \/ (k = here /\ log'[k] = r)
      /\ here \in DOMAIN log' /\ log'[here] = r /\ here \notin DOMAIN log /\ here \in Int
  BY <1>1, LogGrows DEF JointInv, ServerInv, TypeOK
<1>4. /\ \A k \in DOMAIN log :
           /\ log[k].from \in Items
           /\ \A i \in MergeItems(log[k]) : rmap_tree[i].state = "Stable"
           /\ IsNew(log[k]) => log[k].from \in MergeItems(log[k])
      /\ \A i \in Items : rmap_tree[i].state = "Stable" =>
           rmap_tree[i].stable_node \in NodeIds /\ Live(rmap_tree[i].stable_node)
  BY OffloadItems
<1>5. \A k \in DOMAIN log : \A i \in MergeItems(log[k]) : i \notin MergeItems(r)
  BY <1>4
<1>6. ~IsChange(r) /\ ~IsStale(r) /\ r.from \in MergeItems(r) /\ MergeItems(r) \subseteq Items
  BY LogTypes DEF IsMerge, IsChange, IsStale, MergeItems
<1>7. \A i \in Items : i \notin MergeItems(r) => \A p : Believed(i, p)' => Believed(i, p)
  BY <1>4 DEF Believed
<1>8. KnownListed'
  BY <1>2 DEF AgreeParts, KnownListed
<1>9. UniqueFrames'
  BY DEF AgreeParts, UniqueFrames
<1>10. NodesReal'
  <2>1. ASSUME NEW m \in NodeIds, Live(m)'
        PROVE  node'[m].pfn \in hnode \/ NewNode(m)'
    <3>1. CASE Live(m)
      <4>1. ~UndoneNode(m)
        BY <1>2 DEF UndoneNode
      <4>2. CASE NewNode(m)
        <5>1. PICK k \in DOMAIN log : IsNew(log[k]) /\ rmap_tree[log[k].from].stable_node = m
          BY <1>2, <4>2 DEF NewNode
        <5>2. log[k].from \notin MergeItems(r) /\ log[k].from \in Items
          BY <1>4, <1>5, <5>1
        <5>3. k \in DOMAIN log' /\ IsNew(log'[k]) /\ rmap_tree'[log'[k].from].stable_node = m
          BY <1>3, <5>1, <5>2
        <5>4. QED
          BY <1>2, <5>3 DEF NewNode, IsNew
      <4>3. QED
        BY <3>1, <4>1, <4>2 DEF AgreeParts, NodesReal
    <3>2. CASE IsNew(r) /\ rmap_tree'[r.from].stable_node = m
      BY <1>2, <1>3, <3>2 DEF NewNode, IsNew
    <3>3. QED
      BY <2>1, <3>1, <3>2
  <2>2. QED
    BY <1>2, <2>1 DEF NodesReal
<1>11. ErrHeads'
  BY <1>2 DEF ErrHeads
<1>12. ItemsAgree'
  <2>1. \A k \in Todo' : IsChange(log'[k]) =>
          hitem'[log'[k].from].stable /\ hitem'[log'[k].from].head = log'[k].kpfn
    BY <1>2, <1>3, <1>6 DEF AgreeParts, ItemsAgree
  <2>2. \A i : ~Undone(i, OpenErrs) /\ ~Undone(i, OpenErrs)'
    BY <1>2 DEF Undone
  <2>3. \A i : WillLeave(i)' <=> WillLeave(i)
    <3>1. \A k \in DOMAIN log' : ~IsMerge(log'[k]) => k \in DOMAIN log
      BY <1>3
    <3>2. QED
      BY <1>2, <1>3, <3>1 DEF WillLeave, IsMerge
  <2>4. \A i : WillJoin(i)' <=> WillJoin(i) \/ i \in MergeItems(r)
    BY <1>2, <1>3 DEF WillJoin, MergeItems
  <2>5. ASSUME NEW i \in Items, ~WillLeave(i)
        PROVE  IF WillJoin(i)' THEN ~hitem'[i].stable
               ELSE /\ hitem'[i].stable <=> (rmap_tree'[i].state = "Stable" /\ ~Undone(i, OpenErrs)')
                    /\ hitem'[i].stable => hitem'[i].head = node'[rmap_tree'[i].stable_node].pfn
    <3>1. IF WillJoin(i) THEN ~hitem[i].stable
          ELSE /\ hitem[i].stable <=> (rmap_tree[i].state = "Stable" /\ ~Undone(i, OpenErrs))
               /\ hitem[i].stable => hitem[i].head = node[rmap_tree[i].stable_node].pfn
      BY <2>5 DEF AgreeParts, ItemsAgree
    <3>2. CASE i \in MergeItems(r)
      <4>1. ~WillJoin(i)
        BY <1>2, <1>5, <3>2 DEF WillJoin
      <4>2. QED
        BY <1>2, <2>4, <3>1, <3>2, <4>1
    <3>3. CASE i \notin MergeItems(r) /\ WillJoin(i)
      BY <1>2, <2>4, <3>1, <3>3
    <3>4. CASE i \notin MergeItems(r) /\ ~WillJoin(i)
      <4>1. rmap_tree[i].state = "Stable" =>
              node'[rmap_tree[i].stable_node].pfn = node[rmap_tree[i].stable_node].pfn
        BY <1>4
      <4>2. QED
        BY <1>2, <2>2, <2>4, <3>1, <3>4, <4>1
    <3>5. QED
      BY <3>2, <3>3, <3>4
  <2>6. QED
    BY <2>1, <2>3, <2>5 DEF ItemsAgree, IsChange
<1>13. StaleOK'
  <2>1. ASSUME NEW k \in DOMAIN log, IsStale(log[k])
        PROVE  StaleFits(k)'
    <3>1. PICK y : y = log[k].from
      OBVIOUS
    <3>2. PICK p : p = log[k].kpfn
      OBVIOUS
    <3>3. StaleFits(k)
      BY <1>2, <2>1 DEF AgreeParts, StaleOK
    <3>4. /\ shadow[y] # NoPfn /\ hitem[y].head = p /\ p \in hnode
          /\ \A i \in Items : map[i] # p
          /\ \A m \in NodeIds : Live(m) => node[m].pfn # p
          /\ \A i \in Items : (hitem[i].stable /\ hitem[i].head = p) =>
               \/ i = y
               \/ \E l \in DOMAIN log : l < k /\ IsChange(log[l]) /\ log[l].from = i
          /\ \A l \in DOMAIN log : (l # k /\ IsStale(log[l])) => log[l].kpfn # p
      BY <1>2, <3>1, <3>2, <3>3 DEF StaleFits
    <3>5. y = log'[k].from /\ p = log'[k].kpfn
      BY <1>3, <3>1, <3>2
    <3>6. /\ shadow'[y] # NoPfn /\ hitem'[y].head = p /\ p \in hnode'
          /\ \A i \in Items : map'[i] # p
          /\ \A m \in NodeIds : Live(m)' => node'[m].pfn # p
      BY <1>2, <3>4
    <3>7. \A i \in Items : (hitem'[i].stable /\ hitem'[i].head = p) =>
            \/ i = y
            \/ \E l \in DOMAIN log' : l < k /\ IsChange(log'[l]) /\ log'[l].from = i
      BY <1>2, <1>3, <3>4
    <3>8. \A l \in DOMAIN log' : (l # k /\ IsStale(log'[l])) => log'[l].kpfn # p
      BY <1>3, <1>6, <3>4
    <3>9. QED
      BY <1>2, <3>5, <3>6, <3>7, <3>8 DEF StaleFits, IsChange, IsStale
  <2>2. ASSUME NEW k \in DOMAIN log', IsStale(log'[k]) PROVE StaleFits(k)'
    BY <1>3, <1>6, <2>1, <2>2
  <2>3. QED
    BY <1>2, <2>2 DEF StaleOK, IsStale
<1>14. Room'
  <2>1. ASSUME NEW k \in DOMAIN log, log[k].type = "STABLE_MERGE", NEW i \in AtMerge(k)'
        PROVE  i \in AtMerge(k)
    <3>1. PICK p : p = log[k].kpfn
      OBVIOUS
    <3>2. /\ i \in Items
          /\ \/ /\ Believed(i, p)'
                /\ \A l \in DOMAIN log' : l >= k => i \notin MergeItems(log'[l])
             \/ \E l \in DOMAIN log' :
                  l >= k /\ IsChange(log'[l]) /\ log'[l].from = i /\ log'[l].kpfn = p
      BY <1>3, <2>1, <3>1 DEF AtMerge, Believed, MergeItems, IsChange
    <3>3. CASE /\ Believed(i, p)'
               /\ \A l \in DOMAIN log' : l >= k => i \notin MergeItems(log'[l])
      <4>1. here >= k
        BY <1>3
      <4>2. i \notin MergeItems(r)
        BY <1>3, <3>3, <4>1
      <4>3. Believed(i, p)
        BY <1>7, <3>2, <3>3, <4>2
      <4>4. \A l \in DOMAIN log : l >= k => i \notin MergeItems(log[l])
        BY <1>3, <3>3
      <4>5. QED
        BY <3>1, <3>2, <4>3, <4>4 DEF AtMerge
    <3>4. ASSUME NEW l \in DOMAIN log', l >= k, IsChange(log'[l]), log'[l].from = i,
                 log'[l].kpfn = p
          PROVE  i \in AtMerge(k)
      BY <1>3, <1>6, <3>1, <3>2, <3>4 DEF AtMerge
    <3>5. QED
      BY <3>2, <3>3, <3>4
  <2>2. ASSUME NEW k \in DOMAIN log, log[k].type = "STABLE_MERGE"
        PROVE  Cardinality(AtMerge(k)') < MAX_PAGE_SHARING
    <3>1. AtMerge(k)' \subseteq AtMerge(k) /\ AtMerge(k) \subseteq Items
      BY <2>1, <2>2 DEF AtMerge
    <3>2. Cardinality(AtMerge(k)) < MAX_PAGE_SHARING
      BY <2>2 DEF AgreeParts, Room
    <3>3. QED
      BY <3>1, <3>2, FewerItems
  <2>3. ASSUME r.type = "STABLE_MERGE"
        PROVE  Cardinality(AtMerge(here)') < MAX_PAGE_SHARING
    <3>1. PICK T : T = {i \in Items : i \notin MergeItems(r) /\ Believed(i, r.kpfn)}
      OBVIOUS
    <3>2. ASSUME NEW i \in AtMerge(here)' PROVE i \in T
      <4>1. /\ i \in Items
            /\ \/ /\ Believed(i, r.kpfn)'
                  /\ \A l \in DOMAIN log' : l >= here => i \notin MergeItems(log'[l])
               \/ \E l \in DOMAIN log' : l >= here /\ IsChange(log'[l])
        BY <1>3, <3>2 DEF AtMerge, Believed, MergeItems, IsChange
      <4>2. \A l \in DOMAIN log' : l >= here => l = here /\ ~IsChange(log'[l])
        BY <1>3, <1>6
      <4>3. here >= here
        BY <1>3
      <4>4. i \notin MergeItems(r) /\ Believed(i, r.kpfn)'
        BY <1>3, <4>1, <4>2, <4>3
      <4>5. QED
        BY <1>7, <3>1, <4>1, <4>4
    <3>3. AtMerge(here)' \subseteq T /\ T \subseteq Items
      BY <3>1, <3>2
    <3>4. Cardinality(T) < MAX_PAGE_SHARING
      BY <2>3, <3>1
    <3>5. QED
      BY <3>3, <3>4, FewerItems
  <2>4. ASSUME NEW k \in DOMAIN log', log'[k].type = "STABLE_MERGE"
        PROVE  Cardinality(AtMerge(k)') < MAX_PAGE_SHARING
    <3>1. CASE k \in DOMAIN log
      BY <1>3, <2>2, <2>4, <3>1
    <3>2. CASE k = here
      BY <1>3, <2>3, <2>4, <3>2
    <3>3. QED
      BY <1>3, <3>1, <3>2
  <2>5. QED
    BY <2>4 DEF Room
<1>15. LeavesFirst'
  <2>1. ASSUME NEW k \in DOMAIN log', NEW l \in DOMAIN log', k < l, ~IsMerge(log'[l])
        PROVE  log'[l].from \notin AllItems(log'[k])
    <3>1. l \in DOMAIN log
      BY <1>3, <2>1
    <3>2. k \in DOMAIN log
      BY <1>3, <2>1, <3>1
    <3>3. QED
      BY <1>3, <2>1, <3>1, <3>2 DEF AgreeParts, LeavesFirst
  <2>2. ASSUME NEW k \in DOMAIN log', ~IsMerge(log'[k]),
               rmap_tree'[log'[k].from].state = "Stable"
        PROVE  \E l \in DOMAIN log' : k < l /\ log'[k].from \in MergeItems(log'[l])
    <3>1. k \in DOMAIN log
      BY <1>3, <2>2
    <3>2. log'[k] = log[k] /\ log[k].from \in Items /\ k < here
      BY <1>3, <1>4, <3>1
    <3>3. CASE log[k].from \in MergeItems(r)
      BY <1>3, <3>2, <3>3
    <3>4. CASE log[k].from \notin MergeItems(r)
      <4>1. rmap_tree[log[k].from].state = "Stable"
        BY <2>2, <3>2, <3>4
      <4>2. PICK l \in DOMAIN log : k < l /\ log[k].from \in MergeItems(log[l])
        BY <2>2, <3>1, <3>2, <4>1 DEF AgreeParts, LeavesFirst
      <4>3. QED
        BY <1>3, <3>2, <4>2
    <3>5. QED
      BY <3>3, <3>4
  <2>3. QED
    BY <2>1, <2>2 DEF LeavesFirst, IsMerge, AllItems, IsNew, MergeItems
<1>16. MadeFirst'
  <2>1. ASSUME NEW l \in DOMAIN log', IsNew(log'[l]), NEW i \in Items,
               rmap_tree'[i].state = "Stable",
               rmap_tree'[i].stable_node = rmap_tree'[log'[l].from].stable_node
        PROVE  \E k \in DOMAIN log' : k >= l /\ i \in MergeItems(log'[k])
    <3>1. CASE i \in MergeItems(r)
      <4>1. here >= l
        BY <1>3
      <4>2. QED
        BY <1>3, <3>1, <4>1
    <3>2. CASE i \notin MergeItems(r)
      <4>1. l \in DOMAIN log /\ log'[l] = log[l]
        BY <1>3, <2>1, <3>2
      <4>2. log[l].from \in Items /\ log[l].from \notin MergeItems(r)
        BY <1>4, <1>5, <2>1, <4>1
      <4>3. /\ rmap_tree[i].state = "Stable"
            /\ rmap_tree[i].stable_node = rmap_tree[log[l].from].stable_node
        BY <2>1, <3>2, <4>1, <4>2
      <4>4. PICK k \in DOMAIN log : k >= l /\ i \in MergeItems(log[k])
        BY <2>1, <4>1, <4>3 DEF AgreeParts, MadeFirst
      <4>5. QED
        BY <1>3, <4>4
    <3>3. QED
      BY <3>1, <3>2
  <2>2. QED
    BY <2>1 DEF MadeFirst, IsNew, MergeItems
<1>17. QED
  BY <1>8, <1>9, <1>10, <1>11, <1>12, <1>13, <1>14, <1>15, <1>16 DEF AgreeParts


\* A merge with a stable node, which has room by the server's count.
LEMMA MergeWithStableAgree ==
  ASSUME JointInv, AgreeParts, hphase = "offload", UNCHANGED hostVars, MergeWithStable
  PROVE  AgreeParts'
<1>1. PICK x : x = page.item
  OBVIOUS
<1>2. /\ x \in Items /\ rmap_tree[x].state = "Volatile" /\ errs = {} /\ errs' = errs
  BY <1>1, InHand DEF JointInv, MergeWithStable, scanRest
<1>3. PICK n \in cmp_with_stable(page.hash) :
         /\ node' = insert_item_to_node(node, n, x)
         /\ rmap_tree' = [rmap_tree EXCEPT ![x] = ItemInNode(rmap_tree[x], node, n)]
         /\ log' = Append(log, log_stable_merge(x, n))
  BY <1>1 DEF MergeWithStable
<1>4. n \in NodeIds /\ Live(n) /\ node[n].shared_cnt < MAX_PAGE_SHARING
  BY DEF cmp_with_stable, Chain, Live
<1>5. node \in [NodeIds -> NodeRec] /\ rmap_tree \in [Items -> ItemRec]
  BY DEF JointInv, ServerInv, TypeOK
<1>6. PICK r : r = log_stable_merge(x, n)
  OBVIOUS
<1>7. /\ r \in LogRec /\ r.type = "STABLE_MERGE" /\ r.from = x /\ r.kpfn = node[n].pfn
  <2>1. node[n].pfn \in Pfns \cup {NoPfn}
    BY <1>4, <1>5 DEF NodeRec
  <2>2. QED
    BY <1>2, <1>6, <2>1 DEF log_stable_merge, LogRec
<1>8. MergeItems(r) = {x} /\ IsMerge(r) /\ ~IsNew(r) /\ log' = Append(log, r)
  BY <1>3, <1>6, <1>7 DEF MergeItems, IsMerge, IsNew
<1>9. /\ rmap_tree'[x].state = "Stable"
      /\ \A i \in Items : i # x => rmap_tree'[i] = rmap_tree[i]
  <2>1. rmap_tree'[x] = ItemInNode(rmap_tree[x], node, n)
    BY <1>2, <1>3, <1>5
  <2>2. rmap_tree[x] \in ItemRec
    BY <1>2, <1>5
  <2>3. ItemInNode(rmap_tree[x], node, n).state = "Stable"
    BY <2>2 DEF ItemInNode, ItemRec
  <2>4. QED
    BY <1>3, <1>5, <2>1, <2>3
<1>10. \A m \in NodeIds : (Live(m)' <=> Live(m)) /\ node'[m].pfn = node[m].pfn
  BY <1>3, <1>4, <1>5 DEF insert_item_to_node, NodeRec, Live
<1>11. Cardinality({i \in Items : i \notin MergeItems(r) /\ Believed(i, r.kpfn)})
         < MAX_PAGE_SHARING
  <2>1. \A i \in Items : Believed(i, node[n].pfn) => i \in node[n].sharing
    <3>1. \A i \in Items : rmap_tree[i].state = "Stable" =>
            /\ rmap_tree[i].stable_node \in NodeIds /\ Live(rmap_tree[i].stable_node)
            /\ i \in node[rmap_tree[i].stable_node].sharing
      BY DEF JointInv, ServerInv, StructInv, SharingConsistent
    <3>2. \A m \in NodeIds : (m # n /\ Live(m)) => node[m].pfn # node[n].pfn
      BY <1>4 DEF AgreeParts, UniqueFrames
    <3>3. QED
      BY <3>1, <3>2 DEF Believed
  <2>2. PICK S : S = node[n].sharing
    OBVIOUS
  <2>3. S \in SUBSET Items
    BY <1>4, <1>5, <2>2 DEF NodeRec
  <2>4. Cardinality(S) < MAX_PAGE_SHARING
    BY <1>4, <2>2 DEF JointInv, ServerInv, StructInv, CountsExact
  <2>5. {i \in Items : i \notin MergeItems(r) /\ Believed(i, r.kpfn)} \subseteq S
    BY <1>7, <2>1, <2>2
  <2>6. QED
    BY <2>3, <2>4, <2>5, FewerItems
<1>12. \A i \in MergeItems(r) :
         /\ rmap_tree[i].state \notin {"Stable", "Absent"} /\ rmap_tree'[i].state = "Stable"
  BY <1>2, <1>8, <1>9
<1>13. \A i \in Items : i \notin MergeItems(r) => rmap_tree'[i] = rmap_tree[i]
  BY <1>8, <1>9
<1>14. \A m \in NodeIds : Live(m) => Live(m)' /\ node'[m].pfn = node[m].pfn
  BY <1>10
<1>15. \A m \in NodeIds : Live(m)' => Live(m)
  BY <1>10
<1>16. QED
  BY <1>2, <1>7, <1>8, <1>11, <1>12, <1>13, <1>14, <1>15, JoinAgree

\* A node made of two pages gets the frame of an anonymous page, which is the
\* frame of no other node, made or to be made.
LEMMA MergeWithUnstableAgree ==
  ASSUME JointInv, AgreeParts, hphase = "offload", UNCHANGED hostVars, MergeWithUnstable
  PROVE  AgreeParts'
<1>1. PICK x : x = page.item
  OBVIOUS
<1>2. PICK h : h = page.hash
  OBVIOUS
<1>3. PICK j : j = unstable_hash_table[h]
  OBVIOUS
<1>4. PICK n : n = created + 1
  OBVIOUS
<1>5. PICK p : p = rmap_tree[x].pfn
  OBVIOUS
<1>6. /\ page # NoPage /\ x \in Items /\ x \in present /\ h \in Hashes
      /\ rmap_tree[x].state = "Volatile" /\ rmap_tree[x] \in ItemRec /\ errs = {}
  BY <1>1, <1>2, InHand DEF JointInv, MergeWithUnstable
<1>7. PICK new : new = [page_hash |-> h, pfn |-> p, chain |-> ChainFor(n, h),
                        sharing |-> {}, shared_cnt |-> 0]
  OBVIOUS
<1>8. PICK nd : nd = [node EXCEPT ![n] = new]
  OBVIOUS
<1>9. PICK nd1 : nd1 = insert_item_to_node(nd, n, j)
  OBVIOUS
<1>10. /\ j # NoItem /\ created < MaxNodes /\ rmap_tree[x].old_hash = h /\ errs' = errs
       /\ node' = insert_item_to_node(nd1, n, x)
       /\ log' = Append(log, log_unstable_merge(x, j))
  BY <1>1, <1>2, <1>3, <1>4, <1>5, <1>7, <1>8, <1>9 DEF MergeWithUnstable, curr, scanRest
<1>11. /\ node \in [NodeIds -> NodeRec] /\ rmap_tree \in [Items -> ItemRec]
       /\ created \in 0 .. MaxNodes /\ unstable_hash_table \in [Hashes -> Items \cup {NoItem}]
  BY DEF JointInv, ServerInv, TypeOK
<1>12. j \in Items /\ rmap_tree[j].state = "Unstable" /\ j \in present /\ rmap_tree[j] \in ItemRec
  BY <1>3, <1>6, <1>10, <1>11 DEF JointInv, ServerInv, UnstableExact
<1>13. rmap_tree' = [rmap_tree EXCEPT ![j] = ItemInNode(rmap_tree[j], nd, n),
                                      ![x] = ItemInNode(rmap_tree[x], nd, n)]
  <2>1. j # x
    BY <1>6, <1>12
  <2>2. QED
    BY <1>1, <1>2, <1>3, <1>4, <1>5, <1>7, <1>8, <2>1 DEF MergeWithUnstable, curr
<1>14. n \in NodeIds
  BY <1>4, <1>10, <1>11, ServerAssumption DEF NodeIds
<1>15. new.pfn = p /\ new.chain = ChainFor(n, h)
  BY <1>7
<1>16. /\ node'[n].pfn = p
       /\ \A m \in NodeIds : m # n => node'[m] = node[m]
  <2>1. nd[n].pfn = p /\ \A m \in NodeIds : m # n => nd[m] = node[m]
    BY <1>8, <1>11, <1>14, <1>15
  <2>2. DOMAIN nd = NodeIds /\ DOMAIN nd1 = NodeIds
    BY <1>8, <1>9, <1>11 DEF insert_item_to_node
  <2>3. nd1[n].pfn = p /\ \A m \in NodeIds : m # n => nd1[m] = node[m]
    BY <1>9, <1>14, <2>1, <2>2 DEF insert_item_to_node
  <2>4. QED
    BY <1>10, <1>14, <2>2, <2>3 DEF insert_item_to_node
<1>17. /\ rmap_tree'[x].stable_node = n /\ rmap_tree'[x].state = "Stable"
       /\ rmap_tree'[j].state = "Stable"
       /\ \A i \in Items : (i # x /\ i # j) => rmap_tree'[i] = rmap_tree[i]
  <2>1. /\ rmap_tree'[x] = ItemInNode(rmap_tree[x], nd, n)
        /\ x # j => rmap_tree'[j] = ItemInNode(rmap_tree[j], nd, n)
    BY <1>6, <1>11, <1>12, <1>13
  <2>2. /\ ItemInNode(rmap_tree[x], nd, n).stable_node = n
        /\ ItemInNode(rmap_tree[x], nd, n).state = "Stable"
        /\ ItemInNode(rmap_tree[j], nd, n).state = "Stable"
    BY <1>6, <1>12 DEF ItemInNode, ItemRec
  <2>3. QED
    BY <1>6, <1>11, <1>12, <1>13, <2>1, <2>2
<1>18. PICK r : r = log_unstable_merge(x, j)
  OBVIOUS
<1>19. /\ r \in LogRec /\ r.type = "UNSTABLE_MERGE" /\ r.from = x /\ MergeItems(r) = {x, j}
       /\ IsMerge(r) /\ IsNew(r) /\ log' = Append(log, r)
  <2>1. r \in LogRec
    BY <1>6, <1>12, <1>18 DEF log_unstable_merge, LogRec
  <2>2. r.type = "UNSTABLE_MERGE" /\ r.from = x /\ r.to = j
    BY <1>18 DEF log_unstable_merge
  <2>3. QED
    BY <1>10, <1>18, <2>1, <2>2 DEF MergeItems, IsMerge, IsNew
<1>20. p = shadow[x] /\ p \in Pfns /\ frame[p] = "anon" /\ p # NoPfn
  <2>1. rmap_tree[x].old_hash # NullHash
    BY <1>6, <1>10, ServerAssumption
  <2>2. p = shadow[x]
    BY <1>1, <1>5, <1>6, <2>1 DEF JointInv, PageFrame, curr
  <2>3. shadow[x] # NoPfn /\ ~ListedKsm(x)
    BY <1>6, OffloadFacts
  <2>4. QED
    BY <1>6, <2>2, <2>3, FrameTypes DEF ListedKsm, JointInv, GuestInv
<1>21. p \notin hnode
  BY <1>20 DEF JointInv, FramesOK
<1>22. ASSUME NEW m \in NodeIds, Live(m) PROVE node[m].pfn # p
  <2>1. ~UndoneNode(m)
    BY <1>6, OffloadSides DEF UndoneNode
  <2>2. CASE node[m].pfn \in hnode
    BY <1>21, <2>2
  <2>3. CASE NewNode(m)
    <3>1. PICK k \in DOMAIN log : IsNew(log[k]) /\ rmap_tree[log[k].from].stable_node = m
      BY <2>3, OffloadSides DEF NewNode
    <3>2. log[k].from \in Items /\ rmap_tree[log[k].from].state = "Stable"
      BY <3>1, OffloadItems
    <3>3. node[m].pfn = shadow[log[k].from]
      BY <3>1 DEF JointInv, NewNodeFrames, IsNew, Believed
    <3>4. log[k].from # x
      BY <1>6, <3>2
    <3>5. QED
      BY <1>6, <1>20, <3>2, <3>3, <3>4 DEF JointInv, ListingExclusive
  <2>4. QED
    BY <1>22, <2>1, <2>2, <2>3 DEF AgreeParts, NodesReal
<1>23. ~Live(n)
  <2>1. node[n] = FreeNode
    BY <1>4, <1>11, <1>14 DEF JointInv, ServerInv, StructInv, NodesOK
  <2>2. QED
    BY <2>1 DEF Live, FreeNode
<1>24. \A m \in NodeIds : Live(m) => Live(m)' /\ node'[m].pfn = node[m].pfn
  BY <1>16, <1>23 DEF Live
<1>25. \A m \in NodeIds : Live(m)' =>
         \/ Live(m)
         \/ /\ IsNew(r) /\ rmap_tree'[r.from].stable_node = m
            /\ node'[m].pfn \notin hnode
            /\ \A l \in NodeIds : Live(l) => node[l].pfn # node'[m].pfn
  BY <1>16, <1>17, <1>19, <1>21, <1>22 DEF Live
<1>26. \A i \in Items :
         (rmap_tree'[i].state = "Stable"
            /\ rmap_tree'[i].stable_node = rmap_tree'[r.from].stable_node) =>
           i \in MergeItems(r)
  <2>1. ASSUME NEW i \in Items, i # x, i # j, rmap_tree[i].state = "Stable"
        PROVE  rmap_tree[i].stable_node # n
    <3>1. rmap_tree[i].stable_node \in NodeIds /\ Live(rmap_tree[i].stable_node)
      BY <2>1, OffloadItems
    <3>2. QED
      BY <1>23, <3>1
  <2>2. QED
    BY <1>17, <1>19, <2>1
<1>27. \A i \in MergeItems(r) :
         /\ rmap_tree[i].state \notin {"Stable", "Absent"} /\ rmap_tree'[i].state = "Stable"
  BY <1>6, <1>12, <1>17, <1>19
<1>28. \A i \in Items : i \notin MergeItems(r) => rmap_tree'[i] = rmap_tree[i]
  BY <1>17, <1>19
<1>29. errs' = {} /\ r.type # "STABLE_MERGE"
  BY <1>6, <1>10, <1>19
<1>30. QED
  BY <1>6, <1>19, <1>24, <1>25, <1>26, <1>27, <1>28, <1>29, JoinAgree

\* Every step of the server.
LEMMA ServerAgree ==
  ASSUME JointInv, AgreeParts, ServerWorks
  PROVE  AgreeParts'
<1>1. hphase = "offload" /\ UNCHANGED hostVars
  BY DEF ServerWorks
<1>2. CASE HandleError
  <2>1. PICK e \in errs : (MergeOneFailed(e) \/ MergeTwoFailed(e)) /\ errs' = errs \ {e}
    BY <1>2 DEF HandleError
  <2>2. created' = created /\ clashed' = clashed
    BY <1>2 DEF HandleError
  <2>3. QED
    BY <1>1, <2>1, <2>2, MergeOneAgree, MergeTwoAgree
<1>3. CASE \E i \in todo : lookup_rmap_item(i, shadow[i], content[shadow[i]])
  BY <1>1, <1>3, LookupAgree
<1>4. CASE cmp_and_merge_one
  BY <1>1, <1>4, StableMovedAgree, StableRekeyedAgree, SmallStepsAgree, MergeWithStableAgree,
     MergeWithUnstableAgree DEF cmp_and_merge_one
<1>5. CASE prune_metadata
  BY <1>1, <1>5, PruneMetadataAgree
<1>6. CASE prune_rmap_tree
  BY <1>1, <1>6, NothingPruned
<1>7. CASE SendResult
  BY <1>1, <1>7, SendResultAgree
<1>8. QED
  BY <1>2, <1>3, <1>4, <1>5, <1>6, <1>7 DEF ServerWorks

-----------------------------------------------------------------------------
(***************************************************************************)
(* The theorems                                                            *)
(***************************************************************************)

\* Neither side has an item when the address space is first listed.
LEMMA InitAgree == SystemInit => AgreeInv
<1> SUFFICES ASSUME SystemInit PROVE AgreeInv
  OBVIOUS
<1>1. /\ log = <<>> /\ hphase = "walk" /\ errtab = {}
      /\ \A i \in Items : rmap_tree[i] = AbsentItem /\ hitem[i] = NoHostItem
      /\ \A n \in NodeIds : node[n] = FreeNode
  BY DEF SystemInit, Init
<1>2. \A i \in Items : rmap_tree[i].state = "Absent" /\ ~hitem[i].alloc /\ ~hitem[i].stable
  BY <1>1 DEF AbsentItem, NoHostItem
<1>3. \A n \in NodeIds : ~Live(n)
  BY <1>1 DEF Live, FreeNode
<1>4. Todo = {} /\ OpenErrs = {} /\ DOMAIN log = {}
  BY <1>1 DEF Todo, OpenErrs
<1>5. KnownListed /\ UniqueFrames /\ NodesReal /\ ErrHeads
  BY <1>2, <1>3, <1>4 DEF KnownListed, UniqueFrames, NodesReal, ErrHeads
<1>6. ItemsAgree /\ StaleOK
  BY <1>2, <1>4 DEF ItemsAgree, StaleOK
<1>7. Room /\ LeavesFirst /\ MadeFirst
  BY <1>4 DEF Room, LeavesFirst, MadeFirst
<1>8. QED
  BY <1>1, <1>5, <1>6, <1>7 DEF AgreeInv, AgreeParts

\* That a page was given back is not forgotten.
LEMMA StaysDiscarded ==
  ASSUME [SystemNext]_sysVars, ~discarded'
  PROVE  ~discarded
<1>1. CASE UNCHANGED sysVars
  BY <1>1 DEF sysVars, hostVars, guestVars
<1>2. CASE GuestStep
  BY <1>2 DEF GuestStep, Write, Fault, Discard
<1>3. CASE HostStep
  BY <1>3 DEF HostStep, scan_pte_entry, NothingListed, rdma_send_metadata,
       recv_offload_result, destroy_metadata, apply_result, StableMergeSkipped,
       StableMergeDone, StableMergeFailed, UnstableMergeDone, UnstableMergeFailed,
       StaleStableNode, ItemStateChange, debug_stop, applyRest, guestVars
<1>4. CASE ServerWorks
  BY <1>4 DEF ServerWorks, hostVars, guestVars
<1>5. QED
  BY <1>1, <1>2, <1>3, <1>4 DEF SystemNext

\* Every step of guests, host and server keeps the two sides in step, and no
\* entry of the log stops the host.
LEMMA NextAgree ==
  ASSUME MAX_PAGE_SHARING <= ksm_max_page_sharing,
         JointInv, AgreeInv, [SystemNext]_sysVars
  PROVE  AgreeInv'
<1>1. SUFFICES ASSUME ~discarded' PROVE hphase' # "stopped" /\ (hphase' # "removed" => AgreeParts')
  BY DEF AgreeInv
<1>2. ~discarded
  BY <1>1, StaysDiscarded
<1>3. hphase # "stopped" /\ (hphase # "removed" => AgreeParts)
  BY <1>2 DEF AgreeInv
<1>4. CASE UNCHANGED sysVars
  <2>1. /\ UNCHANGED vars /\ map' = map /\ hitem' = hitem /\ hnode' = hnode /\ shadow' = shadow
        /\ hphase' = hphase /\ cursor' = cursor /\ applied' = applied /\ errtab' = errtab
    BY <1>4 DEF sysVars, hostVars, guestVars
  <2>2. rmap_tree' = rmap_tree /\ node' = node /\ log' = log /\ errs' = errs
    BY <2>1 DEF vars, scanVars, metaVars
  <2>3. Todo' = Todo /\ OpenErrs' = OpenErrs
    BY <2>1, <2>2 DEF Todo, Pending, OpenErrs
  <2>4. AgreeParts => AgreeParts'
    <3>1. SUFFICES ASSUME AgreeParts PROVE AgreeParts'
      OBVIOUS
    <3>2. UniqueFrames' /\ Room' /\ LeavesFirst' /\ MadeFirst'
      BY <2>2, <3>1, SameServer
    <3>3. NodesReal' /\ ErrHeads' /\ ItemsAgree' /\ StaleOK'
      BY <2>1, <2>2, <2>3, <3>1, SameSides
    <3>4. KnownListed'
      BY <2>1, <2>2, <3>1 DEF AgreeParts, KnownListed
    <3>5. QED
      BY <3>2, <3>3, <3>4 DEF AgreeParts
  <2>5. QED
    BY <1>3, <2>1, <2>4
<1>5. CASE GuestStep
  <2>1. hphase' = hphase
    BY <1>5 DEF GuestStep, Write, Fault, Discard, guestRest
  <2>2. QED
    BY <1>1, <1>3, <1>5, <2>1, GuestAgree
<1>6. CASE HostStep
  <2>1. CASE scan_pte_entry
    <3>1. hphase = "walk" /\ hphase' = "walk"
      BY <2>1 DEF scan_pte_entry
    <3>2. QED
      BY <1>3, <2>1, <3>1, ScanAgree
  <2>2. CASE NothingListed
    BY <2>2 DEF NothingListed
  <2>3. CASE rdma_send_metadata
    <3>1. hphase = "walk" /\ hphase' = "offload"
      BY <2>3 DEF rdma_send_metadata
    <3>2. QED
      BY <1>3, <2>3, <3>1, SendAgree
  <2>4. CASE recv_offload_result
    <3>1. hphase = "offload" /\ hphase' = "apply"
      BY <2>4 DEF recv_offload_result
    <3>2. QED
      BY <1>3, <2>4, <3>1, RecvAgree
  <2>5. CASE destroy_metadata
    <3>1. hphase = "apply" /\ hphase' = "walk"
      BY <2>5 DEF destroy_metadata
    <3>2. QED
      BY <1>3, <2>5, <3>1, DestroyAgree
  <2>6. CASE apply_result
    <3>1. hphase = "apply" /\ applied < Len(log)
      BY <2>6 DEF apply_result, StableMergeSkipped, StableMergeDone, StableMergeFailed,
           UnstableMergeDone, UnstableMergeFailed, StaleStableNode, ItemStateChange,
           debug_stop, Applying
    <3>2. AgreeParts
      BY <1>3, <3>1
    <3>3. ~debug_stop
      BY <3>1, <3>2, EntryFits DEF debug_stop
    <3>4. hphase' = hphase
      BY <2>6, <3>3 DEF apply_result, StableMergeSkipped, StableMergeDone, StableMergeFailed,
           UnstableMergeDone, UnstableMergeFailed, StaleStableNode, ItemStateChange, applyRest
    <3>5. AgreeParts'
      BY <2>6, <3>2, <3>3, SkippedAgree, StableMergeAgree, StableFailedAgree,
         UnstableMergeAgree, UnstableFailedAgree, StaleAgree, ItemStateChangeAgree
         DEF apply_result
    <3>6. QED
      BY <3>1, <3>4, <3>5
  <2>7. QED
    BY <1>6, <2>1, <2>2, <2>3, <2>4, <2>5, <2>6 DEF HostStep
<1>7. CASE ServerWorks
  <2>1. hphase = "offload" /\ hphase' = "offload"
    BY <1>7 DEF ServerWorks, hostVars
  <2>2. QED
    BY <1>3, <1>7, <2>1, ServerAgree
<1>8. QED
  BY <1>4, <1>5, <1>6, <1>7 DEF SystemNext

\* As long as no guest gives a page back, an item of the host is where the
\* server has it, but for what the log has still to move and what the host has
\* still to report: no order of writes, failures and rounds breaks this, if the
\* server fills no node beyond the host's limit.
THEOREM AgreeInvariant ==
  ASSUME MaxIteration <= ShortRange \div 2, MAX_PAGE_SHARING <= ksm_max_page_sharing
  PROVE  SystemSpec => []AgreeInv
<1>1. SystemInit => AgreeInv
  BY InitAgree
<1>2. JointInv /\ AgreeInv /\ [SystemNext]_sysVars => AgreeInv'
  BY NextAgree
<1>3. SystemSpec => []JointInv
  BY JointInvariant
<1>4. QED
  BY <1>1, <1>2, <1>3, PTL DEF SystemSpec

\* None of the checks of apply_result fails on any entry of any log (each ends
\* in DEBUG_ERR, which stops ksmd for good), whatever guests write and whichever
\* merges fail, as long as no guest gives a page back.
THEOREM LogFitsTheorem ==
  ASSUME MaxIteration <= ShortRange \div 2, MAX_PAGE_SHARING <= ksm_max_page_sharing
  PROVE  SystemSpec => []LogFitsHost
<1>1. AgreeInv => LogFitsHost
  BY DEF AgreeInv, LogFitsHost, HostNeverStops
<1>2. QED
  BY <1>1, AgreeInvariant, PTL

\* Between rounds the rmap items of the host and the rmap tree of the server
\* agree on which item is in the stable node of which frame, up to the failures
\* that the host reports with the next listing.
THEOREM AgreementTheorem ==
  ASSUME MaxIteration <= ShortRange \div 2, MAX_PAGE_SHARING <= ksm_max_page_sharing
  PROVE  SystemSpec => []SidesAgree
<1>1. ASSUME AgreeInv PROVE SidesAgree
  <2>1. SUFFICES ASSUME hphase = "walk", ~discarded, NEW i \in Items
                 PROVE  LET merged == rmap_tree[i].state = "Stable" /\ ~ToBeUndone(i)
                        IN  /\ hitem[i].stable <=> merged
                            /\ merged => hitem[i].head = node[rmap_tree[i].stable_node].pfn
    BY DEF SidesAgree
  <2>2. ItemsAgree
    BY <1>1, <2>1 DEF AgreeInv, AgreeParts
  <2>3. Todo = {} /\ OpenErrs = errtab
    BY <2>1 DEF Todo, OpenErrs
  <2>4. ~WillLeave(i) /\ ~WillJoin(i)
    BY <2>3 DEF WillLeave, WillJoin
  <2>5. Undone(i, OpenErrs) <=> ToBeUndone(i)
    BY <2>3 DEF Undone, ToBeUndone
  <2>6. QED
    BY <2>2, <2>4, <2>5 DEF ItemsAgree
<1>2. AgreeInv => SidesAgree
  BY <1>1
<1>3. QED
  BY <1>2, AgreeInvariant, PTL

-----------------------------------------------------------------------------
(***************************************************************************)
(* Equal pages get shared.                                                 *)
(*                                                                         *)
(* The argument.  In the first round that is quiet from its start every    *)
(* page is scanned once: a page that is in no node has its content as      *)
(* old_hash from then on, and a page that is in one is mapped to its frame *)
(* when the log has been carried out.  The last page of a chain that was   *)
(* scanned gave the chain its key, which is therefore the content of all   *)
(* pages of the chain, if they have one content.  In the second round a    *)
(* page that joins no node has found all nodes of its content full, and is *)
(* the only one of its content that is left.  Nothing leaves a node any    *)
(* more, so this stays.                                                    *)
(***************************************************************************)

\* For the server, page i is in a stable node.
InNode(i) == rmap_tree[i].state = "Stable"

NodeOf(i) == node[rmap_tree[i].stable_node]

ContentOf(i) == content[map[i]]

\* The server has finished with page i in this round.
ScannedNow(i) == hphase = "offload" /\ i \notin todo /\ i # page.item

\* Page i has been scanned in one round, or in two rounds, that were quiet from
\* their start.
SeenOnce(i) ==
  /\ map[i] # NoPfn
  /\ quiet >= 2 \/ (quiet = 1 /\ (hphase = "apply" \/ ScannedNow(i)))

SeenTwice(i) ==
  /\ map[i] # NoPfn
  /\ quiet >= 3 \/ (quiet = 2 /\ (hphase = "apply" \/ ScannedNow(i)))

\* The failures are handled in the first quiet round.
NoOpenErrs ==
  /\ (quiet >= 1 /\ hphase = "apply") => errtab = {}
  /\ quiet >= 2 => errtab = {} /\ (hphase = "offload" => errs = {})

\* The listing is the page table.
ListingExact ==
  quiet >= 1 =>
    /\ hphase = "walk" => \A i \in Items :
         /\ shadow[i] # NoPfn => shadow[i] = map[i]
         /\ (map[i] # NoPfn /\ i < cursor) => shadow[i] # NoPfn
    /\ hphase = "offload" => \A i \in Items : shadow[i] = map[i]
    /\ hphase = "removed" => \A i \in Items : map[i] = NoPfn

\* The hash of the page in hand is that of its content.
PageRead ==
  (quiet >= 1 /\ hphase = "offload" /\ page # NoPage) => page.hash = ContentOf(page.item)

\* A page of a node is mapped to its frame, or will be; another one has its
\* content remembered.
Placed ==
  \A i \in Items : SeenOnce(i) =>
    IF InNode(i) THEN map[i] = NodeOf(i).pfn \/ WillJoin(i)
    ELSE rmap_tree[i].state # "Absent" /\ rmap_tree[i].old_hash = ContentOf(i)

\* The second quiet round takes no page out of its node.
NoneLeaves == quiet >= 2 => \A k \in Todo : IsMerge(log[k])

\* The pages in the chain of page i that have been scanned have its content.
PureFor(i) ==
  \A j \in Items : (SeenOnce(j) /\ InNode(j) /\ NodeOf(j).chain = NodeOf(i).chain)
    => ContentOf(j) = ContentOf(i)

\* The key of a chain of one content is that content.
KeysRight ==
  \A i \in Items : (SeenOnce(i) /\ InNode(i) /\ PureFor(i)) =>
    NodeOf(i).page_hash = ContentOf(i)

\* In the second quiet round a page that joins no node becomes a candidate.
Candidates ==
  (quiet >= 2 /\ phase = "work") =>
    \A i \in Items : (ScannedNow(i) /\ map[i] # NoPfn /\ ~InNode(i)) =>
      rmap_tree[i].state = "Unstable"

\* Of two pages with one content, at most one has been left over ...
AloneOK ==
  \A i, j \in Items :
    (i # j /\ SeenTwice(i) /\ SeenTwice(j) /\ ~InNode(i) /\ ContentOf(i) = ContentOf(j))
      => InNode(j)

\* ... and only because the nodes of its content are full.
FullOK ==
  ~clashed => \A i, j \in Items :
    ( /\ SeenTwice(i) /\ ~InNode(i)
      /\ SeenOnce(j) /\ InNode(j) /\ PureFor(j) /\ ContentOf(i) = ContentOf(j) )
      => NodeOf(j).shared_cnt = MAX_PAGE_SHARING

\* After the second quiet round no page joins a chain of its content.
NoneJoins ==
  (quiet >= 3 /\ ~clashed) => \A i \in Items :
    (SeenOnce(i) /\ InNode(i) /\ PureFor(i)) => ~WillJoin(i)

SettledParts ==
  /\ PageRead /\ Placed /\ NoneLeaves /\ KeysRight
  /\ Candidates /\ AloneOK /\ FullOK /\ NoneJoins

QuietInv ==
  ~discarded =>
    /\ NoOpenErrs
    /\ ListingExact
    /\ hphase # "removed" => SettledParts

-----------------------------------------------------------------------------
(***************************************************************************)
(* What a step has to keep                                                 *)
(***************************************************************************)

\* Pages that have been scanned are mapped, and all mapped pages have been
\* after one or two quiet rounds.
LEMMA SeenFacts ==
  ASSUME SystemTypeOK
  PROVE  /\ quiet \in Nat
         /\ \A i : SeenOnce(i) => map[i] # NoPfn /\ quiet >= 1
         /\ \A i : SeenTwice(i) => map[i] # NoPfn /\ quiet >= 2 /\ SeenOnce(i)
         /\ \A i : (map[i] # NoPfn /\ quiet >= 2) => SeenOnce(i)
         /\ \A i : (map[i] # NoPfn /\ quiet >= 3) => SeenTwice(i)
<1>1. quiet \in Nat
  BY SystemAssumption DEF SystemTypeOK
<1>2. QED
  BY <1>1 DEF SeenOnce, SeenTwice

\* Without a quiet round behind it the system promises nothing.
LEMMA NotQuiet ==
  ASSUME SystemTypeOK, ~(quiet >= 1)
  PROVE  NoOpenErrs /\ ListingExact /\ SettledParts
<1>1. quiet \in Nat /\ \A i : ~SeenOnce(i) /\ ~SeenTwice(i)
  BY SeenFacts
<1>2. ~(quiet >= 2) /\ ~(quiet >= 3)
  BY <1>1
<1>3. NoOpenErrs /\ ListingExact /\ PageRead /\ NoneLeaves /\ Candidates /\ NoneJoins
  BY <1>2 DEF NoOpenErrs, ListingExact, PageRead, NoneLeaves, Candidates, NoneJoins
<1>4. Placed /\ KeysRight /\ AloneOK /\ FullOK
  BY <1>1 DEF Placed, KeysRight, AloneOK, FullOK
<1>5. QED
  BY <1>3, <1>4 DEF SettledParts

\* A step that scans no page: what has been scanned stays in its node or out of
\* one, and the nodes keep their chains, their keys and their counts.
SameSeen ==
  /\ \A i \in Items : (SeenOnce(i)' <=> SeenOnce(i)) /\ (SeenTwice(i)' <=> SeenTwice(i))
  /\ \A i \in Items : SeenOnce(i) =>
       /\ ContentOf(i)' = ContentOf(i)
       /\ InNode(i)' <=> InNode(i)
       /\ InNode(i) =>
            /\ NodeOf(i)'.chain = NodeOf(i).chain
            /\ NodeOf(i)'.page_hash = NodeOf(i).page_hash
            /\ quiet >= 2 => NodeOf(i)'.shared_cnt = NodeOf(i).shared_cnt
            /\ (map[i] = NodeOf(i).pfn \/ WillJoin(i)) =>
                 (map'[i] = NodeOf(i)'.pfn \/ WillJoin(i)')
       /\ ~InNode(i) =>
            /\ rmap_tree[i].state # "Absent" => rmap_tree'[i].state # "Absent"
            /\ rmap_tree'[i].old_hash = rmap_tree[i].old_hash
  /\ clashed' = clashed

LEMMA SamePure ==
  ASSUME SameSeen, NEW i \in Items, SeenOnce(i), InNode(i)
  PROVE  PureFor(i)' <=> PureFor(i)
<1>1. \A j \in Items : (SeenOnce(j) /\ InNode(j))' <=> (SeenOnce(j) /\ InNode(j))
  BY DEF SameSeen
<1>2. \A j \in Items : (SeenOnce(j) /\ InNode(j)) =>
        ContentOf(j)' = ContentOf(j) /\ NodeOf(j)'.chain = NodeOf(j).chain
  BY DEF SameSeen
<1>3. QED
  BY <1>1, <1>2 DEF PureFor

LEMMA SameSettled ==
  ASSUME SystemTypeOK, SettledParts, SameSeen
  PROVE  Placed' /\ KeysRight' /\ AloneOK' /\ FullOK'
<1>1. \A i \in Items : SeenTwice(i) => SeenOnce(i) /\ quiet >= 2
  BY SeenFacts
<1>2. Placed'
  <2>1. ASSUME NEW i \in Items, SeenOnce(i)'
        PROVE  IF InNode(i)' THEN map'[i] = NodeOf(i)'.pfn \/ WillJoin(i)'
               ELSE rmap_tree'[i].state # "Absent" /\ rmap_tree'[i].old_hash = ContentOf(i)'
    <3>1. SeenOnce(i)
      BY <2>1 DEF SameSeen
    <3>2. IF InNode(i) THEN map[i] = NodeOf(i).pfn \/ WillJoin(i)
          ELSE rmap_tree[i].state # "Absent" /\ rmap_tree[i].old_hash = ContentOf(i)
      BY <3>1 DEF SettledParts, Placed
    <3>3. QED
      BY <3>1, <3>2 DEF SameSeen
  <2>2. QED
    BY <2>1 DEF Placed
<1>3. KeysRight'
  <2>1. ASSUME NEW i \in Items, SeenOnce(i)', InNode(i)', PureFor(i)'
        PROVE  NodeOf(i)'.page_hash = ContentOf(i)'
    <3>1. SeenOnce(i) /\ InNode(i)
      BY <2>1 DEF SameSeen
    <3>2. PureFor(i)
      BY <2>1, <3>1, SamePure
    <3>3. NodeOf(i).page_hash = ContentOf(i)
      BY <3>1, <3>2 DEF SettledParts, KeysRight
    <3>4. QED
      BY <3>1, <3>3 DEF SameSeen
  <2>2. QED
    BY <2>1 DEF KeysRight
<1>4. AloneOK'
  <2>1. ASSUME NEW i \in Items, NEW j \in Items, i # j, SeenTwice(i)', SeenTwice(j)',
               ~InNode(i)', ContentOf(i)' = ContentOf(j)'
        PROVE  InNode(j)'
    <3>1. SeenTwice(i) /\ SeenTwice(j) /\ SeenOnce(i) /\ SeenOnce(j)
      BY <1>1, <2>1 DEF SameSeen
    <3>2. ~InNode(i) /\ ContentOf(i) = ContentOf(j)
      BY <2>1, <3>1 DEF SameSeen
    <3>3. InNode(j)
      BY <2>1, <3>1, <3>2 DEF SettledParts, AloneOK
    <3>4. QED
      BY <3>1, <3>3 DEF SameSeen
  <2>2. QED
    BY <2>1 DEF AloneOK
<1>5. FullOK'
  <2>1. ASSUME ~clashed', NEW i \in Items, NEW j \in Items, SeenTwice(i)', ~InNode(i)',
               SeenOnce(j)', InNode(j)', PureFor(j)', ContentOf(i)' = ContentOf(j)'
        PROVE  NodeOf(j)'.shared_cnt = MAX_PAGE_SHARING
    <3>1. SeenTwice(i) /\ SeenOnce(i) /\ SeenOnce(j) /\ quiet >= 2
      BY <1>1, <2>1 DEF SameSeen
    <3>2. ~InNode(i) /\ InNode(j) /\ ContentOf(i) = ContentOf(j) /\ ~clashed
      BY <2>1, <3>1 DEF SameSeen
    <3>3. PureFor(j)
      BY <2>1, <3>1, <3>2, SamePure
    <3>4. NodeOf(j).shared_cnt = MAX_PAGE_SHARING
      BY <3>1, <3>2, <3>3 DEF SettledParts, FullOK
    <3>5. QED
      BY <3>1, <3>2, <3>4 DEF SameSeen
  <2>2. QED
    BY <2>1 DEF FullOK
<1>6. QED
  BY <1>2, <1>3, <1>4, <1>5

\* The same when, besides, nothing is added to the log.
LEMMA SameJoins ==
  ASSUME SettledParts, SameSeen,
         \A i \in Items : SeenOnce(i) /\ WillJoin(i)' => WillJoin(i),
         quiet' >= 3 => quiet >= 3
  PROVE  NoneJoins'
<1>1. ASSUME quiet' >= 3, ~clashed', NEW i \in Items, SeenOnce(i)', InNode(i)', PureFor(i)',
             WillJoin(i)'
      PROVE  FALSE
  <2>1. SeenOnce(i) /\ InNode(i) /\ ~clashed
    BY <1>1 DEF SameSeen
  <2>2. PureFor(i)
    BY <1>1, <2>1, SamePure
  <2>3. ~WillJoin(i)
    BY <1>1, <2>1, <2>2 DEF SettledParts, NoneJoins
  <2>4. QED
    BY <1>1, <2>1, <2>3
<1>2. QED
  BY <1>1 DEF NoneJoins

\* A step that leaves the metadata, the log and the pages alone.
LEMMA SameAll ==
  ASSUME SystemTypeOK, SettledParts,
         rmap_tree' = rmap_tree, node' = node, clashed' = clashed, log' = log, Todo' = Todo,
         map' = map, content' = content, quiet' = quiet, hphase' = hphase,
         todo' = todo, page' = page, phase' = phase \/ phase' # "work"
  PROVE  SettledParts'
<1>1. \A i : WillJoin(i)' <=> WillJoin(i)
  BY DEF WillJoin, MergeItems
<1>2. \A i : /\ SeenOnce(i)' <=> SeenOnce(i)
             /\ SeenTwice(i)' <=> SeenTwice(i)
             /\ ScannedNow(i)' <=> ScannedNow(i)
  BY DEF SeenOnce, SeenTwice, ScannedNow
<1>3. \A i : ContentOf(i)' = ContentOf(i) /\ NodeOf(i)' = NodeOf(i) /\ (InNode(i)' <=> InNode(i))
  BY DEF ContentOf, NodeOf, InNode
<1>4. SameSeen
  BY <1>1, <1>2, <1>3 DEF SameSeen
<1>5. Placed' /\ KeysRight' /\ AloneOK' /\ FullOK'
  BY <1>4, SameSettled
<1>6. NoneJoins'
  BY <1>1, <1>4, SameJoins
<1>7. PageRead' /\ NoneLeaves' /\ Candidates'
  BY <1>2, <1>3 DEF SettledParts, PageRead, NoneLeaves, Candidates, IsMerge
<1>8. QED
  BY <1>5, <1>6, <1>7 DEF SettledParts

-----------------------------------------------------------------------------
(***************************************************************************)
(* The host's round, when all is quiet                                     *)
(***************************************************************************)

\* The walk lists the pages as they are.
LEMMA ScanQuiet ==
  ASSUME JointInv, NoOpenErrs, ListingExact, SettledParts, scan_pte_entry
  PROVE  NoOpenErrs' /\ ListingExact' /\ SettledParts'
<1>1. SystemTypeOK
  BY DEF JointInv, GuestInv
<1>2. /\ UNCHANGED vars /\ map' = map /\ content' = content /\ errtab' = errtab
      /\ hphase = "walk" /\ hphase' = "walk" /\ quiet' = quiet
      /\ cursor \in Items /\ cursor' = cursor + 1
  BY DEF scan_pte_entry, guestVars
<1>3. /\ rmap_tree' = rmap_tree /\ node' = node /\ clashed' = clashed /\ log' = log
      /\ todo' = todo /\ page' = page /\ phase' = phase
  BY <1>2 DEF vars, scanVars, metaVars
<1>4. Todo = {} /\ Todo' = {}
  BY <1>2 DEF Todo
<1>5. SettledParts'
  BY <1>1, <1>2, <1>3, <1>4, SameAll
<1>6. NoOpenErrs'
  BY <1>2 DEF NoOpenErrs
<1>7. \A i \in Items : shadow'[i] = IF i = cursor /\ map[i] # NoPfn THEN map[i] ELSE shadow[i]
  BY <1>1, <1>2 DEF scan_pte_entry, SystemTypeOK
<1>8. \A i \in Items : i \in Int
  BY FS_CardinalityType, ServerAssumption, SystemAssumption
<1>9. ASSUME quiet >= 1, NEW i \in Items
      PROVE  /\ shadow'[i] # NoPfn => shadow'[i] = map[i]
             /\ (map[i] # NoPfn /\ i < cursor + 1) => shadow'[i] # NoPfn
  <2>1. /\ shadow[i] # NoPfn => shadow[i] = map[i]
        /\ (map[i] # NoPfn /\ i < cursor) => shadow[i] # NoPfn
    BY <1>2, <1>9 DEF ListingExact
  <2>2. i < cursor + 1 => i < cursor \/ i = cursor
    BY <1>2, <1>8
  <2>3. QED
    BY <1>7, <2>1, <2>2
<1>10. ListingExact'
  BY <1>2, <1>9 DEF ListingExact
<1>11. QED
  BY <1>5, <1>6, <1>10

\* When the walk has ended, every page is listed as it is.
LEMMA WalkEndQuiet ==
  ASSUME JointInv, ListingExact, quiet >= 1, hphase = "walk", cursor \notin Items
  PROVE  \A i \in Items : shadow[i] = map[i]
<1>1. Items = 1 .. Cardinality(Items) /\ Cardinality(Items) \in Nat
  BY FS_CardinalityType, ServerAssumption, SystemAssumption
<1>2. cursor \in 1 .. Cardinality(Items) + 1
  BY DEF JointInv, RoundOK
<1>3. \A i \in Items : i < cursor
  <2> DEFINE N == Cardinality(Items)
  <2>1. N \in Nat /\ cursor \in 1 .. N + 1 /\ cursor \notin 1 .. N
    BY <1>1, <1>2
  <2>2. \A i \in 1 .. N : i < cursor
    <3> HIDE DEF N
    <3>1. QED
      BY <2>1
  <2>3. QED
    BY <1>1, <2>2
<1>4. QED
  BY <1>3 DEF ListingExact

\* A listing that is empty has no page to miss.
LEMMA NothingListedQuiet ==
  ASSUME JointInv, NoOpenErrs, ListingExact, NothingListed
  PROVE  NoOpenErrs' /\ ListingExact'
<1>1. /\ hphase = "walk" /\ hphase' = "removed" /\ cursor \notin Items /\ Listed = {}
      /\ quiet' = quiet /\ errtab' = errtab /\ map' = map
  BY DEF NothingListed, guestVars
<1>2. quiet >= 1 => \A i \in Items : map[i] = NoPfn
  BY <1>1, WalkEndQuiet DEF Listed
<1>3. QED
  BY <1>1, <1>2 DEF NoOpenErrs, ListingExact

\* The server starts a round: every page is still to be scanned.
LEMMA SendQuiet ==
  ASSUME JointInv, NoOpenErrs, ListingExact, SettledParts, rdma_send_metadata
  PROVE  NoOpenErrs' /\ ListingExact' /\ SettledParts'
<1>1. SystemTypeOK /\ ServerInv
  BY DEF JointInv, GuestInv
<1>2. /\ hphase = "walk" /\ hphase' = "offload" /\ cursor \notin Items /\ quiet' = quiet
      /\ errtab' = errtab /\ shadow' = shadow /\ map' = map /\ content' = content
      /\ phase = "wait" /\ todo' = Listed /\ errs' = errtab /\ log' = <<>>
      /\ page' = page /\ rmap_tree' = rmap_tree /\ node' = node /\ clashed' = clashed
  BY DEF rdma_send_metadata, guestVars, RecvMetadata, metaVars
<1>3. page = NoPage
  BY <1>1, <1>2 DEF ServerInv, PhaseOK
<1>4. Todo = {} /\ Todo' = {}
  BY <1>2 DEF Todo, Pending
<1>5. quiet >= 1 => \A i \in Items : shadow[i] = map[i]
  BY <1>2, WalkEndQuiet
<1>6. NoOpenErrs' /\ ListingExact'
  BY <1>2, <1>5 DEF NoOpenErrs, ListingExact
<1>7. quiet >= 1 => \A i \in Items : map[i] # NoPfn => ~ScannedNow(i)'
  BY <1>2, <1>5 DEF ScannedNow, Listed
<1>8. quiet \in Nat
  BY <1>1, SeenFacts
<1>9. \A i \in Items : (SeenOnce(i)' <=> SeenOnce(i)) /\ (SeenTwice(i)' <=> SeenTwice(i))
  <2>1. \A i : ~ScannedNow(i)
    BY <1>2 DEF ScannedNow
  <2>2. quiet = 1 \/ quiet = 2 => quiet >= 1
    OBVIOUS
  <2>3. QED
    BY <1>2, <1>7, <2>1, <2>2 DEF SeenOnce, SeenTwice
<1>10. \A i : ~WillJoin(i) /\ ~WillJoin(i)'
  BY <1>4 DEF WillJoin
<1>11. \A i : ContentOf(i)' = ContentOf(i) /\ NodeOf(i)' = NodeOf(i) /\ (InNode(i)' <=> InNode(i))
  BY <1>2 DEF ContentOf, NodeOf, InNode
<1>12. SameSeen
  BY <1>2, <1>9, <1>10, <1>11 DEF SameSeen
<1>13. Placed' /\ KeysRight' /\ AloneOK' /\ FullOK'
  BY <1>1, <1>12, SameSettled
<1>14. NoneJoins' /\ NoneLeaves'
  BY <1>4, <1>10 DEF NoneJoins, NoneLeaves
<1>15. PageRead'
  BY <1>2, <1>3 DEF PageRead
<1>16. Candidates'
  <2>1. quiet' >= 2 => quiet >= 1
    BY <1>2, <1>8
  <2>2. QED
    BY <1>2, <1>7, <2>1 DEF Candidates
<1>17. QED
  BY <1>6, <1>13, <1>14, <1>15, <1>16 DEF SettledParts

\* The log arrives: every page has been scanned.
LEMMA RecvQuiet ==
  ASSUME JointInv, NoOpenErrs, ListingExact, SettledParts, recv_offload_result
  PROVE  NoOpenErrs' /\ ListingExact' /\ SettledParts'
<1>1. SystemTypeOK /\ ServerInv
  BY DEF JointInv, GuestInv
<1>2. /\ hphase = "offload" /\ hphase' = "apply" /\ phase = "wait" /\ applied' = 0
      /\ errtab' = {} /\ UNCHANGED vars /\ map' = map /\ content' = content /\ quiet' = quiet
  BY DEF recv_offload_result, guestVars
<1>3. /\ rmap_tree' = rmap_tree /\ node' = node /\ clashed' = clashed /\ log' = log
      /\ phase' = phase
  BY <1>2 DEF vars, metaVars
<1>4. todo = {} /\ page = NoPage
  BY <1>1, <1>2 DEF ServerInv, PhaseOK
<1>5. \A i \in Items : ScannedNow(i)
  BY <1>2, <1>4, ServerAssumption DEF ScannedNow, NoPage
<1>6. NoOpenErrs' /\ ListingExact'
  BY <1>2 DEF NoOpenErrs, ListingExact
<1>7. Todo' = Todo
  <2>1. \A k \in DOMAIN log : k > 0
    BY <1>1 DEF ServerInv, TypeOK
  <2>2. QED
    BY <1>2, <1>3, <2>1 DEF Todo, Pending
<1>8. \A i \in Items : (SeenOnce(i)' <=> SeenOnce(i)) /\ (SeenTwice(i)' <=> SeenTwice(i))
  BY <1>2, <1>5 DEF SeenOnce, SeenTwice
<1>9. \A i : WillJoin(i)' <=> WillJoin(i)
  BY <1>3, <1>7 DEF WillJoin, MergeItems
<1>10. \A i : ContentOf(i)' = ContentOf(i) /\ NodeOf(i)' = NodeOf(i) /\ (InNode(i)' <=> InNode(i))
  BY <1>2, <1>3 DEF ContentOf, NodeOf, InNode
<1>11. SameSeen
  BY <1>2, <1>3, <1>8, <1>9, <1>10 DEF SameSeen
<1>12. Placed' /\ KeysRight' /\ AloneOK' /\ FullOK'
  BY <1>1, <1>11, SameSettled
<1>13. NoneJoins'
  BY <1>2, <1>9, <1>11, SameJoins
<1>14. NoneLeaves'
  BY <1>2, <1>3, <1>7 DEF SettledParts, NoneLeaves, IsMerge
<1>15. PageRead' /\ Candidates'
  BY <1>2, <1>3 DEF PageRead, Candidates
<1>16. QED
  BY <1>6, <1>12, <1>13, <1>14, <1>15 DEF SettledParts

\* The round ends: what has been scanned in it counts for one more quiet round.
LEMMA DestroyQuiet ==
  ASSUME MaxQuiet >= 3, JointInv, NoOpenErrs, ListingExact, SettledParts, destroy_metadata
  PROVE  NoOpenErrs' /\ ListingExact' /\ SettledParts'
<1>1. SystemTypeOK /\ ServerInv
  BY DEF JointInv, GuestInv
<1>2. /\ hphase = "apply" /\ hphase' = "walk" /\ applied = Len(log) /\ cursor' = 1
      /\ shadow' = [i \in Items |-> NoPfn] /\ errtab' = errtab
      /\ UNCHANGED vars /\ map' = map /\ content' = content
      /\ quiet' = IF quiet < MaxQuiet THEN quiet + 1 ELSE quiet
  BY DEF destroy_metadata, guestVars
<1>3. /\ rmap_tree' = rmap_tree /\ node' = node /\ clashed' = clashed /\ log' = log
  BY <1>2 DEF vars, metaVars
<1>4. quiet \in 0 .. MaxQuiet /\ MaxQuiet \in Nat
  BY <1>1, SystemAssumption DEF SystemTypeOK
<1>5. /\ quiet' >= 2 <=> quiet >= 1
      /\ quiet' >= 3 <=> quiet >= 2
      /\ quiet' # 2 \/ quiet = 1
      /\ quiet >= 1 <=> quiet >= 2 \/ quiet = 1
      /\ quiet >= 2 <=> quiet >= 3 \/ quiet = 2
  BY <1>2, <1>4
<1>6. NoOpenErrs'
  BY <1>2, <1>5 DEF NoOpenErrs
<1>7. \A i \in Items : ~(i < 1)
  BY FS_CardinalityType, ServerAssumption, SystemAssumption
<1>8. ListingExact'
  BY <1>2, <1>7 DEF ListingExact
<1>9. Todo = {} /\ Todo' = {}
  <2>1. \A k \in DOMAIN log : ~(k > applied)
    BY <1>1, <1>2 DEF ServerInv, TypeOK
  <2>2. QED
    BY <1>2, <2>1 DEF Todo, Pending
<1>10. \A i \in Items : (SeenOnce(i)' <=> SeenOnce(i)) /\ (SeenTwice(i)' <=> SeenTwice(i))
  <2>1. \A i : ~ScannedNow(i)'
    BY <1>2 DEF ScannedNow
  <2>2. QED
    BY <1>2, <1>5, <2>1 DEF SeenOnce, SeenTwice
<1>11. \A i : ~WillJoin(i) /\ ~WillJoin(i)'
  BY <1>9 DEF WillJoin
<1>12. \A i : ContentOf(i)' = ContentOf(i) /\ NodeOf(i)' = NodeOf(i) /\ (InNode(i)' <=> InNode(i))
  BY <1>2, <1>3 DEF ContentOf, NodeOf, InNode
<1>13. SameSeen
  BY <1>2, <1>3, <1>10, <1>11, <1>12 DEF SameSeen
<1>14. Placed' /\ KeysRight' /\ AloneOK' /\ FullOK'
  BY <1>1, <1>13, SameSettled
<1>15. NoneJoins' /\ NoneLeaves'
  BY <1>9, <1>11 DEF NoneJoins, NoneLeaves
<1>16. PageRead' /\ Candidates'
  BY <1>2 DEF PageRead, Candidates, ScannedNow
<1>17. QED
  BY <1>6, <1>8, <1>14, <1>15, <1>16 DEF SettledParts

\* An entry that is carried out without a failure moves its pages to the frame
\* of their node, and moves no other.
LEMMA EntryQuiet ==
  ASSUME JointInv, AgreeParts, NoOpenErrs, SettledParts, EntryDone,
         quiet' = quiet, content' = content, errtab' = errtab,
         \A i \in Items :
           /\ map'[i] = NoPfn <=> map[i] = NoPfn
           /\ map[i] # NoPfn => content[map'[i]] = content[map[i]],
         \A i \in Items : map'[i] = map[i] \/ map'[i] = NodeOf(i).pfn,
         \A i \in MergeItems(Entry) : map'[i] = NodeOf(i).pfn
  PROVE  NoOpenErrs' /\ ListingExact' /\ SettledParts'
<1>1. SystemTypeOK /\ ServerInv
  BY DEF JointInv, GuestInv
<1>2. /\ UNCHANGED vars /\ hphase' = "apply" /\ hphase = "apply"
      /\ applied < Len(log) /\ applied' = applied + 1
  BY DEF EntryDone
<1>3. /\ rmap_tree' = rmap_tree /\ node' = node /\ clashed' = clashed /\ log' = log
  BY <1>2 DEF vars, metaVars
<1>4. NoOpenErrs' /\ ListingExact'
  BY <1>2 DEF NoOpenErrs, ListingExact
<1>5. /\ Todo = {k \in DOMAIN log : k > applied} /\ Entry = log[applied + 1]
      /\ \A k \in Todo : k = applied + 1 \/ k > applied + 1
  BY <1>2, EntryOrder
<1>6. Todo' = {k \in DOMAIN log : k > applied + 1}
  BY <1>2, <1>3 DEF Todo, Pending
<1>7. \A k \in Todo' : k \in Todo
  <2>1. applied \in Nat /\ \A k \in DOMAIN log : k \in Nat
    BY <1>1 DEF ServerInv, TypeOK, SystemTypeOK
  <2>2. QED
    BY <1>5, <1>6, <2>1
<1>8. \A i : WillJoin(i)' => WillJoin(i)
  BY <1>3, <1>7 DEF WillJoin, MergeItems
<1>9. \A i : WillJoin(i) => WillJoin(i)' \/ i \in MergeItems(Entry)
  <2>1. \A k \in Todo : k \in Todo' \/ k = applied + 1
    BY <1>5, <1>6
  <2>2. QED
    BY <1>3, <1>5, <2>1 DEF WillJoin, MergeItems
<1>10. \A i \in Items : (SeenOnce(i)' <=> SeenOnce(i)) /\ (SeenTwice(i)' <=> SeenTwice(i))
  BY <1>2 DEF SeenOnce, SeenTwice, ScannedNow
<1>11. \A i : NodeOf(i)' = NodeOf(i) /\ (InNode(i)' <=> InNode(i))
  BY <1>3 DEF NodeOf, InNode
<1>12. \A i \in Items : SeenOnce(i) => ContentOf(i)' = ContentOf(i)
  BY DEF SeenOnce, ContentOf
<1>13. ASSUME NEW i \in Items, map[i] = NodeOf(i).pfn \/ WillJoin(i)
       PROVE  map'[i] = NodeOf(i)'.pfn \/ WillJoin(i)'
  BY <1>9, <1>11, <1>13
<1>14. SameSeen
  BY <1>3, <1>10, <1>11, <1>12, <1>13 DEF SameSeen
<1>15. Placed' /\ KeysRight' /\ AloneOK' /\ FullOK'
  BY <1>1, <1>14, SameSettled
<1>16. NoneJoins'
  BY <1>8, <1>14, SameJoins
<1>17. NoneLeaves'
  BY <1>3, <1>7 DEF SettledParts, NoneLeaves, IsMerge
<1>18. PageRead' /\ Candidates'
  BY <1>2 DEF PageRead, Candidates, ScannedNow
<1>19. QED
  BY <1>4, <1>15, <1>16, <1>17, <1>18 DEF SettledParts

\* A page of a node that the host knows of by now: without failures, this is
\* any node but those that the log has still to make.
LEMMA NoneSkipped ==
  ASSUME JointInv, AgreeParts, hphase = "apply", applied < Len(log), errtab = {},
         Entry.type = "STABLE_MERGE"
  PROVE  HasStableNode(Entry.kpfn)
<1>1. PICK i : i = Entry.from
  OBVIOUS
<1>2. PICK n : n = rmap_tree[i].stable_node
  OBVIOUS
<1>3. /\ Todo = {k \in DOMAIN log : k > applied} /\ OpenErrs = errtab
      /\ applied + 1 \in Todo /\ Entry = log[applied + 1]
      /\ \A k \in Todo : k = applied + 1 \/ k > applied + 1
      /\ \A k \in Todo : k > applied + 1 => MergeItems(log[k]) \cap MergeItems(Entry) = {}
  BY EntryOrder
<1>4. i \in MergeItems(Entry) /\ i \in Items /\ Believed(i, Entry.kpfn)
  <2>1. i \in MergeItems(Entry)
    BY <1>1 DEF MergeItems
  <2>2. QED
    BY <1>1, <2>1, EntryFacts
<1>5. n \in NodeIds /\ Live(n) /\ node[n].pfn = Entry.kpfn
  BY <1>2, <1>4, OffloadItems DEF Believed
<1>6. ~UndoneNode(n)
  BY <1>3 DEF UndoneNode
<1>7. ~NewNode(n)
  <2>1. SUFFICES ASSUME NEW l \in Todo, IsNew(log[l]), rmap_tree[log[l].from].stable_node = n
                 PROVE  FALSE
    BY DEF NewNode
  <2>2. l \in DOMAIN log /\ l > applied + 1
    BY <1>3, <2>1 DEF IsNew
  <2>3. PICK k \in DOMAIN log : k >= l /\ i \in MergeItems(log[k])
    BY <1>2, <1>4, <2>1, <2>2 DEF AgreeParts, MadeFirst, Believed
  <2>4. k \in Todo /\ k > applied + 1
    <3>1. applied \in Nat /\ k \in Nat /\ l \in Nat
      BY <2>2, EntryFacts DEF JointInv, ServerInv, TypeOK
    <3>2. QED
      BY <1>3, <2>2, <2>3, <3>1
  <2>5. QED
    BY <1>3, <1>4, <2>3, <2>4
<1>8. Entry.kpfn \in hnode
  BY <1>5, <1>6, <1>7 DEF AgreeParts, NodesReal
<1>9. Entry.kpfn \in Pfns /\ frame[Entry.kpfn] = "node"
  BY <1>8 DEF JointInv, GuestInv, SystemTypeOK, FramesOK
<1>10. QED
  BY <1>9, KsmFrames DEF JointInv, GuestInv

\* The entries that are carried out in a quiet round.
LEMMA ApplyQuiet ==
  ASSUME JointInv, AgreeParts, NoOpenErrs, SettledParts, quiet' >= 1, apply_result, ~debug_stop
  PROVE  NoOpenErrs' /\ ListingExact' /\ SettledParts'
<1>1. SystemTypeOK
  BY DEF JointInv, GuestInv
<1>2. ~StableMergeFailed /\ ~UnstableMergeFailed
  BY DEF StableMergeFailed, UnstableMergeFailed
<1>3. hphase = "apply" /\ applied < Len(log) /\ quiet' = quiet
  BY <1>2 DEF apply_result, StableMergeSkipped, StableMergeDone,
       UnstableMergeDone, StaleStableNode, ItemStateChange, Applying
<1>4. errtab = {}
  BY <1>3 DEF NoOpenErrs
<1>5. CASE StableMergeSkipped
  BY <1>3, <1>4, <1>5, NoneSkipped DEF StableMergeSkipped, Applying
<1>6. CASE StaleStableNode \/ ItemStateChange
  <2>1. EntryDone /\ map' = map /\ content' = content /\ errtab' = errtab
    BY <1>6 DEF StaleStableNode, ItemStateChange, Applying, applyRest, EntryDone
  <2>2. MergeItems(Entry) = {}
    BY <1>6 DEF StaleStableNode, ItemStateChange, Applying, MergeItems
  <2>3. QED
    BY <1>3, <2>1, <2>2, EntryQuiet
<1>7. CASE StableMergeDone
  <2>1. PICK i : i = Entry.from
    OBVIOUS
  <2>2. PICK k : k = Entry.kpfn
    OBVIOUS
  <2>3. /\ EntryDone /\ content' = content /\ errtab' = errtab
        /\ Entry.type = "STABLE_MERGE" /\ HasStableNode(k)
        /\ \/ shadow[i] = k
           \/ /\ StillMapped(i)
              /\ pages_identical(shadow[i], k)
              /\ map' = [map EXCEPT ![i] = k]
    BY <1>7, <2>1, <2>2 DEF StableMergeDone, Applying, applyRest, EntryDone
  <2>4. /\ MergeItems(Entry) = {i} /\ i \in Items
        /\ shadow[i] \in Pfns /\ frame[shadow[i]] = "anon" /\ Believed(i, k)
    <3>1. MergeItems(Entry) = {i}
      BY <2>1, <2>3 DEF MergeItems
    <3>2. MergeItems(Entry) \subseteq EntryItems(Entry) /\ EntryItems(Entry) \subseteq Items
      BY <1>3, EntryFacts
    <3>3. QED
      BY <1>3, <2>1, <2>2, <2>3, <3>1, <3>2, EntryFacts
  <2>5. frame[k] = "node" /\ k \in Pfns /\ k # NoPfn
    BY <2>3, ServerAssumption DEF HasStableNode
  <2>6. /\ map[i] = shadow[i] /\ map[i] # NoPfn /\ content[map[i]] = content[k]
        /\ map' = [map EXCEPT ![i] = k]
    BY <2>3, <2>4, <2>5 DEF StillMapped, pages_identical
  <2>7. map'[i] = k /\ \A j \in Items : j # i => map'[j] = map[j]
    BY <1>1, <2>4, <2>6 DEF SystemTypeOK
  <2>8. NodeOf(i).pfn = k
    BY <2>4 DEF Believed, NodeOf
  <2>9. \A j \in Items :
          /\ map'[j] = NoPfn <=> map[j] = NoPfn
          /\ map[j] # NoPfn => content[map'[j]] = content[map[j]]
          /\ map'[j] = map[j] \/ map'[j] = NodeOf(j).pfn
    BY <2>5, <2>6, <2>7, <2>8
  <2>10. \A j \in MergeItems(Entry) : map'[j] = NodeOf(j).pfn
    BY <2>4, <2>7, <2>8
  <2>11. QED
    BY <1>3, <2>3, <2>9, <2>10, EntryQuiet
<1>8. CASE UnstableMergeDone
  <2>1. PICK i : i = Entry.from
    OBVIOUS
  <2>2. PICK j : j = Entry.to
    OBVIOUS
  <2>3. PICK k : k = shadow[i]
    OBVIOUS
  <2>4. /\ EntryDone /\ content' = content /\ errtab' = errtab
        /\ Entry.type = "UNSTABLE_MERGE" /\ StillMapped(i) /\ StillMapped(j)
        /\ content[k] = content[shadow[j]]
        /\ map' = [map EXCEPT ![j] = k]
    BY <1>8, <2>1, <2>2, <2>3
       DEF UnstableMergeDone, Applying, applyRest, EntryDone, pages_identical
  <2>5. /\ MergeItems(Entry) = {i, j} /\ i \in Items /\ j \in Items
        /\ Believed(i, k) /\ Believed(j, k)
    <3>1. MergeItems(Entry) = {i, j}
      BY <2>1, <2>2, <2>4 DEF MergeItems
    <3>2. MergeItems(Entry) \subseteq EntryItems(Entry) /\ EntryItems(Entry) \subseteq Items
      BY <1>3, EntryFacts
    <3>3. QED
      BY <1>3, <2>1, <2>2, <2>3, <2>4, <3>1, <3>2, EntryFacts
  <2>6. map[i] = k /\ k # NoPfn /\ map[j] # NoPfn /\ content[map[j]] = content[k]
    BY <2>3, <2>4 DEF StillMapped
  <2>7. map'[j] = k /\ \A m \in Items : m # j => map'[m] = map[m]
    BY <1>1, <2>4, <2>5 DEF SystemTypeOK
  <2>8. NodeOf(i).pfn = k /\ NodeOf(j).pfn = k
    BY <2>5 DEF Believed, NodeOf
  <2>9. \A m \in Items :
          /\ map'[m] = NoPfn <=> map[m] = NoPfn
          /\ map[m] # NoPfn => content[map'[m]] = content[map[m]]
          /\ map'[m] = map[m] \/ map'[m] = NodeOf(m).pfn
    BY <2>6, <2>7, <2>8
  <2>10. \A m \in MergeItems(Entry) : map'[m] = NodeOf(m).pfn
    BY <2>5, <2>6, <2>7, <2>8
  <2>11. QED
    BY <1>3, <2>4, <2>9, <2>10, EntryQuiet
<1>9. QED
  BY <1>2, <1>5, <1>6, <1>7, <1>8 DEF apply_result

-----------------------------------------------------------------------------
(***************************************************************************)
(* The server at work, when all is quiet                                   *)
(***************************************************************************)

\* The host stands still, and the server finds no new failures.
LEMMA OffloadQuiet ==
  ASSUME hphase = "offload", UNCHANGED hostVars
  PROVE  /\ map' = map /\ content' = content /\ shadow' = shadow /\ errtab' = errtab
         /\ hphase' = "offload" /\ quiet' = quiet
         /\ Todo = DOMAIN log /\ Todo' = DOMAIN log'
         /\ \A i : ContentOf(i)' = ContentOf(i)
         /\ errs' \subseteq errs /\ NoOpenErrs /\ ListingExact => NoOpenErrs' /\ ListingExact'
<1>1. /\ map' = map /\ content' = content /\ shadow' = shadow /\ errtab' = errtab
      /\ hphase' = "offload" /\ quiet' = quiet
  BY DEF hostVars, guestVars
<1>2. Todo = DOMAIN log /\ Todo' = DOMAIN log'
  BY OffloadSides
<1>3. \A i : ContentOf(i)' = ContentOf(i)
  BY <1>1 DEF ContentOf
<1>4. ASSUME errs' \subseteq errs, NoOpenErrs, ListingExact PROVE NoOpenErrs' /\ ListingExact'
  BY <1>1, <1>4 DEF NoOpenErrs, ListingExact
<1>5. QED
  BY <1>1, <1>2, <1>3, <1>4

\* Nothing is promised of pages that are still to be scanned.
LEMMA NoneSeen ==
  ASSUME quiet' \in Nat, ~(quiet' >= 2), \A i \in Items : ~SeenOnce(i)', PageRead'
  PROVE  SettledParts'
<1>1. ~(quiet' >= 3) /\ quiet' # 2
  OBVIOUS
<1>2. \A i \in Items : ~SeenTwice(i)'
  BY <1>1 DEF SeenTwice
<1>3. NoneLeaves' /\ Candidates' /\ NoneJoins'
  BY <1>1 DEF NoneLeaves, Candidates, NoneJoins
<1>4. Placed' /\ KeysRight' /\ AloneOK' /\ FullOK'
  BY <1>2 DEF Placed, KeysRight, AloneOK, FullOK
<1>5. QED
  BY <1>3, <1>4 DEF SettledParts

\* A step that ends the quiet.
LEMMA NoMoreQuiet ==
  ASSUME quiet' = 0
  PROVE  NoOpenErrs' /\ ListingExact' /\ SettledParts'
<1>1. quiet' \in Nat /\ ~(quiet' >= 1) /\ ~(quiet' >= 2) /\ quiet' # 1
  OBVIOUS
<1>2. \A i \in Items : ~SeenOnce(i)'
  BY <1>1 DEF SeenOnce
<1>3. NoOpenErrs' /\ ListingExact' /\ PageRead'
  BY <1>1 DEF NoOpenErrs, ListingExact, PageRead
<1>4. QED
  BY <1>1, <1>2, <1>3, NoneSeen

\* Failures are handled before the first page of a round.
LEMMA HandleErrorQuiet ==
  ASSUME JointInv, NoOpenErrs, ListingExact, quiet >= 1,
         hphase = "offload", UNCHANGED hostVars, HandleError
  PROVE  SettledParts'
<1>1. PICK e \in errs : TRUE
  BY DEF HandleError
<1>2. todo = present /\ page = NoPage
  BY <1>1, ErrorFacts DEF JointInv
<1>3. todo' = todo /\ page' = page
  BY DEF HandleError
<1>4. map' = map /\ hphase' = "offload" /\ quiet' = quiet
  BY OffloadQuiet
<1>5. ~(quiet >= 2)
  BY <1>1 DEF NoOpenErrs
<1>6. \A i \in Items : map[i] # NoPfn => i \in present
  BY OffloadFacts DEF ListingExact
<1>7. \A i \in Items : ~SeenOnce(i)'
  BY <1>2, <1>3, <1>4, <1>5, <1>6 DEF SeenOnce, ScannedNow
<1>8. PageRead'
  BY <1>2, <1>3 DEF PageRead
<1>9. quiet \in Nat
  BY SeenFacts DEF JointInv, GuestInv
<1>10. QED
  BY <1>4, <1>5, <1>7, <1>8, <1>9, NoneSeen

\* A page is taken in hand, with its content.
LEMMA LookupQuiet ==
  ASSUME JointInv, ListingExact, SettledParts, quiet >= 1,
         hphase = "offload", UNCHANGED hostVars,
         NEW x \in todo, lookup_rmap_item(x, shadow[x], content[shadow[x]])
  PROVE  SettledParts'
<1> DEFINE base == IF InTree(x) THEN rmap_tree[x] ELSE NewItem
           it == [base EXCEPT !.pfn = shadow[x], !.last_access = ToShort(iteration)]
<1>1. SystemTypeOK
  BY DEF JointInv, GuestInv
<1>2. x \in Items /\ rmap_tree \in [Items -> ItemRec]
  BY DEF JointInv, ServerInv, TypeOK
<1>3. /\ rmap_tree' = [rmap_tree EXCEPT ![x] = it] /\ phase' = phase
      /\ node' = node /\ log' = log /\ clashed' = clashed
      /\ page = NoPage /\ page' = [item |-> x, hash |-> content[shadow[x]]]
      /\ todo' = todo \ {x}
  BY DEF lookup_rmap_item
<1>4. /\ map' = map /\ content' = content /\ hphase' = "offload" /\ quiet' = quiet
      /\ Todo = DOMAIN log /\ Todo' = DOMAIN log'
      /\ \A i : ContentOf(i)' = ContentOf(i)
  BY OffloadQuiet
<1>5. page'.item = x /\ page'.hash = content[shadow[x]] /\ page.item = NoItem /\ NoItem \notin Items
  BY <1>3, ServerAssumption DEF NoPage
<1>6. base \in ItemRec /\ (rmap_tree[x].state # "Absent" => base = rmap_tree[x])
      /\ (base.state = "Stable" <=> rmap_tree[x].state = "Stable")
  <2>1. NewItem \in ItemRec /\ NewItem.state = "Volatile"
    BY DEF NewItem, AbsentItem, ItemRec, NoNode
  <2>2. QED
    BY <1>2, <2>1 DEF InTree
<1>7. it.state = base.state /\ it.stable_node = base.stable_node /\ it.old_hash = base.old_hash
  BY <1>6 DEF ItemRec
<1> HIDE DEF it, base
<1>8. rmap_tree'[x] = it /\ \A j \in Items : j # x => rmap_tree'[j] = rmap_tree[j]
  BY <1>2, <1>3
<1>9. \A i \in Items : ScannedNow(i)' <=> ScannedNow(i)
  BY <1>3, <1>4, <1>5 DEF ScannedNow
<1>10. \A i \in Items : (SeenOnce(i)' <=> SeenOnce(i)) /\ (SeenTwice(i)' <=> SeenTwice(i))
  BY <1>4, <1>9 DEF SeenOnce, SeenTwice
<1>11. \A i \in Items : /\ InNode(i)' <=> InNode(i)
                        /\ InNode(i) => NodeOf(i)' = NodeOf(i)
  BY <1>3, <1>6, <1>7, <1>8 DEF InNode, NodeOf
<1>12. \A i : WillJoin(i)' <=> WillJoin(i)
  BY <1>3, <1>4 DEF WillJoin, MergeItems
<1>13. ASSUME NEW i \in Items, SeenOnce(i), ~InNode(i)
       PROVE  /\ rmap_tree[i].state # "Absent" => rmap_tree'[i].state # "Absent"
              /\ rmap_tree'[i].old_hash = rmap_tree[i].old_hash
  <2>1. rmap_tree[i].state # "Absent"
    BY <1>13 DEF SettledParts, Placed
  <2>2. QED
    BY <1>6, <1>7, <1>8, <2>1
<1>14. SameSeen
  BY <1>3, <1>4, <1>10, <1>11, <1>12, <1>13 DEF SameSeen
<1>15. Placed' /\ KeysRight' /\ AloneOK' /\ FullOK'
  BY <1>1, <1>14, SameSettled
<1>16. NoneJoins'
  BY <1>4, <1>12, <1>14, SameJoins
<1>17. NoneLeaves'
  BY <1>3, <1>4 DEF SettledParts, NoneLeaves, IsMerge
<1>18. PageRead'
  <2>1. shadow[x] = map[x]
    BY <1>2 DEF ListingExact
  <2>2. page'.hash = ContentOf(x)'
    BY <1>4, <1>5, <2>1 DEF ContentOf
  <2>3. QED
    BY <1>5, <2>2 DEF PageRead
<1>19. Candidates'
  <2>1. ASSUME quiet >= 2, phase = "work", NEW i \in Items, ScannedNow(i), map[i] # NoPfn, ~InNode(i)
        PROVE  rmap_tree'[i].state = "Unstable"
    <3>1. i # x
      BY <2>1 DEF ScannedNow
    <3>2. QED
      BY <1>8, <2>1, <3>1 DEF SettledParts, Candidates
  <2>2. QED
    BY <1>3, <1>4, <1>9, <1>11, <2>1 DEF Candidates
<1>20. QED
  BY <1>15, <1>16, <1>17, <1>18, <1>19 DEF SettledParts

\* The page in hand is the one that is mapped, and it has been scanned once it
\* is put down.
LEMMA PutDownQuiet ==
  ASSUME JointInv, ListingExact, PageRead, quiet >= 1,
         hphase = "offload", UNCHANGED hostVars, page # NoPage, page' = NoPage, todo' = todo,
         NEW x, x = page.item
  PROVE  /\ x \in Items /\ map[x] # NoPfn /\ shadow[x] = map[x] /\ page.hash = ContentOf(x)
         /\ SeenOnce(x)' /\ ScannedNow(x)'
         /\ SeenOnce(x) <=> quiet >= 2
         /\ SeenTwice(x)' <=> quiet >= 2
         /\ SeenTwice(x) <=> quiet >= 3
         /\ \A i \in Items : i # x => /\ SeenOnce(i)' <=> SeenOnce(i)
                                      /\ SeenTwice(i)' <=> SeenTwice(i)
                                      /\ ScannedNow(i)' <=> ScannedNow(i)
         /\ \A i \in Items : SeenOnce(i) => SeenOnce(i)'
         /\ PageRead'
<1>1. SystemTypeOK /\ ServerInv
  BY DEF JointInv, GuestInv
<1>2. x \in Items /\ x \in present /\ x \notin todo
  BY <1>1 DEF ServerInv, PhaseOK, TypeOK
<1>3. map' = map /\ hphase' = "offload" /\ quiet' = quiet
  BY OffloadQuiet
<1>4. shadow[x] = map[x] /\ map[x] # NoPfn
  BY <1>2, OffloadFacts DEF ListingExact
<1>5. page.hash = ContentOf(x)
  BY DEF PageRead
<1>6. quiet \in Nat
  BY <1>1, SeenFacts
<1>7. page'.item = NoItem /\ NoItem \notin Items
  BY ServerAssumption DEF NoPage
<1>8. ScannedNow(x)' /\ ~ScannedNow(x)
  BY <1>2, <1>3, <1>7 DEF ScannedNow
<1>9. \A i \in Items : i # x => (ScannedNow(i)' <=> ScannedNow(i))
  BY <1>3, <1>7 DEF ScannedNow
<1>10. \A i \in Items : i # x => /\ SeenOnce(i)' <=> SeenOnce(i)
                                 /\ SeenTwice(i)' <=> SeenTwice(i)
  BY <1>3, <1>9 DEF SeenOnce, SeenTwice
<1>11. SeenOnce(x)' /\ (SeenOnce(x) <=> quiet >= 2)
  BY <1>3, <1>4, <1>6, <1>8 DEF SeenOnce
<1>12. (SeenTwice(x)' <=> quiet >= 2) /\ (SeenTwice(x) <=> quiet >= 3)
  BY <1>3, <1>4, <1>6, <1>8 DEF SeenTwice
<1>13. PageRead'
  BY DEF PageRead
<1>14. QED
  BY <1>2, <1>4, <1>5, <1>8, <1>9, <1>10, <1>11, <1>12, <1>13

\* More pages have been scanned: fewer chains have one content.
LEMMA FewerPure ==
  ASSUME NEW i \in Items, PureFor(i)', NodeOf(i)'.chain = NodeOf(i).chain,
         \A j : ContentOf(j)' = ContentOf(j),
         \A j \in Items : (SeenOnce(j) /\ InNode(j)) =>
           SeenOnce(j)' /\ InNode(j)' /\ NodeOf(j)'.chain = NodeOf(j).chain
  PROVE  PureFor(i)
  BY DEF PureFor

\* The chain of page x gets the hash in hand as key, and nothing else changes in
\* any node.
ChainKeyed(x) ==
  \A i \in Items :
    /\ InNode(i)' <=> InNode(i)
    /\ ~InNode(i) => rmap_tree'[i] = rmap_tree[i]
    /\ InNode(i) =>
         /\ NodeOf(i)'.chain = NodeOf(i).chain
         /\ NodeOf(i)'.pfn = NodeOf(i).pfn
         /\ NodeOf(i)'.shared_cnt = NodeOf(i).shared_cnt
         /\ NodeOf(i)'.page_hash =
              IF NodeOf(i).chain = NodeOf(x).chain THEN page.hash ELSE NodeOf(i).page_hash

\* A page that stays in its node gives the chain its content as key.
LEMMA KeyGiven ==
  ASSUME JointInv, ListingExact, SettledParts, quiet >= 1,
         hphase = "offload", UNCHANGED hostVars, page # NoPage, page' = NoPage, todo' = todo,
         phase' = phase, log' = log, ~clashed' => ~clashed,
         NEW x, x = page.item, InNode(x), map[x] = NodeOf(x).pfn,
         ChainKeyed(x)
  PROVE  SettledParts'
<1> USE DEF ChainKeyed
<1>1. SystemTypeOK
  BY DEF JointInv, GuestInv
<1>2. PageRead /\ Placed /\ NoneLeaves /\ KeysRight /\ Candidates /\ AloneOK /\ FullOK /\ NoneJoins
  BY DEF SettledParts
<1>3. /\ x \in Items /\ page.hash = ContentOf(x) /\ SeenOnce(x)'
      /\ \A i \in Items : i # x => /\ SeenOnce(i)' <=> SeenOnce(i)
                                   /\ SeenTwice(i)' <=> SeenTwice(i)
                                   /\ ScannedNow(i)' <=> ScannedNow(i)
      /\ \A i \in Items : SeenOnce(i) => SeenOnce(i)'
      /\ PageRead'
  BY <1>2, PutDownQuiet
<1>4. /\ map' = map /\ quiet' = quiet /\ Todo = DOMAIN log /\ Todo' = DOMAIN log'
      /\ \A i : ContentOf(i)' = ContentOf(i)
  BY OffloadQuiet
<1>5. \A i : WillJoin(i)' <=> WillJoin(i)
  BY <1>4 DEF WillJoin, MergeItems
<1>6. \A i \in Items : (SeenOnce(i)' /\ quiet >= 2) => SeenOnce(i)
  <2>1. \A i \in Items : SeenOnce(i)' => map[i] # NoPfn
    BY <1>4 DEF SeenOnce
  <2>2. QED
    BY <1>1, <2>1, SeenFacts
<1>7. \A i \in Items : (InNode(i) /\ PureFor(i)') => PureFor(i)
  BY <1>3, <1>4, FewerPure
<1>8. quiet \in Nat /\ \A i \in Items : SeenTwice(i) => quiet >= 2
  BY <1>1, SeenFacts
<1>9. Placed'
  <2>1. ASSUME NEW i \in Items, SeenOnce(i)'
        PROVE  IF InNode(i)' THEN map'[i] = NodeOf(i)'.pfn \/ WillJoin(i)'
               ELSE rmap_tree'[i].state # "Absent" /\ rmap_tree'[i].old_hash = ContentOf(i)'
    <3>1. CASE i = x
      BY <1>3, <1>4, <3>1
    <3>2. CASE i # x
      <4>1. IF InNode(i) THEN map[i] = NodeOf(i).pfn \/ WillJoin(i)
            ELSE rmap_tree[i].state # "Absent" /\ rmap_tree[i].old_hash = ContentOf(i)
        BY <1>2, <1>3, <2>1, <3>2 DEF Placed
      <4>2. QED
        BY <1>4, <1>5, <4>1
    <3>3. QED
      BY <3>1, <3>2
  <2>2. QED
    BY <2>1 DEF Placed
<1>10. KeysRight'
  <2>1. ASSUME NEW i \in Items, SeenOnce(i)', InNode(i)', PureFor(i)'
        PROVE  NodeOf(i)'.page_hash = ContentOf(i)'
    <3>1. CASE NodeOf(i).chain = NodeOf(x).chain
      <4>1. ContentOf(x)' = ContentOf(i)'
        BY <1>3, <2>1, <3>1 DEF PureFor
      <4>2. QED
        BY <1>3, <1>4, <2>1, <3>1, <4>1
    <3>2. CASE NodeOf(i).chain # NodeOf(x).chain
      <4>1. i # x
        BY <3>2
      <4>2. NodeOf(i).page_hash = ContentOf(i)
        BY <1>2, <1>3, <1>7, <2>1, <4>1 DEF KeysRight
      <4>3. QED
        BY <1>4, <2>1, <3>2, <4>2
    <3>3. QED
      BY <3>1, <3>2
  <2>2. QED
    BY <2>1 DEF KeysRight
<1>11. AloneOK'
  <2>1. ASSUME NEW i \in Items, NEW j \in Items, i # j, SeenTwice(i)', SeenTwice(j)',
               ~InNode(i)', ContentOf(i)' = ContentOf(j)'
        PROVE  InNode(j)'
    <3>1. CASE j = x
      BY <3>1
    <3>2. CASE j # x
      <4>1. i # x /\ ~InNode(i) /\ SeenTwice(i) /\ SeenTwice(j) /\ ContentOf(i) = ContentOf(j)
        BY <1>3, <1>4, <2>1, <3>2
      <4>2. QED
        BY <1>2, <2>1, <4>1 DEF AloneOK
    <3>3. QED
      BY <3>1, <3>2
  <2>2. QED
    BY <2>1 DEF AloneOK
<1>12. FullOK'
  <2>1. ASSUME ~clashed', NEW i \in Items, NEW j \in Items, SeenTwice(i)', ~InNode(i)',
               SeenOnce(j)', InNode(j)', PureFor(j)', ContentOf(i)' = ContentOf(j)'
        PROVE  NodeOf(j)'.shared_cnt = MAX_PAGE_SHARING
    <3>1. i # x /\ ~InNode(i) /\ SeenTwice(i) /\ ContentOf(i) = ContentOf(j) /\ ~clashed
      BY <1>3, <1>4, <2>1
    <3>2. SeenOnce(j) /\ InNode(j) /\ PureFor(j)
      BY <1>6, <1>7, <1>8, <2>1, <3>1
    <3>3. NodeOf(j).shared_cnt = MAX_PAGE_SHARING
      BY <1>2, <3>1, <3>2 DEF FullOK
    <3>4. QED
      BY <3>2, <3>3
  <2>2. QED
    BY <2>1 DEF FullOK
<1>13. NoneJoins'
  <2>1. ASSUME quiet' >= 3, ~clashed', NEW i \in Items, SeenOnce(i)', InNode(i)', PureFor(i)'
        PROVE  ~WillJoin(i)'
    <3>1. quiet >= 3 /\ quiet >= 2
      BY <1>4, <1>8, <2>1
    <3>2. SeenOnce(i) /\ InNode(i) /\ PureFor(i)
      BY <1>6, <1>7, <2>1, <3>1
    <3>3. QED
      BY <1>2, <1>5, <2>1, <3>1, <3>2 DEF NoneJoins
  <2>2. QED
    BY <2>1 DEF NoneJoins
<1>14. NoneLeaves'
  BY <1>2, <1>4 DEF NoneLeaves, IsMerge
<1>15. Candidates'
  <2>1. ASSUME quiet >= 2, phase = "work", NEW i \in Items, ScannedNow(i)', map[i] # NoPfn, ~InNode(i)'
        PROVE  rmap_tree'[i].state = "Unstable"
    <3>1. i # x /\ ~InNode(i) /\ ScannedNow(i)
      BY <1>3, <2>1
    <3>2. QED
      BY <1>2, <2>1, <3>1 DEF Candidates
  <2>2. QED
    BY <1>4, <2>1 DEF Candidates
<1>16. QED
  BY <1>3, <1>9, <1>10, <1>11, <1>12, <1>13, <1>14, <1>15 DEF SettledParts

\* A Stable page that is in hand is listed with the frame it is mapped to, and
\* no entry of the log is about to move it.
LEMMA StableInHand ==
  ASSUME JointInv, ListingExact, quiet >= 1, hphase = "offload", PageInHand("Stable"),
         NEW x, x = page.item
  PROVE  /\ x \in Items /\ InNode(x) /\ rmap_tree[x].pfn = map[x] /\ ~WillJoin(x)
         /\ rmap_tree[x].stable_node \in NodeIds /\ Live(rmap_tree[x].stable_node)
<1>1. page # NoPage /\ x \in Items /\ rmap_tree[x].state = "Stable"
  BY InHand DEF JointInv
<1>2. rmap_tree[x].pfn = shadow[x]
  BY <1>1 DEF JointInv, PageFrame, curr
<1>3. shadow[x] = map[x]
  BY <1>1 DEF ListingExact
<1>4. ~WillJoin(x)
  <2>1. \A k \in DOMAIN log : x \notin MergeItems(log[k])
    BY <1>1, MergesElsewhere DEF JointInv
  <2>2. QED
    BY <2>1 DEF WillJoin, Todo, Pending
<1>5. QED
  BY <1>1, <1>2, <1>3, <1>4, OffloadItems DEF InNode

LEMMA StableKeptQuiet ==
  ASSUME JointInv, ListingExact, SettledParts, quiet >= 1,
         hphase = "offload", UNCHANGED hostVars, StableKept
  PROVE  SettledParts'
<1>1. PICK x : x = page.item
  OBVIOUS
<1>2. /\ PageInHand("Stable") /\ NodeOf(x).pfn = rmap_tree[x].pfn
      /\ page.hash = rmap_tree[x].old_hash
      /\ page' = NoPage /\ todo' = todo /\ phase' = phase /\ log' = log
      /\ clashed' = clashed /\ rmap_tree' = rmap_tree /\ node' = node
  BY <1>1 DEF StableKept, scanRest, metaVars, curr, NodeOf
<1>3. page # NoPage
  BY <1>2 DEF PageInHand
<1>4. /\ x \in Items /\ InNode(x) /\ rmap_tree[x].pfn = map[x]
  BY <1>1, <1>2, StableInHand
<1>5. \A i : (InNode(i)' <=> InNode(i)) /\ NodeOf(i)' = NodeOf(i)
  BY <1>2 DEF InNode, NodeOf
<1>6. \A i \in Items : (InNode(i) /\ NodeOf(i).chain = NodeOf(x).chain) =>
        NodeOf(i).page_hash = page.hash
  <2>1. \A i \in Items : InNode(i) =>
          /\ rmap_tree[i].stable_node \in NodeIds /\ Live(rmap_tree[i].stable_node)
          /\ rmap_tree[i].old_hash = NodeOf(i).page_hash
    BY DEF JointInv, ServerInv, StructInv, SharingConsistent, HashesAgree, InNode, NodeOf
  <2>2. \A n, m \in NodeIds : (Live(n) /\ Live(m) /\ node[n].chain = node[m].chain)
          => node[n].page_hash = node[m].page_hash
    BY DEF JointInv, ServerInv, StructInv, HashesAgree
  <2>3. QED
    BY <1>2, <1>4, <2>1, <2>2 DEF NodeOf
<1>7. ~clashed' => ~clashed
  BY <1>2
<1>8. ChainKeyed(x)
  BY <1>2, <1>5, <1>6 DEF ChainKeyed
<1>9. map[x] = NodeOf(x).pfn
  BY <1>2, <1>4
<1>10. QED
  BY <1>1, <1>2, <1>3, <1>4, <1>7, <1>8, <1>9, KeyGiven

LEMMA StableRekeyedQuiet ==
  ASSUME JointInv, ListingExact, SettledParts, quiet >= 1,
         hphase = "offload", UNCHANGED hostVars, StableRekeyed
  PROVE  SettledParts'
<1>1. PICK x : x = page.item
  OBVIOUS
<1>2. PICK c : c = NodeOf(x).chain
  OBVIOUS
<1>3. PICK h : h = page.hash
  OBVIOUS
<1>4. /\ PageInHand("Stable") /\ NodeOf(x).pfn = rmap_tree[x].pfn
      /\ page' = NoPage /\ todo' = todo /\ phase' = phase /\ log' = log
  BY <1>1 DEF StableRekeyed, scanRest, curr, NodeOf
<1>5. /\ node' = [n \in NodeIds |-> IF n \in Chain(node, c)
                                    THEN [node[n] EXCEPT !.page_hash = h] ELSE node[n]]
      /\ rmap_tree' = [k \in Items |-> IF \E n \in Chain(node, c) : k \in node[n].sharing
                                       THEN [rmap_tree[k] EXCEPT !.old_hash = h]
                                       ELSE rmap_tree[k]]
      /\ clashed' = (clashed \/ stable_hash_table[h] # NoNode)
  BY <1>1, <1>2, <1>3 DEF StableRekeyed, RekeyScope, curr, NodeOf
<1>6. /\ rmap_tree \in [Items -> ItemRec] /\ node \in [NodeIds -> NodeRec]
  BY DEF JointInv, ServerInv, TypeOK
<1>7. page # NoPage
  BY <1>4 DEF PageInHand
<1>8. /\ x \in Items /\ InNode(x) /\ rmap_tree[x].pfn = map[x]
  BY <1>1, <1>4, StableInHand
<1>9. \A i \in Items : /\ rmap_tree'[i].state = rmap_tree[i].state
                       /\ rmap_tree'[i].stable_node = rmap_tree[i].stable_node
  BY <1>5, <1>6 DEF ItemRec
<1>10. \A n \in NodeIds :
         /\ node'[n].chain = node[n].chain /\ node'[n].pfn = node[n].pfn
         /\ node'[n].shared_cnt = node[n].shared_cnt
         /\ node'[n].page_hash = IF n \in Chain(node, c) THEN h ELSE node[n].page_hash
  BY <1>5, <1>6 DEF NodeRec
<1>11. \A i \in Items : InNode(i) =>
         rmap_tree[i].stable_node \in NodeIds /\ node[rmap_tree[i].stable_node].chain # NoNode
  BY OffloadItems DEF InNode, Live
<1>12. ASSUME NEW i \in Items
       PROVE  /\ InNode(i)' <=> InNode(i)
              /\ ~InNode(i) => rmap_tree'[i] = rmap_tree[i]
              /\ InNode(i) =>
                   /\ NodeOf(i)'.chain = NodeOf(i).chain
                   /\ NodeOf(i)'.pfn = NodeOf(i).pfn
                   /\ NodeOf(i)'.shared_cnt = NodeOf(i).shared_cnt
                   /\ NodeOf(i)'.page_hash =
                        IF NodeOf(i).chain = NodeOf(x).chain THEN page.hash ELSE NodeOf(i).page_hash
  <2>1. InNode(i)' <=> InNode(i)
    BY <1>9 DEF InNode
  <2>2. ASSUME ~InNode(i) PROVE rmap_tree'[i] = rmap_tree[i]
    <3>1. \A n \in NodeIds : i \notin node[n].sharing
      BY <2>2 DEF InNode, JointInv, ServerInv, StructInv, SharingConsistent
    <3>2. \A n \in Chain(node, c) : n \in NodeIds
      BY DEF Chain
    <3>3. QED
      BY <1>5, <3>1, <3>2
  <2>3. ASSUME InNode(i)
        PROVE  /\ NodeOf(i)'.chain = NodeOf(i).chain
               /\ NodeOf(i)'.pfn = NodeOf(i).pfn
               /\ NodeOf(i)'.shared_cnt = NodeOf(i).shared_cnt
               /\ NodeOf(i)'.page_hash =
                    IF NodeOf(i).chain = NodeOf(x).chain THEN page.hash ELSE NodeOf(i).page_hash
    <3>1. PICK n \in NodeIds : n = rmap_tree[i].stable_node /\ node[n].chain # NoNode
      BY <1>11, <2>3
    <3>2. NodeOf(i) = node[n] /\ NodeOf(i)' = node'[n]
      BY <1>9, <3>1 DEF NodeOf
    <3>3. n \in Chain(node, c) <=> node[n].chain = NodeOf(x).chain
      BY <1>2, <3>1 DEF Chain
    <3>4. QED
      BY <1>3, <1>10, <3>2, <3>3
  <2>4. QED
    BY <2>1, <2>2, <2>3
<1>13. ChainKeyed(x) /\ (~clashed' => ~clashed)
  <2>1. ChainKeyed(x)
    BY <1>12 DEF ChainKeyed
  <2>2. ~clashed' => ~clashed
    BY <1>5, Zenon
  <2>3. QED
    BY <2>1, <2>2
<1>14. map[x] = NodeOf(x).pfn
  BY <1>4, <1>8
<1>15. QED
  BY <1>1, <1>4, <1>7, <1>8, <1>13, <1>14, KeyGiven

\* A page that leaves its node changes neither chain nor key nor frame of the
\* nodes that other pages are in.
LEMMA NodesKept ==
  ASSUME ServerInv, NEW x \in Items, rmap_tree[x].state = "Stable", LeaveNode(x),
         NEW i \in Items, i # x, rmap_tree[i].state = "Stable"
  PROVE  LET m == rmap_tree[i].stable_node
         IN  /\ node'[m].chain = node[m].chain /\ node'[m].pfn = node[m].pfn
             /\ node'[m].page_hash = node[m].page_hash
<1>1. PICK n : n = rmap_tree[x].stable_node
  OBVIOUS
<1>2. PICK m : m = rmap_tree[i].stable_node
  OBVIOUS
<1>3. PICK nd : nd = remove_item_from_node(node, n, x)
  OBVIOUS
<1>4. /\ \A l \in NodeIds : l # n => node'[l] = node[l]
      /\ IsLastItem(x) => node[n].sharing = {x}
  BY <1>1, NodeLeft
<1>5. m \in NodeIds /\ i \in node[m].sharing
  BY <1>2, NodeOfStable DEF ServerInv
<1>6. CASE m # n
  BY <1>2, <1>4, <1>5, <1>6
<1>7. CASE m = n
  <2>1. ~IsLastItem(x)
    BY <1>4, <1>5, <1>7
  <2>2. node \in [NodeIds -> NodeRec] /\ node[n] \in NodeRec
    BY <1>5, <1>7 DEF ServerInv, TypeOK
  <2>3. /\ nd[n].chain = node[n].chain /\ nd[n].pfn = node[n].pfn
        /\ nd[n].page_hash = node[n].page_hash
        /\ nd[n].shared_cnt = node[n].shared_cnt - 1
    BY <1>3, <1>5, <1>7, <2>2 DEF remove_item_from_node, NodeRec
  <2>4. node[n].shared_cnt \in Int /\ node[n].shared_cnt # 1
    BY <1>1, <2>1, <2>2 DEF IsLastItem, NodeRec
  <2>5. node' = nd
    BY <1>1, <1>3, <2>3, <2>4 DEF LeaveNode
  <2>6. QED
    BY <1>2, <1>7, <2>3, <2>5
<1>8. QED
  BY <1>6, <1>7

\* The first quiet round may still take a page out of its node; the second does
\* not.
LEMMA StableMovedQuiet ==
  ASSUME JointInv, ListingExact, SettledParts, quiet >= 1,
         hphase = "offload", UNCHANGED hostVars, StableMoved
  PROVE  SettledParts'
<1>1. PICK x : x = page.item
  OBVIOUS
<1>2. SystemTypeOK /\ ServerInv
  BY DEF JointInv, GuestInv
<1>3. /\ PageInHand("Stable") /\ NodeOf(x).pfn # rmap_tree[x].pfn /\ LeaveNode(x)
      /\ rmap_tree' = [rmap_tree EXCEPT ![x] = reset_item_state(rmap_tree[x])]
      /\ log' = Append(log, IF IsLastItem(x) THEN log_stale_node(x)
                                             ELSE log_item_state_change(x))
      /\ page' = page /\ todo' = todo /\ phase' = phase /\ clashed' = clashed
  BY <1>1 DEF StableMoved, scanRest, curr, NodeOf, DemotionLog
<1>4. /\ x \in Items /\ InNode(x) /\ rmap_tree[x].pfn = map[x] /\ ~WillJoin(x)
  BY <1>1, <1>3, StableInHand
<1>5. /\ map' = map /\ hphase' = "offload" /\ quiet' = quiet
      /\ Todo = DOMAIN log /\ Todo' = DOMAIN log'
      /\ \A i : ContentOf(i)' = ContentOf(i)
  BY OffloadQuiet
<1>6. ~SeenOnce(x)
  BY <1>3, <1>4 DEF SettledParts, Placed
<1>7. quiet \in Nat /\ ~(quiet >= 2)
  <2>1. shadow[x] # NoPfn /\ shadow[x] = map[x]
    <3>1. x \in present
      BY <1>1, <1>3, InHand DEF JointInv
    <3>2. QED
      BY <1>4, <3>1, OffloadFacts DEF ListingExact
  <2>2. QED
    BY <1>2, <1>6, <2>1, SeenFacts
<1>8. \A i \in Items : (SeenOnce(i)' <=> SeenOnce(i)) /\ (SeenTwice(i)' <=> SeenTwice(i))
  BY <1>3, <1>5 DEF SeenOnce, SeenTwice, ScannedNow
<1>9. \A i \in Items : i # x => rmap_tree'[i] = rmap_tree[i]
  BY <1>2, <1>3 DEF ServerInv, TypeOK
<1>10. \A i : WillJoin(i) => WillJoin(i)'
  <2>1. PICK r : r = IF IsLastItem(x) THEN log_stale_node(x) ELSE log_item_state_change(x)
    OBVIOUS
  <2>2. log' = Append(log, r) /\ log \in Seq(LogRec)
    BY <1>2, <1>3, <2>1 DEF ServerInv, TypeOK
  <2>3. \A k \in DOMAIN log : k \in DOMAIN log' /\ log'[k] = log[k]
    BY <2>2, AppendEntry
  <2>4. QED
    BY <1>5, <2>3 DEF WillJoin, MergeItems
<1>11. ASSUME NEW i \in Items, SeenOnce(i), InNode(i)
       PROVE  /\ NodeOf(i)'.chain = NodeOf(i).chain
              /\ NodeOf(i)'.page_hash = NodeOf(i).page_hash
              /\ NodeOf(i)'.pfn = NodeOf(i).pfn
  <2>1. i # x
    BY <1>6, <1>11
  <2>2. PICK m : m = rmap_tree[i].stable_node
    OBVIOUS
  <2>3. /\ node'[m].chain = node[m].chain /\ node'[m].pfn = node[m].pfn
        /\ node'[m].page_hash = node[m].page_hash
    BY <1>2, <1>3, <1>4, <1>11, <2>1, <2>2, NodesKept DEF InNode
  <2>4. NodeOf(i) = node[m] /\ NodeOf(i)' = node'[m]
    BY <1>9, <2>1, <2>2 DEF NodeOf
  <2>5. QED
    BY <2>3, <2>4
<1>12. ASSUME NEW i \in Items, SeenOnce(i)
       PROVE  (InNode(i)' <=> InNode(i)) /\ rmap_tree'[i] = rmap_tree[i]
  BY <1>6, <1>9, <1>12 DEF InNode
<1>13. SameSeen
  BY <1>3, <1>5, <1>7, <1>8, <1>10, <1>11, <1>12 DEF SameSeen
<1>14. Placed' /\ KeysRight' /\ AloneOK' /\ FullOK'
  BY <1>2, <1>13, SameSettled
<1>15. NoneJoins' /\ NoneLeaves' /\ Candidates'
  BY <1>5, <1>7 DEF NoneJoins, NoneLeaves, Candidates
<1>16. PageRead'
  BY <1>3, <1>5 DEF SettledParts, PageRead
<1>17. QED
  BY <1>14, <1>15, <1>16 DEF SettledParts

\* The candidates become volatile again; their content stays remembered.
LEMMA PruneMetadataQuiet ==
  ASSUME JointInv, SettledParts, quiet >= 1,
         hphase = "offload", UNCHANGED hostVars, prune_metadata
  PROVE  SettledParts'
<1>1. SystemTypeOK
  BY DEF JointInv, GuestInv
<1>2. /\ node' = node /\ log' = log /\ clashed' = clashed /\ page' = page /\ todo' = todo
      /\ page = NoPage /\ phase' = "prune"
      /\ rmap_tree' = [i \in Items |->
                         IF \E h \in Hashes : unstable_hash_table[h] = i
                         THEN [rmap_tree[i] EXCEPT !.state = "Volatile"]
                         ELSE rmap_tree[i]]
  BY DEF prune_metadata
<1>3. /\ map' = map /\ hphase' = "offload" /\ quiet' = quiet
      /\ Todo = DOMAIN log /\ Todo' = DOMAIN log'
      /\ \A i : ContentOf(i)' = ContentOf(i)
  BY OffloadQuiet
<1>4. ASSUME NEW i \in Items
      PROVE  /\ rmap_tree'[i].state = "Stable" <=> rmap_tree[i].state = "Stable"
             /\ rmap_tree'[i].stable_node = rmap_tree[i].stable_node
             /\ rmap_tree'[i].old_hash = rmap_tree[i].old_hash
             /\ rmap_tree[i].state # "Absent" => rmap_tree'[i].state # "Absent"
  <2>1. CASE \E h \in Hashes : unstable_hash_table[h] = i
    <3>1. rmap_tree[i].state = "Unstable"
      BY <2>1, ServerAssumption DEF JointInv, ServerInv, UnstableExact
    <3>2. rmap_tree[i] \in ItemRec
      BY DEF JointInv, ServerInv, TypeOK
    <3>3. rmap_tree'[i] = [rmap_tree[i] EXCEPT !.state = "Volatile"]
      BY <1>2, <2>1
    <3>4. QED
      BY <3>1, <3>2, <3>3 DEF ItemRec
  <2>2. CASE ~\E h \in Hashes : unstable_hash_table[h] = i
    BY <1>2, <2>2
  <2>3. QED
    BY <2>1, <2>2
<1>5. \A i \in Items : (SeenOnce(i)' <=> SeenOnce(i)) /\ (SeenTwice(i)' <=> SeenTwice(i))
  BY <1>2, <1>3 DEF SeenOnce, SeenTwice, ScannedNow
<1>6. \A i \in Items : (InNode(i)' <=> InNode(i)) /\ NodeOf(i)' = NodeOf(i)
  BY <1>2, <1>4 DEF InNode, NodeOf
<1>7. \A i : WillJoin(i)' <=> WillJoin(i)
  BY <1>2, <1>3 DEF WillJoin, MergeItems
<1>8. SameSeen
  BY <1>2, <1>3, <1>4, <1>5, <1>6, <1>7 DEF SameSeen
<1>9. Placed' /\ KeysRight' /\ AloneOK' /\ FullOK'
  BY <1>1, <1>8, SameSettled
<1>10. NoneJoins'
  BY <1>3, <1>7, <1>8, SameJoins
<1>11. NoneLeaves' /\ PageRead' /\ Candidates'
  BY <1>2, <1>3 DEF SettledParts, NoneLeaves, IsMerge, PageRead, Candidates
<1>12. QED
  BY <1>9, <1>10, <1>11 DEF SettledParts

\* The result is sent.
LEMMA SendResultQuiet ==
  ASSUME JointInv, SettledParts, hphase = "offload", UNCHANGED hostVars, SendResult
  PROVE  SettledParts'
<1>1. SystemTypeOK
  BY DEF JointInv, GuestInv
<1>2. /\ rmap_tree' = rmap_tree /\ node' = node /\ clashed' = clashed /\ log' = log
      /\ todo' = todo /\ page' = page /\ phase' = "wait"
  BY DEF SendResult, metaVars
<1>3. /\ map' = map /\ content' = content /\ hphase' = hphase /\ quiet' = quiet
      /\ Todo = DOMAIN log /\ Todo' = DOMAIN log'
  BY OffloadQuiet
<1>4. QED
  BY <1>1, <1>2, <1>3, SameAll

\* A page whose content has changed is remembered with it, in the first quiet
\* round.
LEMMA VolatileChangedQuiet ==
  ASSUME JointInv, ListingExact, SettledParts, quiet >= 1,
         hphase = "offload", UNCHANGED hostVars, VolatileChanged
  PROVE  SettledParts'
<1>1. PICK x : x = page.item
  OBVIOUS
<1>2. SystemTypeOK /\ PageRead /\ Placed /\ KeysRight
  BY DEF JointInv, GuestInv, SettledParts
<1>3. /\ page # NoPage /\ page' = NoPage /\ todo' = todo /\ node' = node /\ log' = log
      /\ rmap_tree[x].state = "Volatile" /\ rmap_tree[x].old_hash # page.hash
      /\ rmap_tree' = [rmap_tree EXCEPT ![x].old_hash = page.hash]
  BY <1>1 DEF VolatileChanged, PageInHand, scanRest, curr
<1>4. /\ x \in Items /\ page.hash = ContentOf(x)
      /\ SeenOnce(x) <=> quiet >= 2
      /\ \A i \in Items : i # x => (SeenOnce(i)' <=> SeenOnce(i))
      /\ \A i \in Items : SeenOnce(i) => SeenOnce(i)'
      /\ PageRead'
  BY <1>1, <1>2, <1>3, PutDownQuiet
<1>5. ~InNode(x)
  BY <1>3 DEF InNode
<1>6. ~(quiet >= 2) /\ quiet \in Nat
  BY <1>2, <1>3, <1>4, <1>5, SeenFacts DEF Placed
<1>7. /\ map' = map /\ quiet' = quiet /\ Todo = DOMAIN log /\ Todo' = DOMAIN log'
      /\ \A i : ContentOf(i)' = ContentOf(i)
  BY OffloadQuiet
<1>8. /\ rmap_tree'[x].state = "Volatile" /\ rmap_tree'[x].old_hash = page.hash
      /\ \A i \in Items : i # x => rmap_tree'[i] = rmap_tree[i]
  <2>1. rmap_tree \in [Items -> ItemRec]
    BY DEF JointInv, ServerInv, TypeOK
  <2>2. rmap_tree'[x] = [rmap_tree[x] EXCEPT !.old_hash = page.hash] /\ rmap_tree[x] \in ItemRec
    BY <1>3, <1>4, <2>1
  <2>3. rmap_tree'[x].state = "Volatile" /\ rmap_tree'[x].old_hash = page.hash
    BY <1>3, <2>2 DEF ItemRec
  <2>4. QED
    BY <1>3, <2>1, <2>3
<1>9. \A i \in Items : i # x => (InNode(i)' <=> InNode(i)) /\ NodeOf(i)' = NodeOf(i)
  BY <1>3, <1>8 DEF InNode, NodeOf
<1>10. ~InNode(x)'
  BY <1>8 DEF InNode
<1>11. \A i : WillJoin(i)' <=> WillJoin(i)
  BY <1>3, <1>7 DEF WillJoin, MergeItems
<1>12. Placed'
  <2>1. ASSUME NEW i \in Items, SeenOnce(i)'
        PROVE  IF InNode(i)' THEN map'[i] = NodeOf(i)'.pfn \/ WillJoin(i)'
               ELSE rmap_tree'[i].state # "Absent" /\ rmap_tree'[i].old_hash = ContentOf(i)'
    <3>1. CASE i = x
      BY <1>4, <1>7, <1>8, <1>10, <3>1
    <3>2. CASE i # x
      <4>1. IF InNode(i) THEN map[i] = NodeOf(i).pfn \/ WillJoin(i)
            ELSE rmap_tree[i].state # "Absent" /\ rmap_tree[i].old_hash = ContentOf(i)
        BY <1>2, <1>4, <2>1, <3>2 DEF Placed
      <4>2. QED
        BY <1>7, <1>8, <1>9, <1>11, <3>2, <4>1
    <3>3. QED
      BY <3>1, <3>2
  <2>2. QED
    BY <2>1 DEF Placed
<1>13. KeysRight'
  <2>1. ASSUME NEW i \in Items, SeenOnce(i)', InNode(i)', PureFor(i)'
        PROVE  NodeOf(i)'.page_hash = ContentOf(i)'
    <3>1. i # x
      BY <1>10, <2>1
    <3>2. PureFor(i)
      <4>1. \A j \in Items : (SeenOnce(j) /\ InNode(j)) =>
              SeenOnce(j)' /\ InNode(j)' /\ NodeOf(j)'.chain = NodeOf(j).chain
        BY <1>4, <1>5, <1>9
      <4>2. NodeOf(i)'.chain = NodeOf(i).chain
        BY <1>9, <3>1
      <4>3. QED
        BY <1>7, <2>1, <4>1, <4>2, FewerPure
    <3>3. QED
      BY <1>2, <1>4, <1>7, <1>9, <2>1, <3>1, <3>2 DEF KeysRight
  <2>2. QED
    BY <2>1 DEF KeysRight
<1>14. \A i : ~SeenTwice(i)'
  BY <1>6, <1>7 DEF SeenTwice
<1>15. AloneOK' /\ FullOK' /\ NoneJoins' /\ NoneLeaves' /\ Candidates'
  BY <1>6, <1>7, <1>14 DEF AloneOK, FullOK, NoneJoins, NoneLeaves, Candidates
<1>16. QED
  BY <1>4, <1>12, <1>13, <1>15 DEF SettledParts

\* A set of numbers that is not empty has a least one.
LEMMA LeastOf ==
  ASSUME NEW S \in SUBSET Nat, S # {}
  PROVE  \E x \in S : \A y \in S : x <= y
<1>1. \E x \in S : \A y \in S : ~(<<y, x>> \in OpToRel(<, Nat))
  BY NatLessThanWellFounded, WFMin, Zenon
<1>2. ASSUME NEW x \in Nat, NEW y \in Nat
      PROVE  <<y, x>> \in OpToRel(<, Nat) <=> y < x
  BY DEF OpToRel
<1>3. ASSUME NEW x \in Nat, NEW y \in Nat, ~(y < x)
      PROVE  x <= y
  BY <1>3
<1>4. QED
  BY <1>1, <1>2, <1>3, Zenon

\* cmp_with_stable finds a node if the chain under the hash has one with room.
LEMMA NoRoom ==
  ASSUME JointInv, NEW h, cmp_with_stable(h) = {},
         NEW n \in NodeIds, Live(n), node[n].chain = stable_hash_table[h]
  PROVE  node[n].shared_cnt = MAX_PAGE_SHARING
<1> DEFINE open == {m \in Chain(node, stable_hash_table[h]) : node[m].shared_cnt < MAX_PAGE_SHARING}
<1>1. open \in SUBSET Nat
  BY ServerAssumption DEF Chain, NodeIds
<1>2. cmp_with_stable(h) = {m \in open : \A l \in open : m <= l}
  BY DEF cmp_with_stable
<1>3. open = {}
  <2> HIDE DEF open
  <2>1. SUFFICES ASSUME open # {} PROVE FALSE
    OBVIOUS
  <2>2. PICK m \in open : \A l \in open : m <= l
    BY <1>1, <2>1, LeastOf
  <2>3. QED
    BY <1>2, <2>2
<1>4. n \in Chain(node, stable_hash_table[h])
  BY DEF Chain, Live
<1>5. ~(node[n].shared_cnt < MAX_PAGE_SHARING)
  BY <1>3, <1>4
<1>6. node[n].shared_cnt \in 1 .. MAX_PAGE_SHARING
  BY DEF JointInv, ServerInv, StructInv, CountsExact
<1>7. QED
  BY <1>5, <1>6, ServerAssumption

\* A page that is in no node and has been scanned in the second quiet round is
\* the candidate of its content.
LEMMA OneCandidate ==
  ASSUME JointInv, Placed, Candidates, quiet = 2, hphase = "offload", phase = "work",
         NEW i \in Items, SeenTwice(i), ~InNode(i)
  PROVE  unstable_hash_table[ContentOf(i)] = i
<1>1. map[i] # NoPfn /\ ScannedNow(i) /\ SeenOnce(i)
  BY DEF SeenTwice, SeenOnce
<1>2. rmap_tree[i].state = "Unstable"
  BY <1>1 DEF Candidates
<1>3. rmap_tree[i].old_hash = ContentOf(i)
  BY <1>1 DEF Placed
<1>4. QED
  BY <1>2, <1>3 DEF JointInv, ServerInv, UnstableExact

\* A page that finds no page to share with is the only candidate of its content,
\* and the nodes of its content are full.
LEMMA InsertUnstableQuiet ==
  ASSUME JointInv, ListingExact, SettledParts, quiet >= 1,
         hphase = "offload", UNCHANGED hostVars, InsertUnstable
  PROVE  SettledParts'
<1>1. PICK x : x = page.item
  OBVIOUS
<1>2. PICK h : h = page.hash
  OBVIOUS
<1>3. SystemTypeOK
  BY DEF JointInv, GuestInv
<1>4. PageRead /\ Placed /\ NoneLeaves /\ KeysRight /\ Candidates /\ AloneOK /\ FullOK /\ NoneJoins
  BY DEF SettledParts
<1>5. /\ page # NoPage /\ page' = NoPage /\ todo' = todo /\ node' = node /\ log' = log
      /\ phase = "work" /\ phase' = phase /\ clashed' = clashed
      /\ rmap_tree[x].state = "Volatile" /\ rmap_tree[x].old_hash = h
      /\ cmp_with_stable(h) = {} /\ unstable_hash_table[h] = NoItem
      /\ rmap_tree' = [rmap_tree EXCEPT ![x].state = "Unstable"]
  BY <1>1, <1>2 DEF InsertUnstable, PageInHand, scanRest, curr, NoStableMatch, TryStable
<1>6. /\ x \in Items /\ h = ContentOf(x) /\ SeenOnce(x)'
      /\ SeenTwice(x)' <=> quiet >= 2
      /\ SeenTwice(x) <=> quiet >= 3
      /\ \A i \in Items : i # x => /\ SeenOnce(i)' <=> SeenOnce(i)
                                   /\ SeenTwice(i)' <=> SeenTwice(i)
                                   /\ ScannedNow(i)' <=> ScannedNow(i)
      /\ \A i \in Items : SeenOnce(i) => SeenOnce(i)'
      /\ PageRead'
  BY <1>1, <1>2, <1>4, <1>5, PutDownQuiet
<1>7. /\ map' = map /\ quiet' = quiet /\ Todo = DOMAIN log /\ Todo' = DOMAIN log'
      /\ \A i : ContentOf(i)' = ContentOf(i)
  BY OffloadQuiet
<1>8. /\ rmap_tree'[x].state = "Unstable" /\ rmap_tree'[x].old_hash = h
      /\ \A i \in Items : i # x => rmap_tree'[i] = rmap_tree[i]
  <2>1. rmap_tree \in [Items -> ItemRec]
    BY DEF JointInv, ServerInv, TypeOK
  <2>2. rmap_tree'[x] = [rmap_tree[x] EXCEPT !.state = "Unstable"] /\ rmap_tree[x] \in ItemRec
    BY <1>5, <1>6, <2>1
  <2>3. rmap_tree'[x].state = "Unstable" /\ rmap_tree'[x].old_hash = h
    BY <1>5, <2>2 DEF ItemRec
  <2>4. QED
    BY <1>5, <2>1, <2>3
<1>9. ~InNode(x) /\ ~InNode(x)'
  BY <1>5, <1>8 DEF InNode
<1>10. \A i \in Items : i # x => (InNode(i)' <=> InNode(i)) /\ NodeOf(i)' = NodeOf(i)
  BY <1>5, <1>8 DEF InNode, NodeOf
<1>11. \A i : WillJoin(i)' <=> WillJoin(i)
  BY <1>5, <1>7 DEF WillJoin, MergeItems
<1>12. \A i \in Items : (i # x /\ PureFor(i)') => PureFor(i)
  BY <1>6, <1>7, <1>9, <1>10, FewerPure
<1>13. quiet \in Nat /\ \A i \in Items : SeenTwice(i) => quiet >= 2
  BY <1>3, SeenFacts
<1>14. Placed'
  <2>1. ASSUME NEW i \in Items, SeenOnce(i)'
        PROVE  IF InNode(i)' THEN map'[i] = NodeOf(i)'.pfn \/ WillJoin(i)'
               ELSE rmap_tree'[i].state # "Absent" /\ rmap_tree'[i].old_hash = ContentOf(i)'
    <3>1. CASE i = x
      BY <1>6, <1>7, <1>8, <1>9, <3>1
    <3>2. CASE i # x
      <4>1. IF InNode(i) THEN map[i] = NodeOf(i).pfn \/ WillJoin(i)
            ELSE rmap_tree[i].state # "Absent" /\ rmap_tree[i].old_hash = ContentOf(i)
        BY <1>4, <1>6, <2>1, <3>2 DEF Placed
      <4>2. QED
        BY <1>7, <1>8, <1>10, <1>11, <3>2, <4>1
    <3>3. QED
      BY <3>1, <3>2
  <2>2. QED
    BY <2>1 DEF Placed
<1>15. KeysRight'
  <2>1. ASSUME NEW i \in Items, SeenOnce(i)', InNode(i)', PureFor(i)'
        PROVE  NodeOf(i)'.page_hash = ContentOf(i)'
    <3>1. i # x
      BY <1>9, <2>1
    <3>2. QED
      BY <1>4, <1>6, <1>7, <1>10, <1>12, <2>1, <3>1 DEF KeysRight
  <2>2. QED
    BY <2>1 DEF KeysRight
<1>16. ASSUME NEW y \in Items, y # x, SeenTwice(y), ~InNode(y), ContentOf(y) = h, quiet >= 2
       PROVE  FALSE
  <2>1. CASE quiet >= 3
    BY <1>4, <1>6, <1>9, <1>16, <2>1 DEF AloneOK
  <2>2. CASE quiet = 2
    <3>1. unstable_hash_table[h] = y
      BY <1>4, <1>5, <1>16, <2>2, OneCandidate
    <3>2. QED
      BY <1>5, <3>1, ServerAssumption
  <2>3. QED
    BY <1>13, <1>16, <2>1, <2>2
<1>17. AloneOK'
  <2>1. ASSUME NEW i \in Items, NEW j \in Items, i # j, SeenTwice(i)', SeenTwice(j)',
               ~InNode(i)', ContentOf(i)' = ContentOf(j)', ~InNode(j)'
        PROVE  FALSE
    <3>1. CASE i # x /\ j # x
      <4>1. SeenTwice(i) /\ SeenTwice(j) /\ ~InNode(i) /\ ~InNode(j) /\ ContentOf(i) = ContentOf(j)
        BY <1>6, <1>7, <1>10, <2>1, <3>1
      <4>2. QED
        BY <1>4, <2>1, <4>1 DEF AloneOK
    <3>2. CASE i = x
      <4>1. j # x /\ SeenTwice(j) /\ ~InNode(j) /\ ContentOf(j) = h /\ quiet >= 2
        BY <1>6, <1>7, <1>10, <1>13, <2>1, <3>2
      <4>2. QED
        BY <1>16, <4>1
    <3>3. CASE j = x
      <4>1. i # x /\ SeenTwice(i) /\ ~InNode(i) /\ ContentOf(i) = h /\ quiet >= 2
        BY <1>6, <1>7, <1>10, <1>13, <2>1, <3>3
      <4>2. QED
        BY <1>16, <4>1
    <3>4. QED
      BY <3>1, <3>2, <3>3
  <2>2. QED
    BY <2>1 DEF AloneOK
<1>18. \A i \in Items : (SeenOnce(i)' /\ quiet >= 2) => SeenOnce(i)
  <2>1. \A i \in Items : SeenOnce(i)' => map[i] # NoPfn
    BY <1>7 DEF SeenOnce
  <2>2. QED
    BY <1>3, <2>1, SeenFacts
<1>19. FullOK'
  <2>1. ASSUME ~clashed', NEW i \in Items, NEW j \in Items, SeenTwice(i)', ~InNode(i)',
               SeenOnce(j)', InNode(j)', PureFor(j)', ContentOf(i)' = ContentOf(j)'
        PROVE  NodeOf(j)'.shared_cnt = MAX_PAGE_SHARING
    <3>1. quiet >= 2
      BY <1>6, <1>13, <2>1
    <3>2. j # x /\ SeenOnce(j) /\ InNode(j) /\ PureFor(j) /\ NodeOf(j)' = NodeOf(j) /\ ~clashed
          /\ ContentOf(i) = ContentOf(j)
      BY <1>5, <1>7, <1>9, <1>10, <1>12, <1>18, <2>1, <3>1
    <3>3. CASE i # x
      <4>1. SeenTwice(i) /\ ~InNode(i)
        BY <1>6, <1>10, <2>1, <3>3
      <4>2. QED
        BY <1>4, <3>2, <4>1 DEF FullOK
    <3>4. CASE i = x
      <4>1. NodeOf(j).page_hash = h
        BY <1>4, <1>6, <3>2, <3>4 DEF KeysRight
      <4>2. PICK n \in NodeIds : n = rmap_tree[j].stable_node /\ Live(n)
        BY <3>2, OffloadItems DEF InNode
      <4>3. stable_hash_table[h] = node[n].chain
        BY <3>2, <4>1, <4>2 DEF NodeOf, JointInv, ServerInv, StructInv, TableComplete
      <4>4. node[n].shared_cnt = MAX_PAGE_SHARING
        BY <1>5, <4>2, <4>3, NoRoom
      <4>5. QED
        BY <3>2, <4>2, <4>4 DEF NodeOf
    <3>5. QED
      BY <3>3, <3>4
  <2>2. QED
    BY <2>1 DEF FullOK
<1>20. NoneJoins'
  <2>1. ASSUME quiet' >= 3, ~clashed', NEW i \in Items, SeenOnce(i)', InNode(i)', PureFor(i)'
        PROVE  ~WillJoin(i)'
    <3>1. quiet >= 3 /\ i # x
      BY <1>7, <1>9, <2>1
    <3>2. SeenOnce(i) /\ InNode(i) /\ PureFor(i)
      BY <1>6, <1>10, <1>12, <2>1, <3>1
    <3>3. QED
      BY <1>4, <1>5, <1>11, <2>1, <3>1, <3>2 DEF NoneJoins
  <2>2. QED
    BY <2>1 DEF NoneJoins
<1>21. NoneLeaves'
  BY <1>4, <1>5, <1>7 DEF NoneLeaves, IsMerge
<1>22. Candidates'
  <2>1. ASSUME quiet >= 2, NEW i \in Items, ScannedNow(i)', map[i] # NoPfn, ~InNode(i)'
        PROVE  rmap_tree'[i].state = "Unstable"
    <3>1. CASE i = x
      BY <1>8, <3>1
    <3>2. CASE i # x
      BY <1>4, <1>5, <1>6, <1>8, <1>10, <2>1, <3>2 DEF Candidates
    <3>3. QED
      BY <3>1, <3>2
  <2>2. QED
    BY <1>7, <2>1 DEF Candidates
<1>23. QED
  BY <1>6, <1>14, <1>15, <1>17, <1>19, <1>20, <1>21, <1>22 DEF SettledParts

\* A page joins a node of its content.  After the second quiet round no node
\* with one content has room for it.
LEMMA MergeWithStableQuiet ==
  ASSUME JointInv, AgreeParts, ListingExact, SettledParts, quiet >= 1,
         hphase = "offload", UNCHANGED hostVars, MergeWithStable
  PROVE  SettledParts'
<1>1. PICK x : x = page.item
  OBVIOUS
<1>2. PICK h : h = page.hash
  OBVIOUS
<1>3. SystemTypeOK
  BY DEF JointInv, GuestInv
<1>4. PageRead /\ Placed /\ NoneLeaves /\ KeysRight /\ Candidates /\ AloneOK /\ FullOK /\ NoneJoins
  BY DEF SettledParts
<1>5. PICK n \in cmp_with_stable(h) :
         /\ node' = insert_item_to_node(node, n, x)
         /\ rmap_tree' = [rmap_tree EXCEPT ![x] = ItemInNode(rmap_tree[x], node, n)]
         /\ log' = Append(log, log_stable_merge(x, n))
  BY <1>1, <1>2 DEF MergeWithStable
<1>6. /\ page # NoPage /\ page' = NoPage /\ todo' = todo
      /\ phase = "work" /\ phase' = phase /\ clashed' = clashed
      /\ rmap_tree[x].state = "Volatile"
  BY <1>1 DEF MergeWithStable, PageInHand, scanRest, curr
<1>7. /\ x \in Items /\ h = ContentOf(x) /\ SeenOnce(x)'
      /\ SeenTwice(x) <=> quiet >= 3
      /\ \A i \in Items : i # x => /\ SeenOnce(i)' <=> SeenOnce(i)
                                   /\ SeenTwice(i)' <=> SeenTwice(i)
                                   /\ ScannedNow(i)' <=> ScannedNow(i)
      /\ \A i \in Items : SeenOnce(i) => SeenOnce(i)'
      /\ PageRead'
  BY <1>1, <1>2, <1>4, <1>6, PutDownQuiet
<1>8. /\ map' = map /\ quiet' = quiet /\ Todo = DOMAIN log /\ Todo' = DOMAIN log'
      /\ \A i : ContentOf(i)' = ContentOf(i)
  BY OffloadQuiet
<1>9. node \in [NodeIds -> NodeRec] /\ rmap_tree \in [Items -> ItemRec] /\ log \in Seq(LogRec)
  BY DEF JointInv, ServerInv, TypeOK
<1>10. h \in Hashes
  BY <1>1, <1>2, InHand DEF JointInv, MergeWithStable
<1>11. /\ n \in NodeIds /\ Live(n) /\ node[n].shared_cnt < MAX_PAGE_SHARING /\ node[n].page_hash = h
  <2>1. n \in Chain(node, stable_hash_table[h]) /\ node[n].shared_cnt < MAX_PAGE_SHARING
    BY DEF cmp_with_stable
  <2>2. n \in NodeIds /\ Live(n) /\ stable_hash_table[h] # NoNode
    BY <2>1 DEF Chain, Live
  <2>3. QED
    BY <1>10, <2>1, <2>2 DEF JointInv, ServerInv, StructInv, TableSound
<1>12. /\ node'[n].chain = node[n].chain /\ node'[n].page_hash = h
       /\ \A m \in NodeIds : m # n => node'[m] = node[m]
       /\ \A m \in NodeIds : /\ node'[m].chain = node[m].chain /\ node'[m].pfn = node[m].pfn
                             /\ node'[m].page_hash = node[m].page_hash
  BY <1>5, <1>9, <1>11 DEF insert_item_to_node, NodeRec
<1>13. /\ rmap_tree'[x].state = "Stable" /\ rmap_tree'[x].stable_node = n
       /\ \A i \in Items : i # x => rmap_tree'[i] = rmap_tree[i]
  <2>1. rmap_tree'[x] = ItemInNode(rmap_tree[x], node, n) /\ rmap_tree[x] \in ItemRec
    BY <1>5, <1>7, <1>9
  <2>2. rmap_tree'[x].state = "Stable" /\ rmap_tree'[x].stable_node = n
    BY <2>1 DEF ItemInNode, ItemRec
  <2>3. QED
    BY <1>5, <1>9, <2>2
<1>14. ~InNode(x) /\ InNode(x)' /\ NodeOf(x)' = node'[n]
  BY <1>6, <1>13 DEF InNode, NodeOf
<1>15. \A i \in Items : i # x =>
         /\ InNode(i)' <=> InNode(i)
         /\ InNode(i) =>
              /\ NodeOf(i)'.chain = NodeOf(i).chain /\ NodeOf(i)'.pfn = NodeOf(i).pfn
              /\ NodeOf(i)'.page_hash = NodeOf(i).page_hash
              /\ rmap_tree[i].stable_node # n => NodeOf(i)' = NodeOf(i)
  BY <1>12, <1>13, OffloadItems DEF InNode, NodeOf
<1>16. PICK r : r = log_stable_merge(x, n)
  OBVIOUS
<1>17. r \in LogRec /\ IsMerge(r) /\ MergeItems(r) = {x} /\ log' = Append(log, r)
  <2>1. node[n].pfn \in Pfns \cup {NoPfn}
    BY <1>9, <1>11 DEF NodeRec
  <2>2. r \in LogRec /\ r.type = "STABLE_MERGE" /\ r.from = x
    BY <1>7, <1>16, <2>1 DEF log_stable_merge, LogRec
  <2>3. QED
    BY <1>5, <1>16, <2>2 DEF MergeItems, IsMerge
<1>18. PICK here : here = Len(log) + 1
  OBVIOUS
<1>19. /\ \A k \in DOMAIN log : k \in DOMAIN log' /\ log'[k] = log[k]
       /\ \A k \in DOMAIN log' : k \in DOMAIN log \/ (k = here /\ log'[k] = r)
       /\ here \in DOMAIN log' /\ log'[here] = r
  BY <1>9, <1>17, <1>18, LogGrows
<1>20. WillJoin(x)' /\ \A i : WillJoin(i) => WillJoin(i)'
  BY <1>8, <1>17, <1>19 DEF WillJoin, MergeItems
<1>21. \A i : (i # x /\ WillJoin(i)') => WillJoin(i)
  BY <1>8, <1>17, <1>19 DEF WillJoin, MergeItems
<1>22. \A j \in Items : (SeenOnce(j) /\ InNode(j)) =>
         j # x /\ SeenOnce(j)' /\ InNode(j)' /\ NodeOf(j)'.chain = NodeOf(j).chain
  BY <1>7, <1>14, <1>15
<1>23. \A i \in Items : (i # x /\ InNode(i) /\ PureFor(i)') => PureFor(i)
  BY <1>8, <1>15, <1>22, FewerPure
<1>24. quiet \in Nat /\ \A i \in Items : SeenTwice(i) => quiet >= 2
  BY <1>3, SeenFacts
<1>25. \A i \in Items : (SeenOnce(i)' /\ quiet >= 2) => SeenOnce(i)
  <2>1. \A i \in Items : SeenOnce(i)' => map[i] # NoPfn
    BY <1>8 DEF SeenOnce
  <2>2. QED
    BY <1>3, <2>1, SeenFacts
<1>26. Placed'
  <2>1. ASSUME NEW i \in Items, SeenOnce(i)'
        PROVE  IF InNode(i)' THEN map'[i] = NodeOf(i)'.pfn \/ WillJoin(i)'
               ELSE rmap_tree'[i].state # "Absent" /\ rmap_tree'[i].old_hash = ContentOf(i)'
    <3>1. CASE i = x
      BY <1>14, <1>20, <3>1
    <3>2. CASE i # x
      <4>1. IF InNode(i) THEN map[i] = NodeOf(i).pfn \/ WillJoin(i)
            ELSE rmap_tree[i].state # "Absent" /\ rmap_tree[i].old_hash = ContentOf(i)
        BY <1>4, <1>7, <2>1, <3>2 DEF Placed
      <4>2. QED
        BY <1>8, <1>13, <1>15, <1>20, <3>2, <4>1
    <3>3. QED
      BY <3>1, <3>2
  <2>2. QED
    BY <2>1 DEF Placed
<1>27. KeysRight'
  <2>1. ASSUME NEW i \in Items, SeenOnce(i)', InNode(i)', PureFor(i)'
        PROVE  NodeOf(i)'.page_hash = ContentOf(i)'
    <3>1. CASE i = x
      BY <1>7, <1>8, <1>12, <1>14, <3>1
    <3>2. CASE i # x
      BY <1>4, <1>7, <1>8, <1>15, <1>23, <2>1, <3>2 DEF KeysRight
    <3>3. QED
      BY <3>1, <3>2
  <2>2. QED
    BY <2>1 DEF KeysRight
<1>28. AloneOK'
  <2>1. ASSUME NEW i \in Items, NEW j \in Items, i # j, SeenTwice(i)', SeenTwice(j)',
               ~InNode(i)', ContentOf(i)' = ContentOf(j)'
        PROVE  InNode(j)'
    <3>1. CASE j = x
      BY <1>14, <3>1
    <3>2. CASE j # x
      <4>1. i # x /\ ~InNode(i) /\ SeenTwice(i) /\ SeenTwice(j) /\ ContentOf(i) = ContentOf(j)
        BY <1>7, <1>8, <1>14, <1>15, <2>1, <3>2
      <4>2. InNode(j)
        BY <1>4, <2>1, <4>1 DEF AloneOK
      <4>3. QED
        BY <1>15, <3>2, <4>2
    <3>3. QED
      BY <3>1, <3>2
  <2>2. QED
    BY <2>1 DEF AloneOK
<1>29. ASSUME ~clashed, PureFor(x)', NEW i \in Items, SeenTwice(i), ~InNode(i), ContentOf(i) = h
       PROVE  FALSE
  <2>1. quiet >= 2
    BY <1>24, <1>29
  <2>2. PICK j \in node[n].sharing : TRUE
    <3>1. node[n].shared_cnt \in 1 .. MAX_PAGE_SHARING /\ node[n].shared_cnt = Cardinality(node[n].sharing)
      BY <1>11 DEF JointInv, ServerInv, StructInv, CountsExact
    <3>2. node[n].shared_cnt # 0
      BY <3>1, ServerAssumption
    <3>3. QED
      BY <3>1, <3>2, FS_EmptySet
  <2>3. j \in Items /\ InNode(j) /\ rmap_tree[j].stable_node = n
    <3>1. j \in Items
      BY <1>9, <1>11, <2>2 DEF NodeRec
    <3>2. QED
      BY <1>11, <2>2, <3>1 DEF JointInv, ServerInv, StructInv, SharingConsistent, InNode
  <2>4. NodeOf(j) = node[n]
    BY <2>3 DEF NodeOf
  <2>5. SeenOnce(j)
    <3>1. map[j] # NoPfn
      BY <2>3 DEF AgreeParts, KnownListed, InNode
    <3>2. QED
      BY <1>3, <2>1, <3>1, SeenFacts
  <2>6. j # x /\ SeenOnce(j)' /\ InNode(j)' /\ NodeOf(j)'.chain = NodeOf(x)'.chain
    BY <1>12, <1>14, <1>22, <2>3, <2>4, <2>5
  <2>7. ContentOf(j)' = ContentOf(x)'
    BY <1>29, <2>3, <2>6 DEF PureFor
  <2>8. PureFor(j)'
    BY <1>29, <2>6, <2>7 DEF PureFor
  <2>9. PureFor(j)
    BY <1>23, <2>3, <2>6, <2>8
  <2>10. NodeOf(j).shared_cnt = MAX_PAGE_SHARING
    <3>1. ContentOf(i) = ContentOf(j)
      BY <1>7, <1>8, <1>29, <2>7
    <3>2. QED
      BY <1>4, <1>29, <2>3, <2>5, <2>9, <3>1 DEF FullOK
  <2>11. QED
    BY <1>11, <2>4, <2>10, ServerAssumption
<1>30. FullOK'
  <2>1. ASSUME ~clashed', NEW i \in Items, NEW j \in Items, SeenTwice(i)', ~InNode(i)',
               SeenOnce(j)', InNode(j)', PureFor(j)', ContentOf(i)' = ContentOf(j)'
        PROVE  NodeOf(j)'.shared_cnt = MAX_PAGE_SHARING
    <3>1. i # x /\ ~InNode(i) /\ SeenTwice(i) /\ ContentOf(i) = ContentOf(j) /\ ~clashed
      BY <1>6, <1>7, <1>8, <1>14, <1>15, <2>1
    <3>2. CASE j = x
      BY <1>7, <1>29, <2>1, <3>1, <3>2
    <3>3. CASE j # x
      <4>1. SeenOnce(j) /\ InNode(j) /\ PureFor(j)
        BY <1>7, <1>15, <1>23, <2>1, <3>3
      <4>2. NodeOf(j).shared_cnt = MAX_PAGE_SHARING
        BY <1>4, <3>1, <4>1 DEF FullOK
      <4>3. rmap_tree[j].stable_node # n
        BY <1>11, <4>2, ServerAssumption DEF NodeOf
      <4>4. QED
        BY <1>15, <3>3, <4>1, <4>2, <4>3
    <3>4. QED
      BY <3>2, <3>3
  <2>2. QED
    BY <2>1 DEF FullOK
<1>31. NoneJoins'
  <2>1. ASSUME quiet' >= 3, ~clashed', NEW i \in Items, SeenOnce(i)', InNode(i)', PureFor(i)',
               WillJoin(i)'
        PROVE  FALSE
    <3>1. quiet >= 3 /\ ~clashed
      BY <1>6, <1>8, <2>1
    <3>2. CASE i = x
      BY <1>7, <1>14, <1>29, <2>1, <3>1, <3>2
    <3>3. CASE i # x
      <4>1. SeenOnce(i) /\ InNode(i) /\ PureFor(i) /\ WillJoin(i)
        BY <1>7, <1>15, <1>21, <1>23, <2>1, <3>3
      <4>2. QED
        BY <1>4, <3>1, <4>1 DEF NoneJoins
    <3>4. QED
      BY <3>2, <3>3
  <2>2. QED
    BY <2>1 DEF NoneJoins
<1>32. NoneLeaves'
  BY <1>4, <1>8, <1>17, <1>19 DEF NoneLeaves, IsMerge
<1>33. Candidates'
  <2>1. ASSUME quiet >= 2, NEW i \in Items, ScannedNow(i)', map[i] # NoPfn, ~InNode(i)'
        PROVE  rmap_tree'[i].state = "Unstable"
    <3>1. i # x
      BY <1>14, <2>1
    <3>2. QED
      BY <1>4, <1>6, <1>7, <1>13, <1>15, <2>1, <3>1 DEF Candidates
  <2>2. QED
    BY <1>8, <2>1 DEF Candidates
<1>34. QED
  BY <1>7, <1>26, <1>27, <1>28, <1>30, <1>31, <1>32, <1>33 DEF SettledParts

\* Two pages with one content become a node.  After the second quiet round no
\* two are left.
LEMMA MergeWithUnstableQuiet ==
  ASSUME JointInv, ListingExact, SettledParts, quiet >= 1,
         hphase = "offload", UNCHANGED hostVars, MergeWithUnstable
  PROVE  SettledParts'
<1>1. PICK x : x = page.item
  OBVIOUS
<1>2. PICK h : h = page.hash
  OBVIOUS
<1>3. PICK y : y = unstable_hash_table[h]
  OBVIOUS
<1>4. PICK n : n = created + 1
  OBVIOUS
<1>5. SystemTypeOK
  BY DEF JointInv, GuestInv
<1>6. PageRead /\ Placed /\ NoneLeaves /\ KeysRight /\ Candidates /\ AloneOK /\ FullOK /\ NoneJoins
  BY DEF SettledParts
<1>7. PICK new : new = [page_hash |-> h, pfn |-> rmap_tree[x].pfn, chain |-> ChainFor(n, h),
                        sharing |-> {}, shared_cnt |-> 0]
  OBVIOUS
<1>8. PICK nd : nd = [node EXCEPT ![n] = new]
  OBVIOUS
<1>9. PICK nd1 : nd1 = insert_item_to_node(nd, n, y)
  OBVIOUS
<1>10. /\ page # NoPage /\ page' = NoPage /\ todo' = todo
       /\ phase = "work" /\ phase' = phase /\ clashed' = clashed
       /\ rmap_tree[x].state = "Volatile" /\ y # NoItem /\ created < MaxNodes
       /\ node' = insert_item_to_node(nd1, n, x)
       /\ log' = Append(log, log_unstable_merge(x, y))
       /\ rmap_tree' = [rmap_tree EXCEPT ![y] = ItemInNode(@, nd, n), ![x] = ItemInNode(@, nd, n)]
  BY <1>1, <1>2, <1>3, <1>4, <1>7, <1>8, <1>9
     DEF MergeWithUnstable, PageInHand, scanRest, curr
<1>11. /\ x \in Items /\ h = ContentOf(x) /\ SeenOnce(x)'
       /\ SeenTwice(x) <=> quiet >= 3
       /\ \A i \in Items : i # x => /\ SeenOnce(i)' <=> SeenOnce(i)
                                    /\ SeenTwice(i)' <=> SeenTwice(i)
                                    /\ ScannedNow(i)' <=> ScannedNow(i)
       /\ \A i \in Items : SeenOnce(i) => SeenOnce(i)'
       /\ PageRead'
  BY <1>1, <1>2, <1>6, <1>10, PutDownQuiet
<1>12. /\ map' = map /\ quiet' = quiet /\ Todo = DOMAIN log /\ Todo' = DOMAIN log'
       /\ \A i : ContentOf(i)' = ContentOf(i)
  BY OffloadQuiet
<1>13. /\ node \in [NodeIds -> NodeRec] /\ rmap_tree \in [Items -> ItemRec] /\ log \in Seq(LogRec)
       /\ created \in 0 .. MaxNodes /\ unstable_hash_table \in [Hashes -> Items \cup {NoItem}]
  BY DEF JointInv, ServerInv, TypeOK
<1>14. h \in Hashes
  BY <1>1, <1>2, InHand DEF JointInv, MergeWithUnstable
<1>15. /\ y \in Items /\ rmap_tree[y].state = "Unstable" /\ rmap_tree[y].old_hash = h
       /\ y \in present /\ y \notin todo /\ y # x
  BY <1>3, <1>10, <1>13, <1>14 DEF JointInv, ServerInv, UnstableExact
<1>16. quiet \in Nat
  BY <1>5, SeenFacts
<1>17. /\ map[y] # NoPfn /\ ScannedNow(y) /\ SeenOnce(y) /\ (quiet >= 2 => SeenTwice(y))
  <2>1. map[y] # NoPfn
    BY <1>15, OffloadFacts DEF ListingExact
  <2>2. ScannedNow(y)
    BY <1>1, <1>15 DEF ScannedNow
  <2>3. QED
    BY <1>16, <2>1, <2>2 DEF SeenOnce, SeenTwice
<1>18. ~InNode(x) /\ ~InNode(y)
  BY <1>10, <1>15 DEF InNode
<1>19. ContentOf(y) = h
  BY <1>6, <1>15, <1>17, <1>18 DEF Placed
<1>20. ~(quiet >= 3)
  <2>1. SUFFICES ASSUME quiet >= 3 PROVE FALSE
    OBVIOUS
  <2>2. SeenTwice(x) /\ SeenTwice(y)
    BY <1>11, <1>16, <1>17, <2>1
  <2>3. QED
    BY <1>6, <1>11, <1>15, <1>18, <1>19, <2>2 DEF AloneOK
<1>21. n \in NodeIds
  BY <1>4, <1>10, <1>13, ServerAssumption DEF NodeIds
<1>22. node'[n].page_hash = h /\ \A m \in NodeIds : m # n => node'[m] = node[m]
  <2>1. nd[n].page_hash = h /\ \A m \in NodeIds : m # n => nd[m] = node[m]
    BY <1>7, <1>8, <1>13, <1>21
  <2>2. DOMAIN nd = NodeIds /\ DOMAIN nd1 = NodeIds
    BY <1>8, <1>9, <1>13 DEF insert_item_to_node
  <2>3. nd1[n].page_hash = h /\ \A m \in NodeIds : m # n => nd1[m] = node[m]
    BY <1>9, <1>21, <2>1, <2>2 DEF insert_item_to_node
  <2>4. QED
    BY <1>10, <1>21, <2>2, <2>3 DEF insert_item_to_node
<1>23. /\ rmap_tree'[x].stable_node = n /\ rmap_tree'[x].state = "Stable"
       /\ rmap_tree'[y].stable_node = n /\ rmap_tree'[y].state = "Stable"
       /\ \A i \in Items : (i # x /\ i # y) => rmap_tree'[i] = rmap_tree[i]
  <2>1. rmap_tree[x] \in ItemRec /\ rmap_tree[y] \in ItemRec
    BY <1>11, <1>13, <1>15
  <2>2. /\ rmap_tree'[x] = ItemInNode(rmap_tree[x], nd, n)
        /\ rmap_tree'[y] = ItemInNode(rmap_tree[y], nd, n)
        /\ \A i \in Items : (i # x /\ i # y) => rmap_tree'[i] = rmap_tree[i]
    BY <1>10, <1>11, <1>13, <1>15
  <2>3. /\ ItemInNode(rmap_tree[x], nd, n).stable_node = n
        /\ ItemInNode(rmap_tree[x], nd, n).state = "Stable"
        /\ ItemInNode(rmap_tree[y], nd, n).stable_node = n
        /\ ItemInNode(rmap_tree[y], nd, n).state = "Stable"
    BY <2>1 DEF ItemInNode, ItemRec
  <2>4. QED
    BY <2>2, <2>3
<1>24. InNode(x)' /\ InNode(y)' /\ NodeOf(x)'.page_hash = h /\ NodeOf(y)'.page_hash = h
  BY <1>22, <1>23 DEF InNode, NodeOf
<1>25. ~Live(n)
  <2>1. node[n] = FreeNode
    BY <1>4, <1>13, <1>21 DEF JointInv, ServerInv, StructInv, NodesOK
  <2>2. QED
    BY <2>1 DEF Live, FreeNode
<1>26. \A i \in Items : (i # x /\ i # y) =>
         /\ InNode(i)' <=> InNode(i)
         /\ InNode(i) => NodeOf(i)' = NodeOf(i)
  <2>1. \A i \in Items : InNode(i) =>
          rmap_tree[i].stable_node \in NodeIds /\ rmap_tree[i].stable_node # n
    BY <1>25, OffloadItems DEF InNode
  <2>2. QED
    BY <1>22, <1>23, <2>1 DEF InNode, NodeOf
<1>27. PICK r : r = log_unstable_merge(x, y)
  OBVIOUS
<1>28. r \in LogRec /\ IsMerge(r) /\ MergeItems(r) = {x, y} /\ log' = Append(log, r)
  <2>1. r \in LogRec /\ r.type = "UNSTABLE_MERGE" /\ r.from = x /\ r.to = y
    BY <1>11, <1>15, <1>27 DEF log_unstable_merge, LogRec
  <2>2. QED
    BY <1>10, <1>27, <2>1 DEF MergeItems, IsMerge
<1>29. PICK here : here = Len(log) + 1
  OBVIOUS
<1>30. /\ \A k \in DOMAIN log : k \in DOMAIN log' /\ log'[k] = log[k]
       /\ \A k \in DOMAIN log' : k \in DOMAIN log \/ (k = here /\ log'[k] = r)
       /\ here \in DOMAIN log' /\ log'[here] = r
  BY <1>13, <1>28, <1>29, LogGrows
<1>31. WillJoin(x)' /\ WillJoin(y)' /\ \A i : WillJoin(i) => WillJoin(i)'
  BY <1>12, <1>28, <1>30 DEF WillJoin, MergeItems
<1>32. \A i \in Items : (i # x /\ i # y /\ InNode(i) /\ PureFor(i)') => PureFor(i)
  <2>1. \A j \in Items : (SeenOnce(j) /\ InNode(j)) =>
          SeenOnce(j)' /\ InNode(j)' /\ NodeOf(j)'.chain = NodeOf(j).chain
    BY <1>11, <1>18, <1>26
  <2>2. QED
    BY <1>12, <1>26, <2>1, FewerPure
<1>33. Placed'
  <2>1. ASSUME NEW i \in Items, SeenOnce(i)'
        PROVE  IF InNode(i)' THEN map'[i] = NodeOf(i)'.pfn \/ WillJoin(i)'
               ELSE rmap_tree'[i].state # "Absent" /\ rmap_tree'[i].old_hash = ContentOf(i)'
    <3>1. CASE i = x \/ i = y
      BY <1>24, <1>31, <3>1
    <3>2. CASE i # x /\ i # y
      <4>1. IF InNode(i) THEN map[i] = NodeOf(i).pfn \/ WillJoin(i)
            ELSE rmap_tree[i].state # "Absent" /\ rmap_tree[i].old_hash = ContentOf(i)
        BY <1>6, <1>11, <2>1, <3>2 DEF Placed
      <4>2. QED
        BY <1>12, <1>23, <1>26, <1>31, <3>2, <4>1
    <3>3. QED
      BY <3>1, <3>2
  <2>2. QED
    BY <2>1 DEF Placed
<1>34. KeysRight'
  <2>1. ASSUME NEW i \in Items, SeenOnce(i)', InNode(i)', PureFor(i)'
        PROVE  NodeOf(i)'.page_hash = ContentOf(i)'
    <3>1. CASE i = x \/ i = y
      BY <1>11, <1>12, <1>19, <1>24, <3>1
    <3>2. CASE i # x /\ i # y
      BY <1>6, <1>11, <1>12, <1>26, <1>32, <2>1, <3>2 DEF KeysRight
    <3>3. QED
      BY <3>1, <3>2
  <2>2. QED
    BY <2>1 DEF KeysRight
<1>35. AloneOK'
  <2>1. ASSUME NEW i \in Items, NEW j \in Items, i # j, SeenTwice(i)', SeenTwice(j)',
               ~InNode(i)', ContentOf(i)' = ContentOf(j)'
        PROVE  InNode(j)'
    <3>1. CASE j = x \/ j = y
      BY <1>24, <3>1
    <3>2. CASE j # x /\ j # y
      <4>1. i # x /\ i # y
        BY <1>24, <2>1
      <4>2. ~InNode(i) /\ SeenTwice(i) /\ SeenTwice(j) /\ ContentOf(i) = ContentOf(j)
        BY <1>11, <1>12, <1>26, <2>1, <3>2, <4>1
      <4>3. InNode(j)
        BY <1>6, <2>1, <4>2 DEF AloneOK
      <4>4. QED
        BY <1>26, <3>2, <4>3
    <3>3. QED
      BY <3>1, <3>2
  <2>2. QED
    BY <2>1 DEF AloneOK
<1>36. FullOK'
  <2>1. ASSUME ~clashed', NEW i \in Items, NEW j \in Items, SeenTwice(i)', ~InNode(i)',
               SeenOnce(j)', InNode(j)', PureFor(j)', ContentOf(i)' = ContentOf(j)'
        PROVE  NodeOf(j)'.shared_cnt = MAX_PAGE_SHARING
    <3>1. i # x /\ i # y
      BY <1>24, <2>1
    <3>2. ~InNode(i) /\ SeenTwice(i) /\ ContentOf(i) = ContentOf(j) /\ ~clashed
      BY <1>10, <1>11, <1>12, <1>26, <2>1, <3>1
    <3>3. CASE j = x \/ j = y
      <4>1. quiet = 2
        BY <1>16, <1>20, <3>2 DEF SeenTwice
      <4>2. unstable_hash_table[h] = i
        BY <1>6, <1>10, <1>11, <1>19, <3>2, <3>3, <4>1, OneCandidate
      <4>3. QED
        BY <1>3, <3>1, <4>2
    <3>4. CASE j # x /\ j # y
      <4>1. SeenOnce(j) /\ InNode(j) /\ PureFor(j) /\ NodeOf(j)' = NodeOf(j)
        BY <1>11, <1>26, <1>32, <2>1, <3>4
      <4>2. QED
        BY <1>6, <3>2, <4>1 DEF FullOK
    <3>5. QED
      BY <3>3, <3>4
  <2>2. QED
    BY <2>1 DEF FullOK
<1>37. NoneJoins'
  BY <1>12, <1>20 DEF NoneJoins
<1>38. NoneLeaves'
  BY <1>6, <1>12, <1>28, <1>30 DEF NoneLeaves, IsMerge
<1>39. Candidates'
  <2>1. ASSUME quiet >= 2, NEW i \in Items, ScannedNow(i)', map[i] # NoPfn, ~InNode(i)'
        PROVE  rmap_tree'[i].state = "Unstable"
    <3>1. i # x /\ i # y
      BY <1>24, <2>1
    <3>2. QED
      BY <1>6, <1>10, <1>11, <1>23, <1>26, <2>1, <3>1 DEF Candidates
  <2>2. QED
    BY <1>12, <2>1 DEF Candidates
<1>40. QED
  BY <1>11, <1>33, <1>34, <1>35, <1>36, <1>37, <1>38, <1>39 DEF SettledParts

\* Every step of the server.
LEMMA ServerQuiet ==
  ASSUME ~SMART_SCAN_ON, JointInv, AgreeParts, NoOpenErrs, ListingExact, SettledParts,
         quiet >= 1, ServerWorks
  PROVE  NoOpenErrs' /\ ListingExact' /\ SettledParts'
<1>1. hphase = "offload" /\ UNCHANGED hostVars
  BY DEF ServerWorks
<1>2. errs' \subseteq errs
  BY DEF ServerWorks, HandleError, lookup_rmap_item, cmp_and_merge_one, StableMoved, StableKept,
       StableRekeyed, VolatileSkipped, MergeWithStable, MergeWithUnstable, InsertUnstable,
       VolatileChanged, prune_metadata, prune_rmap_tree, SendResult, scanRest
<1>3. NoOpenErrs' /\ ListingExact'
  BY <1>1, <1>2, OffloadQuiet
<1>4. CASE HandleError
  BY <1>1, <1>3, <1>4, HandleErrorQuiet
<1>5. CASE \E i \in todo : lookup_rmap_item(i, shadow[i], content[shadow[i]])
  BY <1>1, <1>3, <1>5, LookupQuiet
<1>6. CASE cmp_and_merge_one
  <2>1. ~VolatileSkipped
    BY DEF VolatileSkipped
  <2>2. QED
    BY <1>1, <1>3, <1>6, <2>1, StableMovedQuiet, StableKeptQuiet, StableRekeyedQuiet,
       MergeWithStableQuiet, MergeWithUnstableQuiet, InsertUnstableQuiet, VolatileChangedQuiet
       DEF cmp_and_merge_one
<1>7. CASE prune_metadata
  BY <1>1, <1>3, <1>7, PruneMetadataQuiet
<1>8. CASE prune_rmap_tree
  BY <1>1, <1>8, NothingPruned
<1>9. CASE SendResult
  BY <1>1, <1>3, <1>9, SendResultQuiet
<1>10. QED
  BY <1>4, <1>5, <1>6, <1>7, <1>8, <1>9 DEF ServerWorks

-----------------------------------------------------------------------------
\* Every step, quiet or not.
LEMMA NextQuiet ==
  ASSUME MAX_PAGE_SHARING <= ksm_max_page_sharing, MaxQuiet >= 3, ~SMART_SCAN_ON,
         JointInv, AgreeInv, QuietInv, [SystemNext]_sysVars
  PROVE  QuietInv'
<1>1. SUFFICES ASSUME ~discarded'
               PROVE  NoOpenErrs' /\ ListingExact' /\ (hphase' # "removed" => SettledParts')
  BY DEF QuietInv
<1>2. ~discarded
  BY <1>1, StaysDiscarded
<1>3. /\ hphase # "stopped" /\ (hphase # "removed" => AgreeParts)
      /\ NoOpenErrs /\ ListingExact /\ (hphase # "removed" => SettledParts)
  BY <1>2 DEF AgreeInv, QuietInv
<1>4. SystemTypeOK /\ quiet \in Nat
  BY SeenFacts DEF JointInv, GuestInv
<1>5. CASE quiet' = 0
  BY <1>5, NoMoreQuiet
<1>6. CASE UNCHANGED sysVars
  <2>1. /\ UNCHANGED vars /\ map' = map /\ content' = content /\ shadow' = shadow
        /\ hphase' = hphase /\ cursor' = cursor /\ applied' = applied /\ errtab' = errtab
        /\ quiet' = quiet
    BY <1>6 DEF sysVars, hostVars, guestVars
  <2>2. /\ rmap_tree' = rmap_tree /\ node' = node /\ log' = log /\ errs' = errs
        /\ clashed' = clashed /\ todo' = todo /\ page' = page /\ phase' = phase
    BY <2>1 DEF vars, scanVars, metaVars
  <2>3. Todo' = Todo
    BY <2>1, <2>2 DEF Todo, Pending
  <2>4. NoOpenErrs' /\ ListingExact'
    BY <1>3, <2>1, <2>2 DEF NoOpenErrs, ListingExact
  <2>5. SettledParts => SettledParts'
    BY <1>4, <2>1, <2>2, <2>3, SameAll
  <2>6. QED
    BY <1>3, <2>1, <2>4, <2>5
<1>7. CASE GuestStep
  <2>1. quiet' = 0
    BY <1>7 DEF GuestStep, Write, Fault, Discard, GuestSteps
  <2>2. QED
    BY <1>5, <2>1
<1>8. CASE HostStep /\ quiet' # 0
  <2>1. CASE scan_pte_entry
    <3>1. hphase = "walk"
      BY <2>1 DEF scan_pte_entry
    <3>2. QED
      BY <1>3, <2>1, <3>1, ScanQuiet
  <2>2. CASE NothingListed
    <3>1. hphase' = "removed"
      BY <2>2 DEF NothingListed
    <3>2. QED
      BY <1>3, <2>2, <3>1, NothingListedQuiet
  <2>3. CASE rdma_send_metadata
    <3>1. hphase = "walk"
      BY <2>3 DEF rdma_send_metadata
    <3>2. QED
      BY <1>3, <2>3, <3>1, SendQuiet
  <2>4. CASE recv_offload_result
    <3>1. hphase = "offload"
      BY <2>4 DEF recv_offload_result
    <3>2. QED
      BY <1>3, <2>4, <3>1, RecvQuiet
  <2>5. CASE destroy_metadata
    <3>1. hphase = "apply"
      BY <2>5 DEF destroy_metadata
    <3>2. QED
      BY <1>3, <2>5, <3>1, DestroyQuiet
  <2>6. CASE apply_result
    <3>1. hphase = "apply" /\ applied < Len(log)
      BY <2>6 DEF apply_result, StableMergeSkipped, StableMergeDone, StableMergeFailed,
           UnstableMergeDone, UnstableMergeFailed, StaleStableNode, ItemStateChange,
           debug_stop, Applying
    <3>2. AgreeParts /\ SettledParts
      BY <1>3, <3>1
    <3>3. ~debug_stop
      BY <3>1, <3>2, EntryFits DEF debug_stop
    <3>4. quiet' = quiet \/ quiet' = 0
      BY <2>6, <3>3 DEF apply_result, StableMergeSkipped, StableMergeDone, StableMergeFailed,
           UnstableMergeDone, UnstableMergeFailed, StaleStableNode, ItemStateChange
    <3>5. quiet' >= 1
      BY <1>4, <1>8, <3>4
    <3>6. QED
      BY <1>3, <2>6, <3>2, <3>3, <3>5, ApplyQuiet
  <2>7. QED
    BY <1>8, <2>1, <2>2, <2>3, <2>4, <2>5, <2>6 DEF HostStep
<1>9. CASE ServerWorks /\ quiet' # 0
  <2>1. hphase = "offload" /\ quiet' = quiet
    BY <1>9 DEF ServerWorks, hostVars
  <2>2. quiet >= 1
    BY <1>4, <1>9, <2>1
  <2>3. QED
    BY <1>3, <1>9, <2>1, <2>2, ServerQuiet
<1>10. QED
  BY <1>5, <1>6, <1>7, <1>8, <1>9 DEF SystemNext

\* In two rounds without writes and failures every page is placed: it is in a
\* node, or it is the only one left of its content and the nodes of its content
\* are full.  However the writes and failures before fell between the server's
\* reads and the host's merges, the rounds after them undo nothing of this.
THEOREM QuietInvariant ==
  ASSUME MaxIteration <= ShortRange \div 2, MAX_PAGE_SHARING <= ksm_max_page_sharing,
         MaxQuiet >= 3, ~SMART_SCAN_ON
  PROVE  SystemSpec => []QuietInv
<1>1. SystemInit /\ JointInv => QuietInv
  <2>1. SUFFICES ASSUME SystemInit, JointInv PROVE QuietInv
    OBVIOUS
  <2>2. SystemTypeOK /\ quiet = 0
    BY <2>1 DEF JointInv, GuestInv, SystemInit
  <2>3. ~(quiet >= 1)
    BY <2>2
  <2>4. QED
    BY <2>2, <2>3, NotQuiet DEF QuietInv
<1>2. JointInv /\ AgreeInv /\ QuietInv /\ [SystemNext]_sysVars => QuietInv'
  BY NextQuiet
<1>3. SystemSpec => []JointInv /\ []AgreeInv
  BY JointInvariant, AgreeInvariant
<1>4. QED
  BY <1>1, <1>2, <1>3, PTL DEF SystemSpec

\* When guests and merges have been quiet for long enough, a page that is alone
\* in its frame has no page to share with: every page of its content is in a
\* node that is full on the host, unless a re-key has thrown a chain out of the
\* table or the pages of a chain differ.
THEOREM ConvergesTheorem ==
  ASSUME MaxIteration <= ShortRange \div 2, MAX_PAGE_SHARING <= ksm_max_page_sharing,
         MaxQuiet >= 3, ~SMART_SCAN_ON
  PROVE  SystemSpec => []Converges
<1>1. ASSUME JointInv, AgreeInv, QuietInv PROVE Converges
  <2>1. SUFFICES ASSUME quiet = MaxQuiet, ~clashed, ~discarded, ChainsPure,
                        NEW i \in Items, NEW j \in Items, i # j, map[i] # NoPfn, map[j] # NoPfn,
                        frame[map[i]] = "anon", content[map[i]] = content[map[j]]
                 PROVE  Cardinality(HList(map[j])) = MAX_PAGE_SHARING
    BY DEF Converges
  <2>2. SystemTypeOK /\ ServerInv
    BY <1>1 DEF JointInv, GuestInv
  <2>3. quiet >= 3 /\ quiet >= 2 /\ quiet >= 1
    BY <2>1, SystemAssumption
  <2>4. NoOpenErrs /\ ListingExact
    BY <1>1, <2>1 DEF QuietInv
  <2>5. hphase # "removed"
    BY <2>1, <2>3, <2>4 DEF ListingExact
  <2>6. AgreeParts /\ SettledParts
    BY <1>1, <2>1, <2>5 DEF AgreeInv, QuietInv
  <2>7. \A k \in Items : map[k] # NoPfn => SeenOnce(k) /\ SeenTwice(k)
    BY <2>2, <2>3, SeenFacts
  <2>8. OpenErrs = {}
    BY <2>3, <2>4 DEF NoOpenErrs, OpenErrs
  <2>9. ASSUME NEW k \in Items, InNode(k)
        PROVE  SeenOnce(k) /\ PureFor(k) /\ ~WillJoin(k) /\ map[k] = NodeOf(k).pfn
    <3>1. SeenOnce(k)
      BY <2>6, <2>7, <2>9 DEF AgreeParts, KnownListed, InNode
    <3>2. PureFor(k)
      BY <2>1, <2>9 DEF ChainsPure, PureFor, InNode, NodeOf, ContentOf
    <3>3. ~WillJoin(k)
      BY <2>1, <2>3, <2>6, <2>9, <3>1, <3>2 DEF SettledParts, NoneJoins
    <3>4. QED
      BY <2>6, <2>9, <3>1, <3>2, <3>3 DEF SettledParts, Placed
  <2>10. \A l \in Todo : l \in DOMAIN log
    BY DEF Todo, Pending
  <2>11. \A k : ~WillJoin(k)
    <3>1. SUFFICES ASSUME NEW k, NEW l \in Todo, k \in MergeItems(log[l]) PROVE FALSE
      BY DEF WillJoin
    <3>2. k \in Items /\ InNode(k)
      BY <1>1, <2>10, <3>1, OffloadItems DEF InNode
    <3>3. QED
      BY <2>9, <3>1, <3>2 DEF WillJoin
  <2>12. \A k : ~WillLeave(k)
    BY <2>3, <2>6 DEF SettledParts, NoneLeaves, WillLeave
  <2>13. Todo = {}
    <3>1. SUFFICES ASSUME NEW l \in Todo PROVE FALSE
      OBVIOUS
    <3>2. IsMerge(log[l])
      BY <2>3, <2>6, <3>1 DEF SettledParts, NoneLeaves
    <3>3. log[l].from \in MergeItems(log[l])
      BY <1>1, <2>10, <3>1, <3>2, OffloadItems
    <3>4. QED
      BY <2>11, <3>1, <3>3 DEF WillJoin
  <2>14. ASSUME NEW k \in Items, InNode(k)
         PROVE  frame[map[k]] = "node"
    <3>1. PICK n \in NodeIds : n = rmap_tree[k].stable_node /\ Live(n)
      BY <1>1, <2>14, OffloadItems DEF InNode
    <3>2. ~UndoneNode(n) /\ ~NewNode(n)
      BY <2>8, <2>13 DEF UndoneNode, NewNode
    <3>3. node[n].pfn \in hnode
      BY <2>6, <3>1, <3>2 DEF AgreeParts, NodesReal
    <3>4. map[k] = node[n].pfn
      BY <2>9, <2>14, <3>1 DEF NodeOf
    <3>5. QED
      BY <1>1, <2>2, <3>3, <3>4 DEF JointInv, FramesOK, SystemTypeOK
  <2>15. ~InNode(i)
    BY <2>1, <2>14
  <2>16. InNode(j)
    BY <2>1, <2>6, <2>7, <2>15 DEF SettledParts, AloneOK, ContentOf
  <2>17. NodeOf(j).shared_cnt = MAX_PAGE_SHARING
    BY <2>1, <2>6, <2>7, <2>9, <2>15, <2>16 DEF SettledParts, FullOK, ContentOf
  <2>18. PICK n : n = rmap_tree[j].stable_node
    OBVIOUS
  <2>19. /\ n \in NodeIds /\ Live(n) /\ node[n].sharing \in SUBSET Items
         /\ node[n].shared_cnt = Cardinality(node[n].sharing)
    BY <2>2, <2>16, <2>18, NodeOfStable DEF ServerInv, InNode
  <2>20. map[j] = node[n].pfn /\ node[n].shared_cnt = MAX_PAGE_SHARING
    BY <2>9, <2>16, <2>17, <2>18 DEF NodeOf
  <2>21. \A k \in Items : /\ hitem[k].stable <=> InNode(k)
                          /\ hitem[k].stable => hitem[k].head = node[rmap_tree[k].stable_node].pfn
    <3>1. \A k : ~Undone(k, OpenErrs)
      BY <2>8 DEF Undone
    <3>2. QED
      BY <2>6, <2>11, <2>12, <3>1 DEF AgreeParts, ItemsAgree, InNode
  <2>22. ASSUME NEW k \in Items PROVE k \in HList(map[j]) <=> k \in node[n].sharing
    <3>1. ASSUME k \in HList(map[j]) PROVE k \in node[n].sharing
      <4>1. InNode(k) /\ node[rmap_tree[k].stable_node].pfn = node[n].pfn
        BY <2>20, <2>21, <3>1 DEF HList
      <4>2. PICK m : m = rmap_tree[k].stable_node
        OBVIOUS
      <4>3. m \in NodeIds /\ Live(m) /\ k \in node[m].sharing
        BY <2>2, <4>1, <4>2, NodeOfStable DEF ServerInv, InNode
      <4>4. m = n
        BY <2>6, <2>19, <4>1, <4>2, <4>3 DEF AgreeParts, UniqueFrames
      <4>5. QED
        BY <4>3, <4>4
    <3>2. ASSUME k \in node[n].sharing PROVE k \in HList(map[j])
      <4>1. InNode(k) /\ rmap_tree[k].stable_node = n
        BY <2>2, <2>19, <3>2 DEF ServerInv, StructInv, SharingConsistent, InNode
      <4>2. QED
        BY <2>20, <2>21, <4>1 DEF HList
    <3>3. QED
      BY <3>1, <3>2
  <2>23. HList(map[j]) = node[n].sharing
    BY <2>19, <2>22 DEF HList
  <2>24. QED
    BY <2>19, <2>20, <2>23
<1>2. JointInv /\ AgreeInv /\ QuietInv => Converges
  BY <1>1
<1>3. SystemSpec => []JointInv /\ []AgreeInv /\ []QuietInv
  BY JointInvariant, AgreeInvariant, QuietInvariant
<1>4. QED
  BY <1>2, <1>3, PTL
=============================================================================
