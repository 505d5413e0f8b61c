-------------------------- MODULE BaskServer_proofs --------------------------
(* Theorems about the metadata engine of the server, for all constants. *)
EXTENDS BaskServer, FiniteSetTheorems, TLAPS

\* The initial state has its type.
LEMMA InitTypeOK == Init => TypeOK
<1> SUFFICES ASSUME Init PROVE TypeOK
  OBVIOUS
<1>1. MaxNodes \in Nat /\ MaxIteration \in Nat
  BY ServerAssumption
<1>2. AbsentItem \in ItemRec /\ FreeNode \in NodeRec /\ NoPage \in PageRec
  BY DEF AbsentItem, ItemRec, FreeNode, NodeRec, NoPage, PageRec, NoNode
<1>3. /\ page \in PageRec
      /\ rmap_tree \in [Items -> ItemRec]
      /\ node \in [NodeIds -> NodeRec]
      /\ stable_hash_table \in [Hashes -> NodeIds \cup {NoNode}]
      /\ unstable_hash_table \in [Hashes -> Items \cup {NoItem}]
  BY <1>2 DEF Init
<1>4. iteration \in 0..MaxIteration /\ created \in 0..MaxNodes /\ log \in Seq(LogRec)
  BY <1>1 DEF Init
<1>5. clashed \in BOOLEAN
  BY Zenon DEF Init
<1>6. QED
  BY <1>3, <1>4, <1>5 DEF Init, TypeOK

\* reset_item_state yields an item.
LEMMA ResetType ==
  ASSUME NEW it \in ItemRec
  PROVE  /\ reset_item_state(it) \in ItemRec
         /\ reset_item_state(it).state = "Volatile"
         /\ reset_item_state(it).last_access = it.last_access
         /\ reset_item_state(it).stable_node = NoNode
  BY DEF reset_item_state, ItemRec, NoNode

\* insert_item_to_node yields an item that points to the node.
LEMMA InNodeType ==
  ASSUME NEW it \in ItemRec, NEW nd \in [NodeIds -> NodeRec], NEW n \in NodeIds
  PROVE  ItemInNode(it, nd, n) \in ItemRec
  BY DEF ItemInNode, ItemRec, NodeRec

\* Changing the count and the members of a node keeps its type.
LEMMA NodeUpdateType ==
  ASSUME NEW r \in NodeRec, NEW c \in Int, NEW S \in SUBSET Items
  PROVE  [r EXCEPT !.shared_cnt = c, !.sharing = S] \in NodeRec
  BY DEF NodeRec

\* insert_item_to_node and remove_item_from_node yield nodes.
LEMMA NodeOpsType ==
  ASSUME NEW nd \in [NodeIds -> NodeRec], NEW n \in NodeIds, NEW i \in Items
  PROVE  /\ insert_item_to_node(nd, n, i) \in [NodeIds -> NodeRec]
         /\ remove_item_from_node(nd, n, i) \in [NodeIds -> NodeRec]
         /\ [nd EXCEPT ![n] = FreeNode] \in [NodeIds -> NodeRec]
<1>1. /\ nd[n] \in NodeRec
      /\ nd[n].shared_cnt + 1 \in Int
      /\ nd[n].shared_cnt - 1 \in Int
      /\ nd[n].sharing \cup {i} \in SUBSET Items
      /\ nd[n].sharing \ {i} \in SUBSET Items
  BY DEF NodeRec
<1>2. /\ [nd[n] EXCEPT !.shared_cnt = nd[n].shared_cnt + 1,
                       !.sharing = nd[n].sharing \cup {i}] \in NodeRec
      /\ [nd[n] EXCEPT !.shared_cnt = nd[n].shared_cnt - 1,
                       !.sharing = nd[n].sharing \ {i}] \in NodeRec
  BY <1>1, NodeUpdateType
<1>4. FreeNode \in NodeRec
  BY DEF FreeNode, NodeRec, NoNode
<1>5. QED
  BY <1>2, <1>4 DEF insert_item_to_node, remove_item_from_node

-----------------------------------------------------------------------------
(***************************************************************************)
(* Freeing a stable node                                                   *)
(***************************************************************************)

\* remove_stable_node_no_item keeps the table sound and, before any clash,
\* complete: the successor of a HEAD takes its place, and no other hash can
\* hold the chain of the freed node.
LEMMA RemoveNode ==
  ASSUME TypeOK, StructInv,
         NEW n \in NodeIds, Live(n),
         NEW nd \in [NodeIds -> NodeRec],
         \A m \in NodeIds : /\ nd[m].chain = node[m].chain
                            /\ nd[m].page_hash = node[m].page_hash,
         node' = [node EXCEPT ![n] = FreeNode],
         stable_hash_table' = remove_stable_node_no_item(stable_hash_table, nd, n),
         created' = created, clashed' = clashed
  PROVE  /\ stable_hash_table' \in [Hashes -> NodeIds \cup {NoNode}]
         /\ NodesOK' /\ TableSound' /\ TableComplete'
<1> DEFINE c == node[n].chain
           hh == node[n].page_hash
           rest == Chain(nd, nd[n].chain) \ {n}
<1>1. /\ node \in [NodeIds -> NodeRec]
      /\ stable_hash_table \in [Hashes -> NodeIds \cup {NoNode}]
      /\ c \in NodeIds /\ c # NoNode /\ hh \in Hashes
  <2>1. node[n] # FreeNode
    BY DEF Live, FreeNode
  <2>2. c \in 1..created /\ hh \in Hashes
    BY <2>1 DEF StructInv, NodesOK
  <2>3. created \in 0..MaxNodes
    BY DEF TypeOK
  <2>4. QED
    BY <2>2, <2>3, ServerAssumption DEF TypeOK, NodeIds, NoNode
<1>2. nd[n].chain = c /\ nd[n].page_hash = hh
  OBVIOUS
<1>3. rest = {m \in NodeIds : node[m].chain = c} \ {n}
  BY <1>1, <1>2 DEF Chain
<1>4. /\ FreeNode.chain = NoNode
      /\ \A m \in NodeIds : m # n => node'[m] = node[m]
      /\ node'[n] = FreeNode
  BY <1>1 DEF FreeNode
<1>5. NodesOK'
  BY <1>4 DEF StructInv, NodesOK
<1>6. \A d \in NodeIds : Chain(node', d) = Chain(node, d) \ {n}
  BY <1>4 DEF Chain
<1>7. \A m \in rest : m # n /\ node[m].chain = c /\ node[m].page_hash = hh
  <2>1. \A m \in NodeIds : node[m].chain = c => node[m].page_hash = hh
    BY <1>1 DEF StructInv, HashesAgree, Live
  <2>2. QED
    BY <1>3, <2>1
<1>8. Chain(node', c) = rest
  BY <1>1, <1>3, <1>6 DEF Chain
<1>9. \A h \in Hashes : stable_hash_table[h] = c => h = hh
  BY <1>1 DEF StructInv, TableSound, Chain, Live
<1>10. \A h \in Hashes : (stable_hash_table[h] # NoNode /\ stable_hash_table[h] # c) =>
           Chain(node', stable_hash_table[h]) = Chain(node, stable_hash_table[h])
  BY <1>1, <1>6 DEF Chain
<1>11. CASE \E m \in rest : m < n
  <2>1. stable_hash_table' = stable_hash_table
    BY <1>11 DEF remove_stable_node_no_item
  <2>2. rest # {}
    BY <1>11
  <2>3. TableSound'
    <3> SUFFICES ASSUME NEW h \in Hashes, stable_hash_table[h] # NoNode
                 PROVE  /\ Chain(node', stable_hash_table[h]) # {}
                        /\ \A m \in Chain(node', stable_hash_table[h]) : node'[m].page_hash = h
      BY <2>1 DEF TableSound
    <3>1. CASE stable_hash_table[h] = c
      <4>1. h = hh /\ Chain(node', stable_hash_table[h]) = rest
        BY <3>1, <1>8, <1>9
      <4>2. \A m \in rest : node'[m].page_hash = hh
        BY <1>7, <1>4, <1>3
      <4>3. QED
        BY <4>1, <4>2, <2>2
    <3>2. CASE stable_hash_table[h] # c
      <4>1. Chain(node', stable_hash_table[h]) = Chain(node, stable_hash_table[h])
        BY <3>2, <1>10
      <4>2. n \notin Chain(node, stable_hash_table[h])
        BY <3>2 DEF Chain
      <4>3. QED
        BY <4>1, <4>2, <1>4 DEF StructInv, TableSound, Chain
    <3>3. QED
      BY <3>1, <3>2
  <2>4. TableComplete'
    BY <2>1, <1>4 DEF StructInv, TableComplete, Live
  <2>5. QED
    BY <1>5, <2>1, <2>3, <2>4, <1>1
<1>12. CASE ~ \E m \in rest : m < n
  <2> DEFINE v == IF rest = {} THEN NoNode ELSE c
  <2>1. stable_hash_table' = [stable_hash_table EXCEPT ![hh] = v]
    BY <1>12, <1>2 DEF remove_stable_node_no_item
  <2>2. /\ stable_hash_table'[hh] = v
        /\ \A h \in Hashes : h # hh => stable_hash_table'[h] = stable_hash_table[h]
    BY <2>1, <1>1
  <2>3. stable_hash_table' \in [Hashes -> NodeIds \cup {NoNode}]
    BY <2>1, <1>1
  <2>4. TableSound'
    <3> SUFFICES ASSUME NEW h \in Hashes, stable_hash_table'[h] # NoNode
                 PROVE  /\ Chain(node', stable_hash_table'[h]) # {}
                        /\ \A m \in Chain(node', stable_hash_table'[h]) : node'[m].page_hash = h
      BY DEF TableSound
    <3>1. CASE h = hh
      BY <3>1, <2>2, <1>8, <1>7, <1>4, <1>3
    <3>2. CASE h # hh
      <4>1. stable_hash_table'[h] = stable_hash_table[h] /\ stable_hash_table[h] # c
        BY <3>2, <2>2, <1>9
      <4>2. Chain(node', stable_hash_table[h]) = Chain(node, stable_hash_table[h])
        BY <4>1, <1>10
      <4>3. n \notin Chain(node, stable_hash_table[h])
        BY <4>1 DEF Chain
      <4>4. QED
        BY <4>1, <4>2, <4>3, <1>4 DEF StructInv, TableSound, Chain
    <3>3. QED
      BY <3>1, <3>2
  <2>5. TableComplete'
    <3> SUFFICES ASSUME ~clashed, NEW m \in NodeIds, node'[m].chain # NoNode
                 PROVE  stable_hash_table'[node'[m].page_hash] = node'[m].chain
      BY DEF TableComplete, Live
    <3>1. m # n /\ node'[m] = node[m] /\ node[m].chain # NoNode
      BY <1>4
    <3>2. stable_hash_table[node[m].page_hash] = node[m].chain
      BY <3>1 DEF StructInv, TableComplete, Live
    <3>3. stable_hash_table[hh] = c
      BY <1>1 DEF StructInv, TableComplete, Live
    <3>4. node[m].page_hash \in Hashes
      BY <3>1 DEF StructInv, NodesOK, FreeNode
    <3>5. CASE node[m].page_hash = hh
      <4>1. m \in rest
        BY <3>1, <3>2, <3>3, <3>5, <1>3
      <4>2. QED
        BY <4>1, <3>1, <3>5, <2>2, <3>2, <3>3
    <3>6. CASE node[m].page_hash # hh
      BY <3>6, <3>4, <3>1, <3>2, <2>2
    <3>7. QED
      BY <3>5, <3>6
  <2>6. QED
    BY <1>5, <2>3, <2>4, <2>5
<1>13. QED
  BY <1>11, <1>12

-----------------------------------------------------------------------------
(***************************************************************************)
(* What the other changes do to items, nodes and the stable table          *)
(***************************************************************************)

\* A change of items that keeps the Stable ones in their nodes and with their
\* hashes keeps the structure.
LEMMA StructFrame ==
  ASSUME StructInv,
         node' = node, created' = created,
         stable_hash_table' = stable_hash_table, clashed' = clashed,
         \A i \in Items :
            /\ rmap_tree'[i].state = "Stable" <=> rmap_tree[i].state = "Stable"
            /\ rmap_tree[i].state = "Stable" =>
                 /\ rmap_tree'[i].stable_node = rmap_tree[i].stable_node
                 /\ rmap_tree'[i].old_hash = rmap_tree[i].old_hash,
         node \in [NodeIds -> NodeRec]
  PROVE  StructInv'
<1>1. NodesOK' /\ CountsExact' /\ TableSound' /\ TableComplete'
  BY DEF StructInv, NodesOK, CountsExact, TableSound, TableComplete, Live, Chain
<1>2. \A n \in NodeIds : node[n].sharing \in SUBSET Items
  BY DEF NodeRec
<1>3. SharingConsistent'
  BY <1>2 DEF StructInv, SharingConsistent, Live
<1>4. HashesAgree'
  BY DEF StructInv, HashesAgree, Live
<1>5. QED
  BY <1>1, <1>3, <1>4 DEF StructInv

\* What StructInv says about the node of a Stable item.
LEMMA NodeOfStable ==
  ASSUME TypeOK, StructInv, NEW i \in Items, rmap_tree[i].state = "Stable"
  PROVE  LET n == rmap_tree[i].stable_node
         IN  /\ n \in NodeIds /\ Live(n) /\ n <= created
             /\ i \in node[n].sharing
             /\ node[n].sharing \in SUBSET Items
             /\ IsFiniteSet(node[n].sharing)
             /\ node[n].shared_cnt = Cardinality(node[n].sharing)
             /\ node[n].shared_cnt \in 1..MAX_PAGE_SHARING
             /\ node[n].page_hash \in Hashes
             /\ node[n].chain \in NodeIds /\ node[n].chain \in 1..created
             /\ rmap_tree[i].old_hash = node[n].page_hash
<1> DEFINE n == rmap_tree[i].stable_node
<1>1. n \in NodeIds /\ Live(n) /\ i \in node[n].sharing
  BY DEF StructInv, SharingConsistent
<1>2. node[n] \in NodeRec
  BY <1>1 DEF TypeOK
<1>3. node[n].sharing \in SUBSET Items
  BY <1>2 DEF NodeRec
<1>4. IsFiniteSet(node[n].sharing)
  BY <1>3, FS_Subset, ServerAssumption
<1>5. node[n] # FreeNode
  BY <1>1 DEF Live, FreeNode
<1>6. n <= created /\ node[n].chain \in 1..created /\ node[n].page_hash \in Hashes
  BY <1>1, <1>5 DEF StructInv, NodesOK
<1>7. node[n].chain \in NodeIds
  BY <1>6, ServerAssumption DEF TypeOK, NodeIds
<1>8. /\ node[n].shared_cnt = Cardinality(node[n].sharing)
      /\ node[n].shared_cnt \in 1..MAX_PAGE_SHARING
  BY <1>1 DEF StructInv, CountsExact
<1>9. rmap_tree[i].old_hash = node[n].page_hash
  BY DEF StructInv, HashesAgree
<1>10. QED
  BY <1>1, <1>3, <1>4, <1>6, <1>7, <1>8, <1>9

\* An item that leaves its node, the last one taking the node with it.
LEMMA LeaveStruct ==
  ASSUME TypeOK, StructInv,
         NEW i \in Items, rmap_tree[i].state = "Stable", LeaveNode(i),
         NEW it \in ItemRec, it.state # "Stable",
         rmap_tree' = [rmap_tree EXCEPT ![i] = it],
         created' = created, clashed' = clashed
  PROVE  /\ node' \in [NodeIds -> NodeRec]
         /\ stable_hash_table' \in [Hashes -> NodeIds \cup {NoNode}]
         /\ StructInv'
         /\ \A j \in Items : (j # i /\ rmap_tree[j].state = "Stable") =>
               node'[rmap_tree[j].stable_node].pfn = node[rmap_tree[j].stable_node].pfn
<1> DEFINE n == rmap_tree[i].stable_node
           S == node[n].sharing
           r == [node[n] EXCEPT !.shared_cnt = node[n].shared_cnt - 1,
                                !.sharing = S \ {i}]
           nd == remove_item_from_node(node, n, i)
<1>1. /\ n \in NodeIds /\ Live(n) /\ n <= created
      /\ i \in S /\ S \in SUBSET Items /\ IsFiniteSet(S)
      /\ node[n].shared_cnt = Cardinality(S)
      /\ node[n].shared_cnt \in 1..MAX_PAGE_SHARING
      /\ node[n].page_hash \in Hashes
      /\ node[n].chain \in NodeIds /\ node[n].chain \in 1..created
  BY NodeOfStable
<1>2. /\ node \in [NodeIds -> NodeRec] /\ rmap_tree \in [Items -> ItemRec]
      /\ stable_hash_table \in [Hashes -> NodeIds \cup {NoNode}]
  BY DEF TypeOK
<1>3. IsFiniteSet(S \ {i}) /\ Cardinality(S \ {i}) = Cardinality(S) - 1
  BY <1>1, FS_RemoveElement
<1>4. nd = [node EXCEPT ![n] = r] /\ nd \in [NodeIds -> NodeRec]
  BY <1>1, <1>2, NodeOpsType DEF remove_item_from_node
<1>5. /\ r.shared_cnt = Cardinality(S \ {i}) /\ r.sharing = S \ {i}
      /\ r.chain = node[n].chain /\ r.page_hash = node[n].page_hash
      /\ r.pfn = node[n].pfn
  BY <1>1, <1>2, <1>3 DEF NodeRec
<1>6. /\ \A j \in Items : j # i => rmap_tree'[j] = rmap_tree[j]
      /\ rmap_tree'[i] = it
  BY <1>2
<1>7. nd[n] = r /\ nd[n].shared_cnt = Cardinality(S \ {i})
  BY <1>1, <1>2, <1>4, <1>5
<1>8. /\ \A j \in Items : (j # i /\ rmap_tree[j].state = "Stable") =>
            /\ rmap_tree[j].stable_node \in NodeIds
            /\ j \in node[rmap_tree[j].stable_node].sharing
      /\ \A m \in NodeIds : m # n => i \notin node[m].sharing
  BY DEF StructInv, SharingConsistent
<1>9. CASE nd[n].shared_cnt = 0
  <2>1. S \ {i} = {}
    BY <1>9, <1>7, <1>3, FS_EmptySet
  <2>2. node' = [node EXCEPT ![n] = FreeNode]
    BY <1>9, <1>4, <1>1, <1>2 DEF LeaveNode
  <2>3. stable_hash_table' = remove_stable_node_no_item(stable_hash_table, nd, n)
    BY <1>9 DEF LeaveNode
  <2>4. \A m \in NodeIds : nd[m].chain = node[m].chain /\ nd[m].page_hash = node[m].page_hash
    BY <1>4, <1>5, <1>1, <1>2
  <2>5. /\ stable_hash_table' \in [Hashes -> NodeIds \cup {NoNode}]
        /\ NodesOK' /\ TableSound' /\ TableComplete'
    BY <1>1, <1>4, <2>2, <2>3, <2>4, RemoveNode
  <2>6. /\ \A m \in NodeIds : m # n => node'[m] = node[m]
        /\ node'[n] = FreeNode /\ FreeNode.chain = NoNode /\ FreeNode.sharing = {}
    BY <2>2, <1>1, <1>2 DEF FreeNode
  <2>7. \A j \in Items : (j # i /\ rmap_tree[j].state = "Stable") =>
            rmap_tree[j].stable_node # n
    BY <1>8, <2>1
  <2>8. node' \in [NodeIds -> NodeRec]
    BY <2>2, <1>1, <1>2, NodeOpsType
  <2>9. SharingConsistent'
    BY <2>6, <2>7, <1>6, <1>8 DEF StructInv, SharingConsistent, Live
  <2>10. CountsExact'
    BY <2>6 DEF StructInv, CountsExact, Live
  <2>11. HashesAgree'
    BY <2>6, <2>7, <1>6, <1>8 DEF StructInv, HashesAgree, Live
  <2>12. QED
    BY <2>5, <2>6, <2>7, <2>8, <2>9, <2>10, <2>11, <1>8 DEF StructInv
<1>10. CASE nd[n].shared_cnt # 0
  <2>1. node' = [node EXCEPT ![n] = r] /\ stable_hash_table' = stable_hash_table
    BY <1>10, <1>4 DEF LeaveNode
  <2>2. /\ \A m \in NodeIds : m # n => node'[m] = node[m]
        /\ node'[n] = r
    BY <2>1, <1>1, <1>2
  <2>3. node' \in [NodeIds -> NodeRec]
    BY <2>1, <1>4
  <2>4. \A m \in NodeIds : /\ node'[m].chain = node[m].chain
                           /\ node'[m].page_hash = node[m].page_hash
                           /\ node'[m].pfn = node[m].pfn
    BY <2>2, <1>5
  <2>5. NodesOK'
    <3>1. r.chain \in 1..created /\ r.page_hash \in Hashes
      BY <1>1, <1>5
    <3>2. QED
      BY <2>2, <1>1, <3>1 DEF StructInv, NodesOK
  <2>6. SharingConsistent'
    <3>1. \A m \in NodeIds : node'[m].sharing = node[m].sharing \ {i}
      BY <2>2, <1>5, <1>8
    <3>2. \A j \in Items : rmap_tree'[j].state = "Stable" =>
            j # i /\ rmap_tree'[j] = rmap_tree[j] /\ rmap_tree[j].state = "Stable"
      BY <1>6
    <3>3. \A j \in Items : rmap_tree'[j].state = "Stable" =>
            /\ rmap_tree'[j].stable_node \in NodeIds
            /\ Live(rmap_tree[j].stable_node)
            /\ j \in node'[rmap_tree'[j].stable_node].sharing
      BY <3>1, <3>2 DEF StructInv, SharingConsistent
    <3>4. \A m \in NodeIds : \A j \in node'[m].sharing :
            rmap_tree'[j].state = "Stable" /\ rmap_tree'[j].stable_node = m
      <4> SUFFICES ASSUME NEW m \in NodeIds, NEW j \in node'[m].sharing
                   PROVE  rmap_tree'[j].state = "Stable" /\ rmap_tree'[j].stable_node = m
        OBVIOUS
      <4>1. j \in node[m].sharing /\ j # i
        BY <3>1
      <4>2. j \in Items
        BY <4>1, <1>2 DEF NodeRec
      <4>3. QED
        BY <4>1, <4>2, <1>6 DEF StructInv, SharingConsistent
    <3>5. QED
      BY <3>2, <3>3, <3>4, <2>4 DEF SharingConsistent, Live
  <2>7. CountsExact'
    <3>1. r.shared_cnt = Cardinality(r.sharing) /\ r.shared_cnt \in 1..MAX_PAGE_SHARING
      BY <1>1, <1>3, <1>5, <1>7, <1>10, ServerAssumption
    <3>2. QED
      BY <2>2, <3>1 DEF StructInv, CountsExact, Live
  <2>8. HashesAgree'
    BY <2>4, <1>6, <1>8 DEF StructInv, HashesAgree, Live
  <2>9. TableSound' /\ TableComplete'
    <3>1. \A d \in NodeIds : Chain(node', d) = Chain(node, d)
      BY <2>4 DEF Chain
    <3>2. TableSound'
      BY <2>1, <2>4, <3>1, <1>2 DEF StructInv, TableSound, Chain
    <3>3. TableComplete'
      BY <2>1, <2>4 DEF StructInv, TableComplete, Live
    <3>4. QED
      BY <3>2, <3>3
  <2>10. QED
    BY <2>1, <2>3, <2>4, <2>5, <2>6, <2>7, <2>8, <2>9, <1>2, <1>8 DEF StructInv
<1>11. QED
  BY <1>9, <1>10

\* An item that joins a node with room (stable merge).
LEMMA JoinStruct ==
  ASSUME TypeOK, StructInv,
         NEW i \in Items, rmap_tree[i].state # "Stable",
         NEW n \in NodeIds, Live(n), node[n].shared_cnt < MAX_PAGE_SHARING,
         node' = insert_item_to_node(node, n, i),
         rmap_tree' = [rmap_tree EXCEPT ![i] = ItemInNode(rmap_tree[i], node, n)],
         stable_hash_table' = stable_hash_table,
         created' = created, clashed' = clashed
  PROVE  /\ node' \in [NodeIds -> NodeRec]
         /\ rmap_tree' \in [Items -> ItemRec]
         /\ StructInv'
         /\ \A m \in NodeIds : node'[m].pfn = node[m].pfn
         /\ rmap_tree'[i].state = "Stable" /\ rmap_tree'[i].stable_node = n
<1> DEFINE S == node[n].sharing
           r == [node[n] EXCEPT !.shared_cnt = node[n].shared_cnt + 1,
                                !.sharing = S \cup {i}]
           it == ItemInNode(rmap_tree[i], node, n)
<1>1. /\ node \in [NodeIds -> NodeRec] /\ rmap_tree \in [Items -> ItemRec]
      /\ stable_hash_table \in [Hashes -> NodeIds \cup {NoNode}]
      /\ created \in 0..MaxNodes
  BY DEF TypeOK
<1>2. node' \in [NodeIds -> NodeRec]
  BY <1>1, NodeOpsType
<1>3. rmap_tree[i] \in ItemRec /\ it \in ItemRec
  BY <1>1, InNodeType
<1>4. /\ it.state = "Stable" /\ it.stable_node = n /\ it.old_hash = node[n].page_hash
  BY <1>3 DEF ItemInNode, ItemRec
<1>5. /\ \A j \in Items : j # i => rmap_tree'[j] = rmap_tree[j]
      /\ rmap_tree'[i] = it
      /\ rmap_tree' \in [Items -> ItemRec]
  BY <1>1, <1>3
<1>6. /\ \A m \in NodeIds : m # n => node'[m] = node[m]
      /\ node'[n] = r
  BY <1>1 DEF insert_item_to_node
<1>7. /\ r.shared_cnt = node[n].shared_cnt + 1 /\ r.sharing = S \cup {i}
      /\ r.chain = node[n].chain /\ r.page_hash = node[n].page_hash
      /\ r.pfn = node[n].pfn
  BY <1>1 DEF NodeRec
<1>8. \A m \in NodeIds : /\ node'[m].chain = node[m].chain
                         /\ node'[m].page_hash = node[m].page_hash
                         /\ node'[m].pfn = node[m].pfn
  BY <1>6, <1>7
<1>9. \A m \in NodeIds : i \notin node[m].sharing
  BY DEF StructInv, SharingConsistent
<1>10. S \in SUBSET Items /\ IsFiniteSet(S)
  <2>1. S \in SUBSET Items
    BY <1>1 DEF NodeRec
  <2>2. QED
    BY <2>1, FS_Subset, ServerAssumption
<1>11. NodesOK'
  <2>1. node[n] # FreeNode
    BY DEF Live, FreeNode
  <2>2. n <= created /\ r.chain \in 1..created /\ r.page_hash \in Hashes
    BY <2>1, <1>7 DEF StructInv, NodesOK
  <2>3. QED
    BY <1>6, <2>2 DEF StructInv, NodesOK
<1>12. SharingConsistent'
  <2>1. \A j \in Items : rmap_tree'[j].state = "Stable" =>
            /\ rmap_tree'[j].stable_node \in NodeIds
            /\ node[rmap_tree'[j].stable_node].chain # NoNode
            /\ j \in node'[rmap_tree'[j].stable_node].sharing
    <3> SUFFICES ASSUME NEW j \in Items, rmap_tree'[j].state = "Stable"
                 PROVE  /\ rmap_tree'[j].stable_node \in NodeIds
                        /\ node[rmap_tree'[j].stable_node].chain # NoNode
                        /\ j \in node'[rmap_tree'[j].stable_node].sharing
      OBVIOUS
    <3>1. CASE j = i
      BY <3>1, <1>4, <1>5, <1>6, <1>7 DEF Live
    <3>2. CASE j # i
      <4>1. rmap_tree'[j] = rmap_tree[j] /\ rmap_tree[j].state = "Stable"
        BY <3>2, <1>5
      <4>2. /\ rmap_tree[j].stable_node \in NodeIds
            /\ node[rmap_tree[j].stable_node].chain # NoNode
            /\ j \in node[rmap_tree[j].stable_node].sharing
        BY <4>1 DEF StructInv, SharingConsistent, Live
      <4>3. \A m \in NodeIds : j \in node[m].sharing => j \in node'[m].sharing
        BY <1>6, <1>7
      <4>4. QED
        BY <4>1, <4>2, <4>3
    <3>3. QED
      BY <3>1, <3>2
  <2>2. \A m \in NodeIds : \A j \in node'[m].sharing :
            rmap_tree'[j].state = "Stable" /\ rmap_tree'[j].stable_node = m
    <3> SUFFICES ASSUME NEW m \in NodeIds, NEW j \in node'[m].sharing
                 PROVE  rmap_tree'[j].state = "Stable" /\ rmap_tree'[j].stable_node = m
      OBVIOUS
    <3>1. CASE j = i
      BY <3>1, <1>4, <1>5, <1>6, <1>9
    <3>2. CASE j # i
      <4>1. j \in node[m].sharing
        <5>1. CASE m = n
          BY <3>2, <5>1, <1>6, <1>7, Zenon
        <5>2. CASE m # n
          BY <5>2, <1>6, Zenon
        <5>3. QED
          BY <5>1, <5>2
      <4>2. j \in Items
        BY <4>1, <1>1 DEF NodeRec
      <4>3. QED
        BY <3>2, <4>1, <4>2, <1>5 DEF StructInv, SharingConsistent
    <3>3. QED
      BY <3>1, <3>2
  <2>3. QED
    BY <2>1, <2>2, <1>8 DEF SharingConsistent, Live
<1>13. CountsExact'
  <2>1. Cardinality(S \cup {i}) = Cardinality(S) + 1
    BY <1>9, <1>10, FS_AddElement
  <2>2. node[n].shared_cnt = Cardinality(S) /\ node[n].shared_cnt \in 1..MAX_PAGE_SHARING
    BY DEF StructInv, CountsExact
  <2>3. r.shared_cnt = Cardinality(r.sharing) /\ r.shared_cnt \in 1..MAX_PAGE_SHARING
    BY <2>1, <2>2, <1>7, ServerAssumption
  <2>4. QED
    BY <2>3, <1>6 DEF StructInv, CountsExact, Live
<1>14. HashesAgree'
  <2>1. \A j \in Items : rmap_tree'[j].state = "Stable" =>
            rmap_tree'[j].old_hash = node'[rmap_tree'[j].stable_node].page_hash
    <3> SUFFICES ASSUME NEW j \in Items, rmap_tree'[j].state = "Stable"
                 PROVE  rmap_tree'[j].old_hash = node'[rmap_tree'[j].stable_node].page_hash
      OBVIOUS
    <3>1. CASE j = i
      BY <3>1, <1>4, <1>5, <1>8
    <3>2. CASE j # i
      BY <3>2, <1>5, <1>8 DEF StructInv, SharingConsistent, HashesAgree
    <3>3. QED
      BY <3>1, <3>2
  <2>2. QED
    BY <2>1, <1>8 DEF StructInv, HashesAgree, Live
<1>15. TableSound' /\ TableComplete'
  <2>1. \A d \in NodeIds : Chain(node', d) = Chain(node, d)
    BY <1>8 DEF Chain
  <2>2. TableSound'
    BY <2>1, <1>8, <1>1 DEF StructInv, TableSound, Chain
  <2>3. TableComplete'
    BY <1>8 DEF StructInv, TableComplete, Live
  <2>4. QED
    BY <2>2, <2>3
<1>16. QED
  BY <1>2, <1>4, <1>5, <1>8, <1>11, <1>12, <1>13, <1>14, <1>15 DEF StructInv

\* A failed unstable merge: all items of the node are reset, the node freed.
LEMMA UndoStruct ==
  ASSUME TypeOK, StructInv,
         NEW n \in NodeIds, Live(n),
         rmap_tree' = [i \in Items |-> IF i \in node[n].sharing
                                       THEN reset_item_state(rmap_tree[i])
                                       ELSE rmap_tree[i]],
         node' = [node EXCEPT ![n] = FreeNode],
         stable_hash_table' = remove_stable_node_no_item(stable_hash_table, node, n),
         created' = created, clashed' = clashed
  PROVE  /\ node' \in [NodeIds -> NodeRec]
         /\ rmap_tree' \in [Items -> ItemRec]
         /\ stable_hash_table' \in [Hashes -> NodeIds \cup {NoNode}]
         /\ StructInv'
         /\ \A i \in Items : rmap_tree[i].state # "Stable" => rmap_tree'[i] = rmap_tree[i]
         /\ \A i \in Items : (rmap_tree[i].state = "Stable" /\ rmap_tree[i].stable_node # n) =>
               /\ rmap_tree'[i] = rmap_tree[i]
               /\ node'[rmap_tree[i].stable_node].pfn = node[rmap_tree[i].stable_node].pfn
         /\ \A i \in Items : rmap_tree'[i].state # rmap_tree[i].state =>
               rmap_tree'[i].state = "Volatile"
<1>1. /\ node \in [NodeIds -> NodeRec] /\ rmap_tree \in [Items -> ItemRec]
      /\ stable_hash_table \in [Hashes -> NodeIds \cup {NoNode}]
  BY DEF TypeOK
<1>2. /\ node' \in [NodeIds -> NodeRec]
      /\ \A m \in NodeIds : m # n => node'[m] = node[m]
      /\ node'[n] = FreeNode
      /\ FreeNode.chain = NoNode /\ FreeNode.sharing = {}
  <2>1. FreeNode \in NodeRec
    BY DEF FreeNode, NodeRec, NoNode
  <2>2. FreeNode.chain = NoNode /\ FreeNode.sharing = {}
    BY DEF FreeNode
  <2>3. QED
    BY <1>1, <2>1, <2>2
<1>3. /\ stable_hash_table' \in [Hashes -> NodeIds \cup {NoNode}]
      /\ NodesOK' /\ TableSound' /\ TableComplete'
  BY <1>1, RemoveNode
<1>4. \A i \in Items : /\ reset_item_state(rmap_tree[i]) \in ItemRec
                       /\ reset_item_state(rmap_tree[i]).state = "Volatile"
  <2> SUFFICES ASSUME NEW i \in Items
               PROVE  /\ reset_item_state(rmap_tree[i]) \in ItemRec
                      /\ reset_item_state(rmap_tree[i]).state = "Volatile"
    OBVIOUS
  <2>1. rmap_tree[i] \in ItemRec
    BY <1>1
  <2>2. QED
    BY <2>1, ResetType
<1>5. rmap_tree' \in [Items -> ItemRec]
  BY <1>1, <1>4
<1>6. \A i \in Items : i \in node[n].sharing <=>
            (rmap_tree[i].state = "Stable" /\ rmap_tree[i].stable_node = n)
  BY DEF StructInv, SharingConsistent
<1>7. /\ \A i \in Items : ~(rmap_tree[i].state = "Stable" /\ rmap_tree[i].stable_node = n)
                            => rmap_tree'[i] = rmap_tree[i]
      /\ \A i \in Items : (rmap_tree[i].state = "Stable" /\ rmap_tree[i].stable_node = n)
                            => rmap_tree'[i].state = "Volatile"
  BY <1>4, <1>6
<1>8. \A i \in Items : rmap_tree[i].state = "Stable" => rmap_tree[i].stable_node \in NodeIds
  BY DEF StructInv, SharingConsistent
<1>9. \A i \in Items : rmap_tree'[i].state = "Stable" =>
            /\ rmap_tree'[i] = rmap_tree[i]
            /\ rmap_tree[i].state = "Stable" /\ rmap_tree[i].stable_node # n
            /\ node'[rmap_tree[i].stable_node] = node[rmap_tree[i].stable_node]
  BY <1>2, <1>7, <1>8
<1>10. SharingConsistent'
  <2>1. \A i \in Items : rmap_tree'[i].state = "Stable" =>
            /\ rmap_tree'[i].stable_node \in NodeIds
            /\ node'[rmap_tree'[i].stable_node].chain # NoNode
            /\ i \in node'[rmap_tree'[i].stable_node].sharing
    BY <1>9 DEF StructInv, SharingConsistent, Live
  <2>2. \A m \in NodeIds : \A i \in node'[m].sharing :
            rmap_tree'[i].state = "Stable" /\ rmap_tree'[i].stable_node = m
    <3> SUFFICES ASSUME NEW m \in NodeIds, NEW i \in node'[m].sharing
                 PROVE  rmap_tree'[i].state = "Stable" /\ rmap_tree'[i].stable_node = m
      OBVIOUS
    <3>1. m # n /\ i \in node[m].sharing
      BY <1>2
    <3>2. i \in Items
      BY <3>1, <1>1 DEF NodeRec
    <3>3. rmap_tree[i].state = "Stable" /\ rmap_tree[i].stable_node = m
      BY <3>1 DEF StructInv, SharingConsistent
    <3>4. QED
      BY <3>1, <3>2, <3>3, <1>7
  <2>3. QED
    BY <2>1, <2>2 DEF SharingConsistent, Live
<1>11. CountsExact'
  BY <1>2 DEF StructInv, CountsExact, Live
<1>12. HashesAgree'
  BY <1>2, <1>9 DEF StructInv, HashesAgree, Live
<1>13. QED
  <2>1. StructInv'
    BY <1>3, <1>10, <1>11, <1>12 DEF StructInv
  <2>2. QED
    BY <1>2, <1>3, <1>5, <1>7, <1>8, <2>1

\* While the iteration counter fits a short, converting it changes nothing.
LEMMA ShortId ==
  ASSUME MaxIteration <= ShortRange \div 2, NEW it \in Nat, it < MaxIteration
  PROVE  ToShort(it) = it
<1> DEFINE H == ShortRange \div 2
<1>1. ShortRange \in Nat /\ ShortRange >= 2 /\ MaxIteration \in Nat
  BY ServerAssumption
<1>2. H \in Nat /\ 2 * H <= ShortRange
  BY <1>1
<1>3. it + H \in Nat /\ it + H < ShortRange
  BY <1>1, <1>2
<1>4. (it + H) % ShortRange = it + H
  BY <1>1, <1>3
<1>5. QED
  BY <1>4, <1>2 DEF ToShort

\* The two items of an unstable merge count as two.
LEMMA PairCardinality ==
  \A i, j : i # j => Cardinality({i, j}) = 2
<1> SUFFICES ASSUME NEW i, NEW j, i # j
             PROVE  Cardinality({i, j}) = 2
  OBVIOUS
<1>1. IsFiniteSet({j}) /\ Cardinality({j}) = 1 /\ i \notin {j}
  BY FS_Singleton
<1>2. Cardinality({j} \cup {i}) = Cardinality({j}) + 1
  BY <1>1, FS_AddElement
<1>3. {j} \cup {i} = {i, j}
  OBVIOUS
<1>4. Cardinality({i, j}) = 1 + 1
  BY <1>1, <1>2, <1>3, Zenon
<1>5. QED
  BY <1>4

\* What an unstable merge of items i and j into a new node n does to node
\* and item records.
NewNodeMade(i, j, h, n, c, nd0, nd2, rm, rm2) ==
    /\ nd2 \in [NodeIds -> NodeRec] /\ rm2 \in [Items -> ItemRec]
    /\ \A m \in NodeIds : m # n => nd2[m] = nd0[m]
    /\ nd2[n].page_hash = h /\ nd2[n].chain = c
    /\ nd2[n].sharing = {i, j} /\ nd2[n].shared_cnt = 2
    /\ \A k \in {i, j} : /\ rm2[k].state = "Stable" /\ rm2[k].stable_node = n
                         /\ rm2[k].old_hash = h
                         /\ rm2[k].last_access = rm[k].last_access
    /\ \A k \in Items : (k # i /\ k # j) => rm2[k] = rm[k]

\* The node that an unstable merge starts with.
FreshNode(h, p, c) ==
    [page_hash |-> h, pfn |-> p, chain |-> c, sharing |-> {}, shared_cnt |-> 0]

\* The node map and the rmap tree that an unstable merge leaves.
NodeOfTwo(nd, n, i, j) == insert_item_to_node(insert_item_to_node(nd, n, j), n, i)
ItemsOfTwo(rm, nd, n, i, j) == [rm EXCEPT ![j] = ItemInNode(@, nd, n), ![i] = ItemInNode(@, nd, n)]

\* The table and the nodes once a new node has been linked to its chain.
LEMMA NewNodeShape ==
  ASSUME NEW nd0 \in [NodeIds -> NodeRec], NEW rm \in [Items -> ItemRec],
         NEW i \in Items, NEW j \in Items, i # j,
         NEW h \in Hashes, NEW p \in Pfns \cup {NoPfn},
         NEW n \in NodeIds, NEW c \in NodeIds
  PROVE  LET nd == [nd0 EXCEPT ![n] = FreshNode(h, p, c)]
         IN  NewNodeMade(i, j, h, n, c, nd0, NodeOfTwo(nd, n, i, j), rm, ItemsOfTwo(rm, nd, n, i, j))
<1> DEFINE r0 == FreshNode(h, p, c)
           nd == [nd0 EXCEPT ![n] = r0]
           nd1 == insert_item_to_node(nd, n, j)
           nd2 == insert_item_to_node(nd1, n, i)
           iti == ItemInNode(rm[i], nd, n)
           itj == ItemInNode(rm[j], nd, n)
           rm2 == [rm EXCEPT ![j] = itj, ![i] = iti]
<1>1. r0 \in NodeRec
  BY DEF NodeRec, FreshNode
<1>2. nd \in [NodeIds -> NodeRec] /\ nd[n] = r0 /\ \A m \in NodeIds : m # n => nd[m] = nd0[m]
  BY <1>1
<1>3. \A m \in NodeIds : m # n => nd1[m] = nd[m]
  BY <1>2 DEF insert_item_to_node
<1>4. nd1 \in [NodeIds -> NodeRec]
  BY <1>2, NodeOpsType
<1>5. /\ nd1[n].page_hash = h /\ nd1[n].chain = c
      /\ nd1[n].sharing = {j} /\ nd1[n].shared_cnt = 1
  <2>1. nd1[n] = [nd[n] EXCEPT !.shared_cnt = nd[n].shared_cnt + 1,
                               !.sharing = nd[n].sharing \cup {j}]
    BY <1>2 DEF insert_item_to_node
  <2>2. /\ nd[n].page_hash = h /\ nd[n].chain = c /\ nd[n].sharing = {}
        /\ nd[n].shared_cnt = 0 /\ nd[n] \in NodeRec
    <3>1. nd[n] = r0 /\ r0 \in NodeRec
      BY <1>1, <1>2
    <3>2. r0.page_hash = h /\ r0.chain = c /\ r0.sharing = {} /\ r0.shared_cnt = 0
      BY DEF FreshNode
    <3> HIDE DEF r0, nd
    <3>3. QED
      BY <3>1, <3>2
  <2> HIDE DEF nd, nd1
  <2>3. nd1[n].page_hash = h /\ nd1[n].chain = c /\ nd1[n].shared_cnt = 1
    BY <2>1, <2>2 DEF NodeRec
  <2>4. nd1[n].sharing = nd[n].sharing \cup {j}
    BY <2>1, <2>2 DEF NodeRec
  <2>5. QED
    BY <2>2, <2>3, <2>4
<1>6. rm[i] \in ItemRec /\ rm[j] \in ItemRec /\ iti \in ItemRec /\ itj \in ItemRec
  BY <1>2, InNodeType
<1>7. /\ iti.state = "Stable" /\ iti.stable_node = n /\ iti.old_hash = h
      /\ iti.last_access = rm[i].last_access
  BY <1>2, <1>6 DEF ItemInNode, ItemRec, FreshNode
<1>8. /\ itj.state = "Stable" /\ itj.stable_node = n /\ itj.old_hash = h
      /\ itj.last_access = rm[j].last_access
  BY <1>2, <1>6 DEF ItemInNode, ItemRec, FreshNode
<1> HIDE DEF nd1, iti, itj
<1>9. nd2 \in [NodeIds -> NodeRec]
  BY <1>4, NodeOpsType
<1>10. \A m \in NodeIds : m # n => nd2[m] = nd1[m]
  BY <1>4 DEF insert_item_to_node
<1>11. nd2[n] = [nd1[n] EXCEPT !.shared_cnt = nd1[n].shared_cnt + 1,
                               !.sharing = nd1[n].sharing \cup {i}]
  BY <1>4 DEF insert_item_to_node
<1>12. nd1[n] \in NodeRec
  BY <1>4
<1>13. nd2[n].page_hash = h /\ nd2[n].chain = c /\ nd2[n].shared_cnt = 2
  BY <1>5, <1>11, <1>12 DEF NodeRec
<1>14. nd2[n].sharing = nd1[n].sharing \cup {i}
  BY <1>11, <1>12 DEF NodeRec
<1>15. nd2[n].sharing = {i, j}
  BY <1>14, <1>5
<1>16. /\ rm2[i] = iti /\ rm2[j] = itj /\ rm2 \in [Items -> ItemRec]
       /\ \A k \in Items : (k # i /\ k # j) => rm2[k] = rm[k]
  BY <1>6
<1>17. \A m \in NodeIds : m # n => nd2[m] = nd0[m]
  BY <1>2, <1>3, <1>10
<1>18. \A k \in {i, j} : /\ rm2[k].state = "Stable" /\ rm2[k].stable_node = n
                         /\ rm2[k].old_hash = h
                         /\ rm2[k].last_access = rm[k].last_access
  BY <1>7, <1>8, <1>16
<1>19. QED
  BY <1>9, <1>13, <1>15, <1>16, <1>17, <1>18 DEF nd1, iti, itj, NewNodeMade, NodeOfTwo, ItemsOfTwo

\* A new node made of two items (unstable merge) keeps the structure.
LEMMA NewNodeStruct ==
  ASSUME TypeOK, StructInv,
         NEW i \in Items, rmap_tree[i].state # "Stable",
         NEW j \in Items, rmap_tree[j].state # "Stable", i # j,
         NEW h \in Hashes, NEW n, n = created + 1, created < MaxNodes,
         NEW c, c = ChainFor(n, h),
         Cardinality({i, j}) = 2,
         NewNodeMade(i, j, h, n, c, node, node', rmap_tree, rmap_tree'),
         stable_hash_table' = [stable_hash_table EXCEPT ![h] = c],
         created' = n, clashed' = clashed
  PROVE  /\ stable_hash_table' \in [Hashes -> NodeIds \cup {NoNode}]
         /\ created' \in 0..MaxNodes
         /\ n \in NodeIds /\ node[n] = FreeNode
         /\ StructInv'
<1>1. /\ node \in [NodeIds -> NodeRec] /\ rmap_tree \in [Items -> ItemRec]
      /\ stable_hash_table \in [Hashes -> NodeIds \cup {NoNode}]
      /\ created \in 0..MaxNodes
  BY DEF TypeOK
<1>2. n \in NodeIds /\ created' \in 0..MaxNodes /\ n # NoNode
  BY <1>1, ServerAssumption DEF NodeIds, NoNode
<1>3. node[n] = FreeNode
  BY <1>1, <1>2 DEF StructInv, NodesOK
<1>4. c \in NodeIds /\ c # NoNode
  BY <1>1, <1>2 DEF ChainFor, NodeIds, NoNode
<1>7. /\ \A m \in NodeIds : m # n => node'[m] = node[m]
      /\ node' \in [NodeIds -> NodeRec]
      /\ node'[n].page_hash = h /\ node'[n].chain = c
      /\ node'[n].sharing = {i, j} /\ node'[n].shared_cnt = 2
  BY DEF NewNodeMade
<1>9. \A k \in Items : (k # i /\ k # j) => rmap_tree'[k] = rmap_tree[k]
  BY DEF NewNodeMade
<1>10. \A k \in {i, j} : /\ rmap_tree'[k].state = "Stable"
                         /\ rmap_tree'[k].stable_node = n
                         /\ rmap_tree'[k].old_hash = h
  BY DEF NewNodeMade
<1>11. /\ stable_hash_table' \in [Hashes -> NodeIds \cup {NoNode}]
       /\ stable_hash_table'[h] = c
       /\ \A g \in Hashes : g # h => stable_hash_table'[g] = stable_hash_table[g]
  BY <1>1, <1>4
<1>12. \A m \in NodeIds : node[m].chain # NoNode => node[m].chain # n
  BY <1>1 DEF StructInv, NodesOK, FreeNode
<1>13. \A m \in NodeIds : node[m].chain = c => node[m].page_hash = h
  <2>1. CASE stable_hash_table[h] = NoNode
    BY <2>1, <1>2, <1>12 DEF ChainFor
  <2>2. CASE stable_hash_table[h] # NoNode
    <3>1. c = stable_hash_table[h]
      BY <2>2 DEF ChainFor
    <3>2. QED
      BY <2>2, <3>1, <1>4 DEF StructInv, TableSound, Chain
  <2>3. QED
    BY <2>1, <2>2
<1>14. NodesOK'
  <2>1. c \in 1..created'
    <3>1. CASE stable_hash_table[h] = NoNode
      BY <3>1, <1>1, <1>2 DEF ChainFor, NodeIds
    <3>2. CASE stable_hash_table[h] # NoNode
      <4>1. c = stable_hash_table[h] /\ Chain(node, c) # {}
        BY <3>2 DEF ChainFor, StructInv, TableSound
      <4>2. PICK m \in NodeIds : node[m].chain = c
        BY <4>1 DEF Chain
      <4>3. node[m] # FreeNode
        BY <4>2, <1>4 DEF FreeNode
      <4>4. QED
        BY <4>2, <4>3, <1>1 DEF StructInv, NodesOK
    <3>3. QED
      BY <3>1, <3>2
  <2>2. \A m \in NodeIds : m # n =>
           \/ node'[m] = FreeNode
           \/ m <= created' /\ node'[m].chain \in 1..created' /\ node'[m].page_hash \in Hashes
    BY <1>1, <1>7 DEF StructInv, NodesOK, NodeIds
  <2>3. QED
    BY <1>2, <1>7, <2>1, <2>2 DEF NodesOK, NodeIds
<1>15. SharingConsistent'
  <2>1. \A m \in NodeIds : i \notin node[m].sharing /\ j \notin node[m].sharing
    BY DEF StructInv, SharingConsistent
  <2>2. \A k \in Items : rmap_tree'[k].state = "Stable" =>
            /\ rmap_tree'[k].stable_node \in NodeIds
            /\ node'[rmap_tree'[k].stable_node].chain # NoNode
            /\ k \in node'[rmap_tree'[k].stable_node].sharing
    <3> SUFFICES ASSUME NEW k \in Items, rmap_tree'[k].state = "Stable"
                 PROVE  /\ rmap_tree'[k].stable_node \in NodeIds
                        /\ node'[rmap_tree'[k].stable_node].chain # NoNode
                        /\ k \in node'[rmap_tree'[k].stable_node].sharing
      OBVIOUS
    <3>1. CASE k \in {i, j}
      BY <3>1, <1>2, <1>4, <1>7, <1>10
    <3>2. CASE k \notin {i, j}
      <4>1. rmap_tree'[k] = rmap_tree[k]
        BY <3>2, <1>9
      <4>2. /\ rmap_tree[k].stable_node \in NodeIds
            /\ node[rmap_tree[k].stable_node].chain # NoNode
            /\ k \in node[rmap_tree[k].stable_node].sharing
        BY <4>1 DEF StructInv, SharingConsistent, Live
      <4>3. rmap_tree[k].stable_node # n
        BY <4>2, <1>3 DEF FreeNode
      <4>4. QED
        BY <4>1, <4>2, <4>3, <1>7
    <3>3. QED
      BY <3>1, <3>2
  <2>3. \A m \in NodeIds : \A k \in node'[m].sharing :
            rmap_tree'[k].state = "Stable" /\ rmap_tree'[k].stable_node = m
    <3> SUFFICES ASSUME NEW m \in NodeIds, NEW k \in node'[m].sharing
                 PROVE  rmap_tree'[k].state = "Stable" /\ rmap_tree'[k].stable_node = m
      OBVIOUS
    <3>1. CASE m = n
      BY <3>1, <1>7, <1>10
    <3>2. CASE m # n
      <4>1. k \in node[m].sharing
        BY <3>2, <1>7
      <4>2. k \in Items /\ k # i /\ k # j
        BY <4>1, <1>1, <2>1 DEF NodeRec
      <4>3. rmap_tree[k].state = "Stable" /\ rmap_tree[k].stable_node = m
        BY <4>1 DEF StructInv, SharingConsistent
      <4>4. QED
        BY <4>2, <4>3, <1>9
    <3>3. QED
      BY <3>1, <3>2
  <2>4. QED
    BY <2>2, <2>3 DEF SharingConsistent, Live
<1>16. CountsExact'
  <2>2. /\ node'[n].shared_cnt = Cardinality(node'[n].sharing)
        /\ node'[n].shared_cnt \in 1..MAX_PAGE_SHARING
    <3>1. 2 \in 1..MAX_PAGE_SHARING
      BY ServerAssumption
    <3>2. QED
      BY <3>1, <1>7
  <2>3. QED
    BY <2>2, <1>7 DEF StructInv, CountsExact, Live
<1>17. HashesAgree'
  <2>1. \A k \in Items : rmap_tree'[k].state = "Stable" =>
            rmap_tree'[k].old_hash = node'[rmap_tree'[k].stable_node].page_hash
    <3> SUFFICES ASSUME NEW k \in Items, rmap_tree'[k].state = "Stable"
                 PROVE  rmap_tree'[k].old_hash = node'[rmap_tree'[k].stable_node].page_hash
      OBVIOUS
    <3>1. CASE k \in {i, j}
      BY <3>1, <1>7, <1>10
    <3>2. CASE k \notin {i, j}
      <4>1. rmap_tree'[k] = rmap_tree[k]
        BY <3>2, <1>9
      <4>2. /\ rmap_tree[k].stable_node \in NodeIds
            /\ node[rmap_tree[k].stable_node].chain # NoNode
            /\ rmap_tree[k].old_hash = node[rmap_tree[k].stable_node].page_hash
        BY <4>1 DEF StructInv, SharingConsistent, HashesAgree, Live
      <4>3. rmap_tree[k].stable_node # n
        BY <4>2, <1>3 DEF FreeNode
      <4>4. QED
        BY <4>1, <4>2, <4>3, <1>7
    <3>3. QED
      BY <3>1, <3>2
  <2>2. \A m, l \in NodeIds : (node'[m].chain # NoNode /\ node'[m].chain = node'[l].chain)
            => node'[m].page_hash = node'[l].page_hash
    BY <1>7, <1>13 DEF StructInv, HashesAgree, Live
  <2>3. QED
    BY <2>1, <2>2 DEF HashesAgree, Live
<1>18. TableSound'
  <2> SUFFICES ASSUME NEW g \in Hashes, stable_hash_table'[g] # NoNode
               PROVE  /\ Chain(node', stable_hash_table'[g]) # {}
                      /\ \A m \in Chain(node', stable_hash_table'[g]) : node'[m].page_hash = g
    BY DEF TableSound
  <2>1. CASE g = h
    <3>1. n \in Chain(node', c)
      BY <1>2, <1>4, <1>7 DEF Chain
    <3>2. \A m \in NodeIds : node'[m].chain = c => node'[m].page_hash = h
      BY <1>7, <1>13
    <3>3. QED
      BY <2>1, <3>1, <3>2, <1>11 DEF Chain
  <2>2. CASE g # h
    <3> DEFINE d == stable_hash_table[g]
    <3>1. d = stable_hash_table'[g] /\ d # NoNode
      BY <2>2, <1>11
    <3>2. Chain(node, d) # {} /\ \A m \in Chain(node, d) : node[m].page_hash = g
      BY <3>1 DEF StructInv, TableSound
    <3>3. d # c
      BY <3>1, <3>2, <2>2, <1>13 DEF Chain
    <3>4. Chain(node', d) = Chain(node, d) /\ n \notin Chain(node', d)
      BY <3>1, <3>3, <1>3, <1>7 DEF Chain, FreeNode
    <3>5. \A m \in Chain(node', d) : m \in NodeIds /\ m # n
      BY <3>4 DEF Chain
    <3>6. QED
      BY <3>1, <3>2, <3>4, <3>5, <1>7
  <2>3. QED
    BY <2>1, <2>2
<1>19. TableComplete'
  <2> SUFFICES ASSUME ~clashed, NEW m \in NodeIds, node'[m].chain # NoNode
               PROVE  stable_hash_table'[node'[m].page_hash] = node'[m].chain
    BY DEF TableComplete, Live
  <2>1. CASE m = n
    BY <2>1, <1>7, <1>11
  <2>2. CASE m # n
    <3>1. node'[m] = node[m] /\ node[m] # FreeNode
      BY <2>2, <1>7 DEF FreeNode
    <3>2. node[m].page_hash \in Hashes
      BY <3>1 DEF StructInv, NodesOK
    <3>3. stable_hash_table[node[m].page_hash] = node[m].chain
      BY <3>1 DEF StructInv, TableComplete, Live
    <3>4. CASE node[m].page_hash = h
      BY <3>1, <3>3, <3>4, <1>11 DEF ChainFor
    <3>5. CASE node[m].page_hash # h
      BY <3>1, <3>2, <3>3, <3>5, <1>11
    <3>6. QED
      BY <3>4, <3>5
  <2>3. QED
    BY <2>1, <2>2
<1>20. StructInv'
  BY <1>14, <1>15, <1>16, <1>17, <1>18, <1>19 DEF StructInv
<1>21. QED
  BY <1>2, <1>3, <1>11, <1>20

\* A re-key moves a chain and its items to a new hash.
LEMMA RekeyStruct ==
  ASSUME TypeOK, StructInv,
         NEW i \in Items, rmap_tree[i].state = "Stable",
         NEW h \in Hashes, h # rmap_tree[i].old_hash,
         NEW c, c = node[rmap_tree[i].stable_node].chain,
         NEW old, old = node[rmap_tree[i].stable_node].page_hash,
         stable_hash_table' = [stable_hash_table EXCEPT ![old] = NoNode, ![h] = c],
         clashed' = (clashed \/ stable_hash_table[h] # NoNode),
         node' = [n \in NodeIds |-> IF n \in Chain(node, c)
                                    THEN [node[n] EXCEPT !.page_hash = h] ELSE node[n]],
         rmap_tree' = [k \in Items |-> IF \E n \in Chain(node, c) : k \in node[n].sharing
                                       THEN [rmap_tree[k] EXCEPT !.old_hash = h]
                                       ELSE rmap_tree[k]],
         created' = created
  PROVE  /\ node' \in [NodeIds -> NodeRec]
         /\ rmap_tree' \in [Items -> ItemRec]
         /\ stable_hash_table' \in [Hashes -> NodeIds \cup {NoNode}]
         /\ clashed' \in BOOLEAN
         /\ StructInv'
         /\ \A n \in NodeIds : node'[n].pfn = node[n].pfn
         /\ \A k \in Items : /\ rmap_tree'[k].state = rmap_tree[k].state
                             /\ rmap_tree'[k].stable_node = rmap_tree[k].stable_node
                             /\ rmap_tree'[k].last_access = rmap_tree[k].last_access
                             /\ rmap_tree[k].state # "Stable" => rmap_tree'[k] = rmap_tree[k]
<1> DEFINE M == Chain(node, c)
           s == rmap_tree[i].stable_node
<1>1. /\ node \in [NodeIds -> NodeRec] /\ rmap_tree \in [Items -> ItemRec]
      /\ stable_hash_table \in [Hashes -> NodeIds \cup {NoNode}]
      /\ clashed \in BOOLEAN
  BY DEF TypeOK
<1>2. /\ s \in NodeIds /\ Live(s) /\ c \in NodeIds /\ c \in 1..created /\ old \in Hashes
      /\ c # NoNode /\ old # h
  <2>1. /\ s \in NodeIds /\ Live(s) /\ c \in NodeIds /\ c \in 1..created /\ old \in Hashes
        /\ rmap_tree[i].old_hash = old
    BY NodeOfStable
  <2>2. QED
    BY <2>1 DEF Live
<1>3. s \in M /\ M \subseteq NodeIds /\ \A n \in NodeIds : n \in M <=> node[n].chain = c
  BY <1>2 DEF Chain
<1>4. \A n \in NodeIds : [node[n] EXCEPT !.page_hash = h] \in NodeRec
  BY <1>1 DEF NodeRec
<1>5. node' \in [NodeIds -> NodeRec]
  BY <1>1, <1>4
<1>6. /\ \A n \in NodeIds : n \in M => node'[n].page_hash = h
      /\ \A n \in NodeIds : n \notin M => node'[n] = node[n]
      /\ \A n \in NodeIds : /\ node'[n].chain = node[n].chain
                            /\ node'[n].sharing = node[n].sharing
                            /\ node'[n].shared_cnt = node[n].shared_cnt
                            /\ node'[n].pfn = node[n].pfn
  <2> SUFFICES ASSUME NEW n \in NodeIds
               PROVE  /\ n \in M => node'[n].page_hash = h
                      /\ n \notin M => node'[n] = node[n]
                      /\ node'[n].chain = node[n].chain
                      /\ node'[n].sharing = node[n].sharing
                      /\ node'[n].shared_cnt = node[n].shared_cnt
                      /\ node'[n].pfn = node[n].pfn
    OBVIOUS
  <2>1. node[n] \in NodeRec
    BY <1>1
  <2>2. node'[n] = IF n \in M THEN [node[n] EXCEPT !.page_hash = h] ELSE node[n]
    OBVIOUS
  <2>3. QED
    BY <2>1, <2>2 DEF NodeRec
<1>7. \A k \in Items : /\ [rmap_tree[k] EXCEPT !.old_hash = h] \in ItemRec
                       /\ [rmap_tree[k] EXCEPT !.old_hash = h].old_hash = h
                       /\ [rmap_tree[k] EXCEPT !.old_hash = h].state = rmap_tree[k].state
                       /\ [rmap_tree[k] EXCEPT !.old_hash = h].stable_node = rmap_tree[k].stable_node
                       /\ [rmap_tree[k] EXCEPT !.old_hash = h].last_access = rmap_tree[k].last_access
  BY <1>1 DEF ItemRec
<1>8. \A k \in Items : (\E n \in M : k \in node[n].sharing) <=>
            (rmap_tree[k].state = "Stable" /\ rmap_tree[k].stable_node \in M)
  BY <1>3 DEF StructInv, SharingConsistent
<1>9. \A k \in Items :
         rmap_tree'[k] = IF rmap_tree[k].state = "Stable" /\ rmap_tree[k].stable_node \in M
                         THEN [rmap_tree[k] EXCEPT !.old_hash = h] ELSE rmap_tree[k]
  BY <1>8
<1>10. rmap_tree' \in [Items -> ItemRec]
  BY <1>1, <1>7
<1>11. /\ stable_hash_table' \in [Hashes -> NodeIds \cup {NoNode}]
       /\ stable_hash_table'[h] = c /\ stable_hash_table'[old] = NoNode
       /\ \A g \in Hashes : (g # h /\ g # old) => stable_hash_table'[g] = stable_hash_table[g]
  BY <1>1, <1>2
<1>12. \A k \in Items : /\ rmap_tree'[k].state = rmap_tree[k].state
                        /\ rmap_tree'[k].stable_node = rmap_tree[k].stable_node
                        /\ rmap_tree'[k].last_access = rmap_tree[k].last_access
                        /\ rmap_tree[k].state # "Stable" => rmap_tree'[k] = rmap_tree[k]
  BY <1>7, <1>9
<1>13. clashed' \in BOOLEAN
  BY <1>1, Zenon
<1>14. \A n \in NodeIds : n \in M => node[n].page_hash = old
  BY <1>2, <1>3 DEF StructInv, HashesAgree, Live
<1>15. NodesOK'
  <2> SUFFICES ASSUME NEW n \in NodeIds, node'[n] # FreeNode
               PROVE  n <= created /\ node'[n].chain \in 1..created /\ node'[n].page_hash \in Hashes
    BY DEF NodesOK
  <2>1. CASE n \in M
    <3>1. node[n] # FreeNode
      BY <2>1, <1>2, <1>3 DEF FreeNode
    <3>2. QED
      BY <2>1, <3>1, <1>6 DEF StructInv, NodesOK
  <2>2. CASE n \notin M
    BY <2>2, <1>6 DEF StructInv, NodesOK
  <2>3. QED
    BY <2>1, <2>2
<1>16. SharingConsistent'
  <2>1. \A n \in NodeIds : node[n].sharing \in SUBSET Items
    BY <1>1 DEF NodeRec
  <2>2. QED
    BY <2>1, <1>6, <1>12 DEF StructInv, SharingConsistent, Live
<1>17. CountsExact'
  BY <1>6 DEF StructInv, CountsExact, Live
<1>18. HashesAgree'
  <2>1. \A k \in Items : rmap_tree'[k].state = "Stable" =>
            rmap_tree'[k].old_hash = node'[rmap_tree'[k].stable_node].page_hash
    <3> SUFFICES ASSUME NEW k \in Items, rmap_tree'[k].state = "Stable"
                 PROVE  rmap_tree'[k].old_hash = node'[rmap_tree'[k].stable_node].page_hash
      BY Zenon
    <3>0. rmap_tree[k].state = "Stable" /\ rmap_tree'[k].stable_node = rmap_tree[k].stable_node
      BY <1>12, Zenon
    <3>1. /\ rmap_tree[k].stable_node \in NodeIds
          /\ rmap_tree[k].old_hash = node[rmap_tree[k].stable_node].page_hash
      BY <3>0 DEF StructInv, SharingConsistent, HashesAgree
    <3>2. CASE rmap_tree[k].stable_node \in M
      <4>1. rmap_tree'[k] = [rmap_tree[k] EXCEPT !.old_hash = h]
        BY <3>0, <3>2, <1>9
      <4>2. rmap_tree'[k].old_hash = h
        BY <4>1, <1>7
      <4>3. QED
        BY <3>0, <3>1, <3>2, <4>2, <1>6
    <3>3. CASE rmap_tree[k].stable_node \notin M
      BY <3>0, <3>1, <3>3, <1>6, <1>9
    <3>4. QED
      BY <3>2, <3>3
  <2>2. \A n, m \in NodeIds : (node'[n].chain # NoNode /\ node'[m].chain # NoNode
                                /\ node'[n].chain = node'[m].chain)
            => node'[n].page_hash = node'[m].page_hash
    <3> SUFFICES ASSUME NEW n \in NodeIds, NEW m \in NodeIds,
                        node[n].chain # NoNode, node[m].chain # NoNode,
                        node[n].chain = node[m].chain
                 PROVE  node'[n].page_hash = node'[m].page_hash
      BY <1>6
    <3>1. n \in M <=> m \in M
      BY <1>3
    <3>2. QED
      BY <3>1, <1>6 DEF StructInv, HashesAgree, Live
  <2>3. QED
    BY <2>1, <2>2 DEF HashesAgree, Live
<1>19. TableSound'
  <2> SUFFICES ASSUME NEW g \in Hashes, stable_hash_table'[g] # NoNode
               PROVE  /\ Chain(node', stable_hash_table'[g]) # {}
                      /\ \A m \in Chain(node', stable_hash_table'[g]) : node'[m].page_hash = g
    BY DEF TableSound
  <2>1. \A d : Chain(node', d) = Chain(node, d)
    BY <1>6 DEF Chain
  <2>2. CASE g = h
    BY <2>1, <2>2, <1>3, <1>6, <1>11
  <2>3. CASE g # h
    <3> DEFINE d == stable_hash_table[g]
    <3>1. g # old /\ stable_hash_table'[g] = d /\ d # NoNode
      BY <2>3, <1>11
    <3>2. Chain(node, d) # {} /\ \A m \in Chain(node, d) : node[m].page_hash = g
      BY <3>1 DEF StructInv, TableSound
    <3>3. d # c
      BY <3>1, <3>2, <1>3, <1>14
    <3>4. \A m \in Chain(node, d) : m \in NodeIds /\ m \notin M
      BY <3>3, <1>3 DEF Chain
    <3>5. QED
      BY <2>1, <3>1, <3>2, <3>4, <1>6
  <2>4. QED
    BY <2>2, <2>3
<1>20. TableComplete'
  <2> SUFFICES ASSUME ~clashed', NEW n \in NodeIds, node'[n].chain # NoNode
               PROVE  stable_hash_table'[node'[n].page_hash] = node'[n].chain
    BY DEF TableComplete, Live
  <2>1. ~clashed /\ stable_hash_table[h] = NoNode
    BY Zenon
  <2>2. \A m \in NodeIds : node[m].chain # NoNode =>
            stable_hash_table[node[m].page_hash] = node[m].chain
    BY <2>1 DEF StructInv, TableComplete, Live
  <2>3. CASE n \in M
    <3>1. node'[n].page_hash = h /\ node'[n].chain = node[n].chain /\ node[n].chain = c
      BY <2>3, <1>3, <1>6, Zenon
    <3>2. QED
      BY <3>1, <1>11, Zenon
  <2>4. CASE n \notin M
    <3>1. node'[n] = node[n] /\ node[n].chain # NoNode /\ node[n].chain # c
      BY <2>4, <1>3, <1>6
    <3>2. node[n].page_hash \in Hashes
      BY <3>1 DEF StructInv, NodesOK, FreeNode
    <3>3. stable_hash_table[old] = c
      BY <2>2, <1>2 DEF Live
    <3>4. node[n].page_hash # h /\ node[n].page_hash # old
      BY <2>1, <2>2, <3>1, <3>3
    <3>5. QED
      BY <2>2, <3>1, <3>2, <3>4, <1>11
  <2>5. QED
    BY <2>3, <2>4
<1>21. QED
  BY <1>5, <1>6, <1>10, <1>11, <1>12, <1>13, <1>15, <1>16, <1>17, <1>18, <1>19, <1>20 DEF StructInv

-----------------------------------------------------------------------------
(***************************************************************************)
(* Frames: the parts of ServerInv that most actions leave alone            *)
(***************************************************************************)

\* insert_ksm_log keeps the earlier entries and adds one at the end.
LEMMA AppendEntry ==
  ASSUME log \in Seq(LogRec), NEW r \in LogRec
  PROVE  /\ Append(log, r) \in Seq(LogRec)
         /\ Len(log) + 1 \notin DOMAIN log
         /\ DOMAIN Append(log, r) = DOMAIN log \cup {Len(log) + 1}
         /\ \A k \in DOMAIN log : Append(log, r)[k] = log[k]
         /\ Append(log, r)[Len(log) + 1] = r
  OBVIOUS

\* The fields of a log entry.
LEMMA LogTypes ==
  ASSUME NEW r \in LogRec
  PROVE  /\ r.from \in Items
         /\ r.type = "UNSTABLE_MERGE" => r.to \in Items
  BY DEF LogRec

\* In the middle of a page nothing of the phase structure moves.
LEMMA ScanFrame ==
  ASSUME ServerInv, phase = "work", page # NoPage, UNCHANGED scanRest,
         rmap_tree' \in [Items -> ItemRec], node' \in [NodeIds -> NodeRec],
         created' \in 0..MaxNodes,
         stable_hash_table' \in [Hashes -> NodeIds \cup {NoNode}],
         unstable_hash_table' \in [Hashes -> Items \cup {NoItem}],
         log' \in Seq(LogRec), clashed' \in BOOLEAN,
         \/ page' = NoPage
         \/ page' = page /\ rmap_tree'[page.item].state \in {"Volatile", "Stable"},
         \A i \in Items : /\ rmap_tree'[i].last_access = rmap_tree[i].last_access
                          /\ InTree(i) => rmap_tree'[i].state # "Absent",
         StructInv', UnstableExact', LogMatchesMetadata', LogOK'
  PROVE  ServerInv'
<1>1. /\ phase' = phase /\ iteration' = iteration /\ present' = present
      /\ errs' = errs /\ todo' = todo /\ victims' = victims
      /\ total_accessed_cnt' = total_accessed_cnt
  BY DEF scanRest
<1>2. errs = {} /\ victims = {}
  BY DEF ServerInv, PhaseOK
<1>3. page' \in PageRec
  <2>1. NoPage \in PageRec /\ page \in PageRec
    BY DEF ServerInv, TypeOK, NoPage, PageRec
  <2>2. QED
    BY <2>1
<1>4. TypeOK'
  <2>1. /\ phase' \in {"wait", "work", "prune", "down"}
        /\ iteration' \in 0..MaxIteration /\ present' \in SUBSET Items
        /\ errs' \in SUBSET ErrRec /\ todo' \in SUBSET present'
        /\ victims' \in SUBSET Items /\ total_accessed_cnt' \in Nat
    BY <1>1 DEF ServerInv, TypeOK
  <2>2. QED
    BY <1>3, <2>1 DEF TypeOK
<1>5. PhaseOK'
  BY <1>1, <1>2 DEF ServerInv, PhaseOK
<1>6. ScannedOK'
  BY <1>1 DEF ServerInv, TypeOK, ScannedOK, InTree
<1>7. ErrorsApply' /\ ErrsOK' /\ PruneOnlyUnaccessed' /\ VictimsOK'
  BY <1>1, <1>2 DEF ErrorsApply, ErrsOK, PruneOnlyUnaccessed, VictimsOK
<1>8. QED
  BY <1>4, <1>5, <1>6, <1>7 DEF ServerInv

\* The Unstable items are the same.
LEMMA UnstableFrame ==
  ASSUME ServerInv, unstable_hash_table' = unstable_hash_table,
         \A i \in Items :
            /\ rmap_tree'[i].state = "Unstable" <=> rmap_tree[i].state = "Unstable"
            /\ rmap_tree[i].state = "Unstable" => rmap_tree'[i].old_hash = rmap_tree[i].old_hash
            /\ i \in present \ todo => i \in present' \ todo',
         phase \in {"work", "down"} => phase' \in {"work", "down"}
  PROVE  UnstableExact'
<1>1. unstable_hash_table \in [Hashes -> Items \cup {NoItem}]
  BY DEF ServerInv, TypeOK
<1>2. \A h \in Hashes : unstable_hash_table[h] # NoItem =>
            /\ rmap_tree'[unstable_hash_table[h]].state = "Unstable"
            /\ rmap_tree'[unstable_hash_table[h]].old_hash = h
  BY <1>1 DEF ServerInv, UnstableExact
<1>3. \A i \in Items : rmap_tree'[i].state = "Unstable" =>
            /\ rmap_tree'[i].old_hash \in Hashes
            /\ unstable_hash_table[rmap_tree'[i].old_hash] = i
            /\ i \in present' \ todo'
            /\ phase' \in {"work", "down"}
  BY DEF ServerInv, UnstableExact
<1>4. QED
  BY <1>2, <1>3 DEF UnstableExact

\* The merges of the log are the same and about pages that have been scanned.
LEMMA LogFrame ==
  ASSUME ServerInv, log' \in Seq(LogRec),
         \A k \in DOMAIN log' : IsMerge(log'[k]) => k \in DOMAIN log /\ log'[k] = log[k],
         \A i \in Items : (i \in present \ todo /\ i # page.item) =>
            /\ i \in present' \ todo' /\ i # page'.item
            /\ (errs = {} /\ rmap_tree[i].state = "Stable") =>
                 /\ rmap_tree'[i].state = "Stable"
                 /\ rmap_tree'[i].stable_node = rmap_tree[i].stable_node
                 /\ node'[rmap_tree[i].stable_node].pfn = node[rmap_tree[i].stable_node].pfn,
         errs = {} => errs' = {}
  PROVE  LogMatchesMetadata' /\ LogOK'
<1>1. \A k \in DOMAIN log' : IsMerge(log'[k]) =>
         /\ errs = {} /\ k \in DOMAIN log /\ log'[k] = log[k]
         /\ log[k].from \in Items
         /\ log[k].from \in present \ todo /\ log[k].from # page.item
         /\ log[k].type = "UNSTABLE_MERGE" =>
              log[k].to \in Items /\ log[k].to \in present \ todo /\ log[k].to # page.item
  <2> SUFFICES ASSUME NEW k \in DOMAIN log', IsMerge(log'[k])
               PROVE  /\ errs = {} /\ k \in DOMAIN log /\ log'[k] = log[k]
                      /\ log[k].from \in Items
                      /\ log[k].from \in present \ todo /\ log[k].from # page.item
                      /\ log[k].type = "UNSTABLE_MERGE" =>
                           log[k].to \in Items /\ log[k].to \in present \ todo /\ log[k].to # page.item
    OBVIOUS
  <2>1. k \in DOMAIN log /\ log'[k] = log[k] /\ IsMerge(log[k])
    OBVIOUS
  <2>2. log[k] \in LogRec
    BY <2>1 DEF ServerInv, TypeOK
  <2>3. QED
    BY <2>1, <2>2, LogTypes DEF ServerInv, LogOK
<1>2. LogMatchesMetadata'
  <2> SUFFICES ASSUME NEW k \in DOMAIN log', IsMerge(log'[k])
               PROVE  /\ log'[k].type = "STABLE_MERGE" =>
                           /\ rmap_tree'[log'[k].from].state = "Stable"
                           /\ node'[rmap_tree'[log'[k].from].stable_node].pfn = log'[k].kpfn
                      /\ log'[k].type = "UNSTABLE_MERGE" =>
                           /\ rmap_tree'[log'[k].from].state = "Stable"
                           /\ rmap_tree'[log'[k].to].state = "Stable"
                           /\ rmap_tree'[log'[k].to].stable_node = rmap_tree'[log'[k].from].stable_node
    BY DEF LogMatchesMetadata, IsMerge
  <2>1. /\ k \in DOMAIN log /\ log'[k] = log[k] /\ errs = {}
        /\ log[k].from \in Items
        /\ log[k].from \in present \ todo /\ log[k].from # page.item
        /\ log[k].type = "UNSTABLE_MERGE" =>
              log[k].to \in Items /\ log[k].to \in present \ todo /\ log[k].to # page.item
    BY <1>1
  <2>2. /\ log[k].type = "STABLE_MERGE" =>
             /\ rmap_tree[log[k].from].state = "Stable"
             /\ node[rmap_tree[log[k].from].stable_node].pfn = log[k].kpfn
        /\ log[k].type = "UNSTABLE_MERGE" =>
             /\ rmap_tree[log[k].from].state = "Stable"
             /\ rmap_tree[log[k].to].state = "Stable"
             /\ rmap_tree[log[k].to].stable_node = rmap_tree[log[k].from].stable_node
    BY <2>1 DEF ServerInv, LogMatchesMetadata
  <2>3. QED
    BY <2>1, <2>2
<1>3. LogOK'
  <2>1. \A k \in DOMAIN log' : IsMerge(log'[k]) =>
           /\ log'[k].from \in present' \ todo'
           /\ log'[k].from # page'.item
           /\ log'[k].type = "UNSTABLE_MERGE" =>
                log'[k].to \in present' \ todo' /\ log'[k].to # page'.item
    BY <1>1
  <2>2. \A k, l \in DOMAIN log' : (k # l /\ IsMerge(log'[k]) /\ IsMerge(log'[l])) =>
           /\ log'[k].from # log'[l].from
           /\ (log'[k].type = "UNSTABLE_MERGE" /\ log'[l].type = "UNSTABLE_MERGE") =>
                rmap_tree'[log'[k].from].stable_node # rmap_tree'[log'[l].from].stable_node
    <3> SUFFICES ASSUME NEW k \in DOMAIN log', NEW l \in DOMAIN log', k # l,
                        IsMerge(log'[k]), IsMerge(log'[l])
                 PROVE  /\ log'[k].from # log'[l].from
                        /\ (log'[k].type = "UNSTABLE_MERGE" /\ log'[l].type = "UNSTABLE_MERGE") =>
                             rmap_tree'[log'[k].from].stable_node # rmap_tree'[log'[l].from].stable_node
      OBVIOUS
    <3>1. /\ errs = {}
          /\ k \in DOMAIN log /\ log'[k] = log[k] /\ log[k].from \in Items
          /\ log[k].from \in present \ todo /\ log[k].from # page.item
          /\ l \in DOMAIN log /\ log'[l] = log[l] /\ log[l].from \in Items
          /\ log[l].from \in present \ todo /\ log[l].from # page.item
      BY <1>1
    <3>2. /\ log[k].type = "UNSTABLE_MERGE" => rmap_tree[log[k].from].state = "Stable"
          /\ log[l].type = "UNSTABLE_MERGE" => rmap_tree[log[l].from].state = "Stable"
      BY <3>1 DEF ServerInv, LogMatchesMetadata
    <3>3. /\ log[k].from # log[l].from
          /\ (log[k].type = "UNSTABLE_MERGE" /\ log[l].type = "UNSTABLE_MERGE") =>
               rmap_tree[log[k].from].stable_node # rmap_tree[log[l].from].stable_node
      BY <3>1 DEF ServerInv, LogOK
    <3>4. QED
      BY <3>1, <3>2, <3>3
  <2>3. errs' # {} => \A k \in DOMAIN log' : ~IsMerge(log'[k])
    BY <1>1
  <2>4. QED
    BY <2>1, <2>2, <2>3 DEF LogOK, IsMerge
<1>4. QED
  BY <1>2, <1>3

-----------------------------------------------------------------------------
(***************************************************************************)
(* The steps of cmp_and_merge_one                                          *)
(***************************************************************************)

\* What is known of the page in hand.
LEMMA InHand ==
  ASSUME ServerInv, NEW s, PageInHand(s)
  PROVE  /\ phase = "work" /\ page # NoPage /\ errs = {}
         /\ page.item \in Items /\ page.item \in present \ todo /\ page.hash \in Hashes
         /\ rmap_tree[page.item].state = s
         /\ rmap_tree[page.item] \in ItemRec
  BY DEF ServerInv, PhaseOK, TypeOK, PageInHand, curr

\* The logged entry of a demotion is of its type and is no merge.
LEMMA DemotionType ==
  ASSUME TypeOK, StructInv, NEW i \in Items, rmap_tree[i].state = "Stable"
  PROVE  /\ log_stale_node(i) \in LogRec /\ ~IsMerge(log_stale_node(i))
         /\ log_item_state_change(i) \in LogRec /\ ~IsMerge(log_item_state_change(i))
<1>1. node[rmap_tree[i].stable_node] \in NodeRec
  BY NodeOfStable DEF TypeOK
<1>2. node[rmap_tree[i].stable_node].pfn \in Pfns \cup {NoPfn}
  BY <1>1 DEF NodeRec
<1>3. QED
  BY <1>2 DEF log_stale_node, log_item_state_change, LogRec, IsMerge

\* StableMoved: the item leaves its node, is reset, and the host is told.
LEMMA StableMovedInv == ServerInv /\ StableMoved => ServerInv'
<1> SUFFICES ASSUME ServerInv, StableMoved PROVE ServerInv'
  OBVIOUS
<1> DEFINE x == page.item
           it == reset_item_state(rmap_tree[x])
<1>1. /\ phase = "work" /\ page # NoPage /\ errs = {}
      /\ x \in Items /\ x \in present \ todo
      /\ rmap_tree[x].state = "Stable" /\ rmap_tree[x] \in ItemRec
  BY InHand DEF StableMoved
<1>2. /\ LeaveNode(x) /\ rmap_tree' = [rmap_tree EXCEPT ![x] = it]
      /\ log' = DemotionLog(x) /\ page' = page
      /\ created' = created /\ clashed' = clashed
      /\ unstable_hash_table' = unstable_hash_table /\ UNCHANGED scanRest
  BY DEF StableMoved
<1>3. /\ it \in ItemRec /\ it.state = "Volatile" /\ it.last_access = rmap_tree[x].last_access
  BY <1>1, ResetType
<1>4. TypeOK /\ StructInv
  BY DEF ServerInv
<1> HIDE DEF it
<1>5. /\ node' \in [NodeIds -> NodeRec]
      /\ stable_hash_table' \in [Hashes -> NodeIds \cup {NoNode}]
      /\ StructInv'
      /\ \A j \in Items : (j # x /\ rmap_tree[j].state = "Stable") =>
            node'[rmap_tree[j].stable_node].pfn = node[rmap_tree[j].stable_node].pfn
  BY <1>1, <1>2, <1>3, <1>4, LeaveStruct
<1>6. /\ rmap_tree \in [Items -> ItemRec] /\ log \in Seq(LogRec)
      /\ created \in 0..MaxNodes /\ clashed \in BOOLEAN
      /\ unstable_hash_table \in [Hashes -> Items \cup {NoItem}]
  BY <1>4 DEF TypeOK
<1>7. /\ rmap_tree' \in [Items -> ItemRec]
      /\ rmap_tree'[x] = it
      /\ \A j \in Items : j # x => rmap_tree'[j] = rmap_tree[j]
  BY <1>1, <1>2, <1>3, <1>6
<1>8. /\ log' \in Seq(LogRec)
      /\ \A k \in DOMAIN log' : IsMerge(log'[k]) => k \in DOMAIN log /\ log'[k] = log[k]
  <2> DEFINE r == IF IsLastItem(x) THEN log_stale_node(x) ELSE log_item_state_change(x)
  <2>1. r \in LogRec /\ ~IsMerge(r)
    BY <1>1, <1>4, DemotionType
  <2>2. log' = Append(log, r)
    BY <1>2 DEF DemotionLog
  <2> HIDE DEF r
  <2>3. QED
    BY <1>6, <2>1, <2>2, AppendEntry
<1>9. UnstableExact'
  <2>1. \A i \in Items :
            /\ rmap_tree'[i].state = "Unstable" <=> rmap_tree[i].state = "Unstable"
            /\ rmap_tree[i].state = "Unstable" => rmap_tree'[i].old_hash = rmap_tree[i].old_hash
    BY <1>1, <1>3, <1>7
  <2>2. present' = present /\ todo' = todo /\ phase' = phase
    BY <1>2 DEF scanRest
  <2>3. QED
    BY <1>2, <2>1, <2>2, UnstableFrame
<1>10. LogMatchesMetadata' /\ LogOK'
  <2>1. present' = present /\ todo' = todo /\ errs' = errs
    BY <1>2 DEF scanRest
  <2>2. \A i \in Items : (i \in present \ todo /\ i # page.item) =>
            /\ i \in present' \ todo' /\ i # page'.item
            /\ (errs = {} /\ rmap_tree[i].state = "Stable") =>
                 /\ rmap_tree'[i].state = "Stable"
                 /\ rmap_tree'[i].stable_node = rmap_tree[i].stable_node
                 /\ node'[rmap_tree[i].stable_node].pfn = node[rmap_tree[i].stable_node].pfn
    BY <1>2, <1>5, <1>7, <2>1
  <2>3. QED
    BY <1>8, <2>1, <2>2, LogFrame
<1>11. \A i \in Items : /\ rmap_tree'[i].last_access = rmap_tree[i].last_access
                        /\ InTree(i) => rmap_tree'[i].state # "Absent"
  BY <1>3, <1>7 DEF InTree
<1>12. page' = page /\ rmap_tree'[page.item].state \in {"Volatile", "Stable"}
  BY <1>2, <1>3, <1>7
<1>13. /\ created' \in 0..MaxNodes /\ clashed' \in BOOLEAN
       /\ unstable_hash_table' \in [Hashes -> Items \cup {NoItem}]
  BY <1>2, <1>6
<1>14. QED
  BY <1>1, <1>2, <1>5, <1>7, <1>8, <1>9, <1>10, <1>11, <1>12, <1>13, ScanFrame

\* StableKept and VolatileSkipped only put the page down.
LEMMA PutDownInv ==
  ASSUME ServerInv, phase = "work", page # NoPage, page' = NoPage,
         UNCHANGED <<scanRest, metaVars, log>>
  PROVE  ServerInv'
<1>1. /\ rmap_tree' = rmap_tree /\ node' = node /\ created' = created
      /\ stable_hash_table' = stable_hash_table
      /\ unstable_hash_table' = unstable_hash_table
      /\ clashed' = clashed /\ log' = log
      /\ UNCHANGED scanRest /\ present' = present /\ todo' = todo
      /\ errs' = errs /\ phase' = phase
  BY DEF metaVars, scanRest
<1>2. TypeOK /\ StructInv
  BY DEF ServerInv
<1>3. /\ rmap_tree' \in [Items -> ItemRec] /\ node' \in [NodeIds -> NodeRec]
      /\ created' \in 0..MaxNodes
      /\ stable_hash_table' \in [Hashes -> NodeIds \cup {NoNode}]
      /\ unstable_hash_table' \in [Hashes -> Items \cup {NoItem}]
      /\ log' \in Seq(LogRec) /\ clashed' \in BOOLEAN
  BY <1>1, <1>2 DEF TypeOK
<1>4. StructInv'
  BY <1>1, <1>2, <1>3, StructFrame
<1>5. UnstableExact'
  BY <1>1, UnstableFrame
<1>6. page'.item \notin Items
  BY ServerAssumption DEF NoPage
<1>7. LogMatchesMetadata' /\ LogOK'
  <2>1. \A k \in DOMAIN log' : IsMerge(log'[k]) => k \in DOMAIN log /\ log'[k] = log[k]
    BY <1>1
  <2>2. \A i \in Items : (i \in present \ todo /\ i # page.item) =>
            /\ i \in present' \ todo' /\ i # page'.item
            /\ (errs = {} /\ rmap_tree[i].state = "Stable") =>
                 /\ rmap_tree'[i].state = "Stable"
                 /\ rmap_tree'[i].stable_node = rmap_tree[i].stable_node
                 /\ node'[rmap_tree[i].stable_node].pfn = node[rmap_tree[i].stable_node].pfn
    BY <1>1, <1>6
  <2>3. QED
    BY <1>1, <1>3, <2>1, <2>2, LogFrame
<1>8. \A i \in Items : /\ rmap_tree'[i].last_access = rmap_tree[i].last_access
                       /\ InTree(i) => rmap_tree'[i].state # "Absent"
  BY <1>1 DEF InTree
<1>9. QED
  BY <1>1, <1>3, <1>4, <1>5, <1>7, <1>8, ScanFrame

\* StableKept (content and page unchanged) keeps the invariant.
LEMMA StableKeptInv == ServerInv /\ StableKept => ServerInv'
  BY InHand, PutDownInv DEF StableKept

\* VolatileSkipped (smart scan) keeps the invariant.
LEMMA VolatileSkippedInv == ServerInv /\ VolatileSkipped => ServerInv'
  BY InHand, PutDownInv DEF VolatileSkipped

\* StableRekeyed: a chain and its items move to another hash.
LEMMA StableRekeyedInv == ServerInv /\ StableRekeyed => ServerInv'
<1> SUFFICES ASSUME ServerInv, StableRekeyed PROVE ServerInv'
  OBVIOUS
<1> DEFINE x == page.item
           h == page.hash
           c == node[rmap_tree[x].stable_node].chain
           old == node[rmap_tree[x].stable_node].page_hash
<1>1. /\ phase = "work" /\ page # NoPage /\ errs = {}
      /\ x \in Items /\ x \in present \ todo /\ h \in Hashes
      /\ rmap_tree[x].state = "Stable" /\ rmap_tree[x] \in ItemRec
  BY InHand DEF StableRekeyed
<1>2. /\ h # rmap_tree[x].old_hash
      /\ stable_hash_table' = [stable_hash_table EXCEPT ![old] = NoNode, ![h] = c]
      /\ clashed' = (clashed \/ stable_hash_table[h] # NoNode)
      /\ node' = [n \in NodeIds |-> IF n \in Chain(node, c)
                                    THEN [node[n] EXCEPT !.page_hash = h] ELSE node[n]]
      /\ rmap_tree' = [k \in Items |-> IF \E n \in Chain(node, c) : k \in node[n].sharing
                                       THEN [rmap_tree[k] EXCEPT !.old_hash = h]
                                       ELSE rmap_tree[k]]
      /\ page' = NoPage /\ created' = created
      /\ unstable_hash_table' = unstable_hash_table /\ log' = log /\ UNCHANGED scanRest
  BY DEF StableRekeyed, RekeyScope, curr
<1>3. TypeOK /\ StructInv
  BY DEF ServerInv
<1> HIDE DEF x, h
<1>4. /\ node' \in [NodeIds -> NodeRec]
      /\ rmap_tree' \in [Items -> ItemRec]
      /\ stable_hash_table' \in [Hashes -> NodeIds \cup {NoNode}]
      /\ clashed' \in BOOLEAN
      /\ StructInv'
      /\ \A n \in NodeIds : node'[n].pfn = node[n].pfn
      /\ \A k \in Items : /\ rmap_tree'[k].state = rmap_tree[k].state
                          /\ rmap_tree'[k].stable_node = rmap_tree[k].stable_node
                          /\ rmap_tree'[k].last_access = rmap_tree[k].last_access
                          /\ rmap_tree[k].state # "Stable" => rmap_tree'[k] = rmap_tree[k]
  BY <1>1, <1>2, <1>3, RekeyStruct
<1>5. /\ created' \in 0..MaxNodes /\ log' = log /\ log' \in Seq(LogRec)
      /\ unstable_hash_table' \in [Hashes -> Items \cup {NoItem}]
      /\ unstable_hash_table' = unstable_hash_table
      /\ present' = present /\ todo' = todo /\ errs' = errs /\ phase' = phase
      /\ page' = NoPage /\ UNCHANGED scanRest
  BY <1>2, <1>3 DEF TypeOK, scanRest
<1>6. UnstableExact'
  BY <1>4, <1>5, UnstableFrame
<1>7. LogMatchesMetadata' /\ LogOK'
  <2>1. page'.item \notin Items
    BY <1>5, ServerAssumption DEF NoPage
  <2>2. \A i \in Items : rmap_tree[i].state = "Stable" => rmap_tree[i].stable_node \in NodeIds
    BY <1>3, NodeOfStable
  <2>3. \A i \in Items : (i \in present \ todo /\ i # page.item) =>
            /\ i \in present' \ todo' /\ i # page'.item
            /\ (errs = {} /\ rmap_tree[i].state = "Stable") =>
                 /\ rmap_tree'[i].state = "Stable"
                 /\ rmap_tree'[i].stable_node = rmap_tree[i].stable_node
                 /\ node'[rmap_tree[i].stable_node].pfn = node[rmap_tree[i].stable_node].pfn
    BY <1>4, <1>5, <2>1, <2>2
  <2>4. QED
    BY <1>5, <2>3, LogFrame
<1>8. \A i \in Items : /\ rmap_tree'[i].last_access = rmap_tree[i].last_access
                       /\ InTree(i) => rmap_tree'[i].state # "Absent"
  BY <1>4 DEF InTree
<1>9. QED
  BY <1>1, <1>4, <1>5, <1>6, <1>7, <1>8, ScanFrame

\* A merge of the page in hand is added to the log.
LEMMA LogMerge ==
  ASSUME ServerInv, NEW r \in LogRec, IsMerge(r), log' = Append(log, r),
         errs = {}, errs' = {}, page' = NoPage, present' = present, todo' = todo,
         page.item \in Items, page.item \in present \ todo, r.from = page.item,
         rmap_tree'[page.item].state = "Stable",
         r.type = "STABLE_MERGE" => node'[rmap_tree'[page.item].stable_node].pfn = r.kpfn,
         r.type = "UNSTABLE_MERGE" =>
            /\ r.to \in present \ todo
            /\ rmap_tree'[r.to].state = "Stable"
            /\ rmap_tree'[r.to].stable_node = rmap_tree'[page.item].stable_node
            /\ \A i \in Items : rmap_tree[i].state = "Stable" =>
                  rmap_tree[i].stable_node # rmap_tree'[page.item].stable_node,
         \A i \in Items : (i # page.item /\ rmap_tree[i].state = "Stable") =>
            /\ rmap_tree'[i].state = "Stable"
            /\ rmap_tree'[i].stable_node = rmap_tree[i].stable_node
            /\ node'[rmap_tree[i].stable_node].pfn = node[rmap_tree[i].stable_node].pfn
  PROVE  log' \in Seq(LogRec) /\ LogMatchesMetadata' /\ LogOK'
<1> DEFINE e == Len(log) + 1
<1>1. /\ log' \in Seq(LogRec)
      /\ DOMAIN log' = DOMAIN log \cup {e}
      /\ \A k \in DOMAIN log : log'[k] = log[k] /\ k # e
      /\ log'[e] = r
  BY AppendEntry DEF ServerInv, TypeOK
<1> HIDE DEF e
<1>2. \A k \in DOMAIN log : IsMerge(log[k]) =>
         /\ log[k].from \in Items
         /\ log[k].from \in present \ todo /\ log[k].from # page.item
         /\ rmap_tree[log[k].from].state = "Stable"
         /\ log[k].type = "UNSTABLE_MERGE" =>
              /\ log[k].to \in Items /\ log[k].to \in present \ todo /\ log[k].to # page.item
              /\ rmap_tree[log[k].to].state = "Stable"
              /\ rmap_tree[log[k].to].stable_node = rmap_tree[log[k].from].stable_node
         /\ log[k].type = "STABLE_MERGE" =>
              node[rmap_tree[log[k].from].stable_node].pfn = log[k].kpfn
  <2> SUFFICES ASSUME NEW k \in DOMAIN log, IsMerge(log[k])
               PROVE  /\ log[k].from \in Items
                      /\ log[k].from \in present \ todo /\ log[k].from # page.item
                      /\ rmap_tree[log[k].from].state = "Stable"
                      /\ log[k].type = "UNSTABLE_MERGE" =>
                           /\ log[k].to \in Items /\ log[k].to \in present \ todo
                           /\ log[k].to # page.item
                           /\ rmap_tree[log[k].to].state = "Stable"
                           /\ rmap_tree[log[k].to].stable_node = rmap_tree[log[k].from].stable_node
                      /\ log[k].type = "STABLE_MERGE" =>
                           node[rmap_tree[log[k].from].stable_node].pfn = log[k].kpfn
    OBVIOUS
  <2>1. log[k] \in LogRec
    BY DEF ServerInv, TypeOK
  <2>2. log[k].type \in {"STABLE_MERGE", "UNSTABLE_MERGE"}
    BY DEF IsMerge
  <2>3. QED
    BY <2>1, <2>2, LogTypes DEF ServerInv, LogOK, LogMatchesMetadata
<1>3. NoPage.item \notin Items
  BY ServerAssumption DEF NoPage
<1>4. present \in SUBSET Items
  BY DEF ServerInv, TypeOK
<1>5. LogMatchesMetadata'
  <2> SUFFICES ASSUME NEW k \in DOMAIN log', IsMerge(log'[k])
               PROVE  /\ log'[k].type = "STABLE_MERGE" =>
                           /\ rmap_tree'[log'[k].from].state = "Stable"
                           /\ node'[rmap_tree'[log'[k].from].stable_node].pfn = log'[k].kpfn
                      /\ log'[k].type = "UNSTABLE_MERGE" =>
                           /\ rmap_tree'[log'[k].from].state = "Stable"
                           /\ rmap_tree'[log'[k].to].state = "Stable"
                           /\ rmap_tree'[log'[k].to].stable_node = rmap_tree'[log'[k].from].stable_node
    BY DEF LogMatchesMetadata, IsMerge
  <2>1. CASE k = e
    BY <2>1, <1>1
  <2>2. CASE k # e
    <3>1. k \in DOMAIN log /\ log'[k] = log[k] /\ IsMerge(log[k])
      BY <2>2, <1>1
    <3>2. QED
      BY <3>1, <1>2
  <2>3. QED
    BY <2>1, <2>2
<1>6. LogOK'
  <2>1. \A k \in DOMAIN log' : IsMerge(log'[k]) =>
           /\ log'[k].from \in present \ todo
           /\ log'[k].from # NoPage.item
           /\ log'[k].type = "UNSTABLE_MERGE" =>
                log'[k].to \in present \ todo /\ log'[k].to # NoPage.item
    BY <1>1, <1>2, <1>3, <1>4
  <2>2. \A k \in DOMAIN log : IsMerge(log[k]) =>
           /\ log[k].from # r.from
           /\ (log[k].type = "UNSTABLE_MERGE" /\ r.type = "UNSTABLE_MERGE") =>
                rmap_tree'[log[k].from].stable_node # rmap_tree'[r.from].stable_node
    BY <1>2
  <2>3. \A k, l \in DOMAIN log : (k # l /\ IsMerge(log[k]) /\ IsMerge(log[l])) =>
           /\ log[k].from # log[l].from
           /\ (log[k].type = "UNSTABLE_MERGE" /\ log[l].type = "UNSTABLE_MERGE") =>
                rmap_tree'[log[k].from].stable_node # rmap_tree'[log[l].from].stable_node
    <3> SUFFICES ASSUME NEW k \in DOMAIN log, NEW l \in DOMAIN log, k # l,
                        IsMerge(log[k]), IsMerge(log[l])
                 PROVE  /\ log[k].from # log[l].from
                        /\ (log[k].type = "UNSTABLE_MERGE" /\ log[l].type = "UNSTABLE_MERGE") =>
                             rmap_tree'[log[k].from].stable_node # rmap_tree'[log[l].from].stable_node
      OBVIOUS
    <3>1. /\ rmap_tree'[log[k].from].stable_node = rmap_tree[log[k].from].stable_node
          /\ rmap_tree'[log[l].from].stable_node = rmap_tree[log[l].from].stable_node
      BY <1>2
    <3>2. QED
      BY <3>1 DEF ServerInv, LogOK
  <2>4. \A k, l \in DOMAIN log' : (k # l /\ IsMerge(log'[k]) /\ IsMerge(log'[l])) =>
           /\ log'[k].from # log'[l].from
           /\ (log'[k].type = "UNSTABLE_MERGE" /\ log'[l].type = "UNSTABLE_MERGE") =>
                rmap_tree'[log'[k].from].stable_node # rmap_tree'[log'[l].from].stable_node
    <3> SUFFICES ASSUME NEW k \in DOMAIN log', NEW l \in DOMAIN log', k # l,
                        IsMerge(log'[k]), IsMerge(log'[l])
                 PROVE  /\ log'[k].from # log'[l].from
                        /\ (log'[k].type = "UNSTABLE_MERGE" /\ log'[l].type = "UNSTABLE_MERGE") =>
                             rmap_tree'[log'[k].from].stable_node # rmap_tree'[log'[l].from].stable_node
      OBVIOUS
    <3>1. CASE k = e
      <4>1. l \in DOMAIN log /\ log'[l] = log[l] /\ log'[k] = r
        BY <3>1, <1>1
      <4>2. QED
        BY <4>1, <2>2
    <3>2. CASE l = e
      <4>1. k \in DOMAIN log /\ log'[k] = log[k] /\ log'[l] = r
        BY <3>2, <1>1
      <4>2. QED
        BY <4>1, <2>2
    <3>3. CASE k # e /\ l # e
      <4>1. k \in DOMAIN log /\ log'[k] = log[k] /\ l \in DOMAIN log /\ log'[l] = log[l]
        BY <3>3, <1>1
      <4>2. QED
        BY <4>1, <2>3
    <3>4. QED
      BY <3>1, <3>2, <3>3
  <2>5. QED
    BY <2>1, <2>4 DEF LogOK, IsMerge
<1>7. QED
  BY <1>1, <1>5, <1>6

\* MergeWithStable: the page joins a node with room.
LEMMA MergeWithStableInv == ServerInv /\ MergeWithStable => ServerInv'
<1> SUFFICES ASSUME ServerInv, MergeWithStable PROVE ServerInv'
  OBVIOUS
<1> DEFINE x == page.item
<1>1. /\ phase = "work" /\ page # NoPage /\ errs = {}
      /\ x \in Items /\ x \in present \ todo /\ page.hash \in Hashes
      /\ rmap_tree[x].state = "Volatile" /\ rmap_tree[x] \in ItemRec
  BY InHand DEF MergeWithStable
<1>2. TypeOK /\ StructInv
  BY DEF ServerInv
<1>3. PICK n \in cmp_with_stable(page.hash) :
         /\ node' = insert_item_to_node(node, n, x)
         /\ rmap_tree' = [rmap_tree EXCEPT ![x] = ItemInNode(rmap_tree[x], node, n)]
         /\ log' = Append(log, log_stable_merge(x, n))
  BY DEF MergeWithStable
<1>4. /\ page' = NoPage /\ created' = created /\ clashed' = clashed
      /\ stable_hash_table' = stable_hash_table
      /\ unstable_hash_table' = unstable_hash_table /\ UNCHANGED scanRest
      /\ present' = present /\ todo' = todo /\ errs' = errs /\ phase' = phase
  BY DEF MergeWithStable, scanRest
<1>5. n \in NodeIds /\ Live(n) /\ node[n].shared_cnt < MAX_PAGE_SHARING
  BY DEF cmp_with_stable, Chain, Live
<1>6. /\ node \in [NodeIds -> NodeRec] /\ rmap_tree \in [Items -> ItemRec]
      /\ created' \in 0..MaxNodes /\ clashed' \in BOOLEAN
      /\ stable_hash_table' \in [Hashes -> NodeIds \cup {NoNode}]
      /\ unstable_hash_table' \in [Hashes -> Items \cup {NoItem}]
  BY <1>2, <1>4 DEF TypeOK
<1> HIDE DEF x
<1>7. /\ node' \in [NodeIds -> NodeRec]
      /\ rmap_tree' \in [Items -> ItemRec]
      /\ StructInv'
      /\ \A m \in NodeIds : node'[m].pfn = node[m].pfn
      /\ rmap_tree'[x].state = "Stable" /\ rmap_tree'[x].stable_node = n
  BY <1>1, <1>2, <1>3, <1>4, <1>5, JoinStruct
<1>8. \A i \in Items : i # x => rmap_tree'[i] = rmap_tree[i]
  BY <1>3, <1>6
<1>9. rmap_tree'[x].last_access = rmap_tree[x].last_access
  <2>1. rmap_tree'[x] = ItemInNode(rmap_tree[x], node, n)
    BY <1>1, <1>3, <1>6
  <2>2. QED
    BY <1>1, <2>1 DEF ItemInNode, ItemRec
<1>10. UnstableExact'
  <2>1. \A i \in Items :
            /\ rmap_tree'[i].state = "Unstable" <=> rmap_tree[i].state = "Unstable"
            /\ rmap_tree[i].state = "Unstable" => rmap_tree'[i].old_hash = rmap_tree[i].old_hash
    BY <1>1, <1>7, <1>8
  <2>2. QED
    BY <1>4, <2>1, UnstableFrame
<1>11. log' \in Seq(LogRec) /\ LogMatchesMetadata' /\ LogOK'
  <2> DEFINE r == log_stable_merge(x, n)
  <2>1. node[n].pfn \in Pfns \cup {NoPfn}
    <3>1. node[n] \in NodeRec
      BY <1>5, <1>6
    <3>2. QED
      BY <3>1 DEF NodeRec
  <2>2. /\ r \in LogRec /\ IsMerge(r) /\ r.from = x /\ r.type = "STABLE_MERGE"
        /\ r.kpfn = node[n].pfn
    BY <1>1, <2>1 DEF log_stable_merge, LogRec, IsMerge
  <2> HIDE DEF r
  <2>3. log' = Append(log, r)
    BY <1>3 DEF r
  <2>4. node'[rmap_tree'[x].stable_node].pfn = r.kpfn
    BY <1>5, <1>7, <2>2
  <2>5. \A i \in Items : rmap_tree[i].state = "Stable" => rmap_tree[i].stable_node \in NodeIds
    BY <1>2, NodeOfStable
  <2>6. \A i \in Items : (i # page.item /\ rmap_tree[i].state = "Stable") =>
            /\ rmap_tree'[i].state = "Stable"
            /\ rmap_tree'[i].stable_node = rmap_tree[i].stable_node
            /\ node'[rmap_tree[i].stable_node].pfn = node[rmap_tree[i].stable_node].pfn
    BY <1>7, <1>8, <2>5 DEF x
  <2>7. x = page.item /\ r.type # "UNSTABLE_MERGE"
    BY <2>2 DEF x
  <2>8. QED
    BY <1>1, <1>4, <1>7, <2>2, <2>3, <2>4, <2>6, <2>7, LogMerge
<1>12. \A i \in Items : /\ rmap_tree'[i].last_access = rmap_tree[i].last_access
                        /\ InTree(i) => rmap_tree'[i].state # "Absent"
  BY <1>7, <1>8, <1>9 DEF InTree
<1>13. QED
  BY <1>1, <1>4, <1>6, <1>7, <1>10, <1>11, <1>12, ScanFrame

\* MergeWithUnstable: a new node is made of the page and an Unstable item.
LEMMA MergeWithUnstableInv == ServerInv /\ MergeWithUnstable => ServerInv'
<1> SUFFICES ASSUME ServerInv, MergeWithUnstable PROVE ServerInv'
  OBVIOUS
<1> DEFINE x == page.item
           h == page.hash
           j == unstable_hash_table[h]
           n == created + 1
           c == ChainFor(n, h)
           p == rmap_tree[x].pfn
           nd == [node EXCEPT ![n] = FreshNode(h, p, c)]
<1>1. /\ phase = "work" /\ page # NoPage /\ errs = {}
      /\ x \in Items /\ x \in present \ todo /\ h \in Hashes
      /\ rmap_tree[x].state = "Volatile" /\ rmap_tree[x] \in ItemRec
  BY InHand DEF MergeWithUnstable
<1>2. TypeOK /\ StructInv /\ UnstableExact
  BY DEF ServerInv
<1>3. /\ node \in [NodeIds -> NodeRec] /\ rmap_tree \in [Items -> ItemRec]
      /\ created \in 0..MaxNodes /\ clashed \in BOOLEAN
      /\ stable_hash_table \in [Hashes -> NodeIds \cup {NoNode}]
      /\ unstable_hash_table \in [Hashes -> Items \cup {NoItem}]
      /\ present \in SUBSET Items
  BY <1>2 DEF TypeOK
<1>4. /\ j # NoItem /\ created < MaxNodes /\ created' = n
      /\ stable_hash_table' = [stable_hash_table EXCEPT ![h] = c]
      /\ unstable_hash_table' = [unstable_hash_table EXCEPT ![h] = NoItem]
      /\ node' = NodeOfTwo(nd, n, x, j)
      /\ rmap_tree' = ItemsOfTwo(rmap_tree, nd, n, x, j)
      /\ log' = Append(log, log_unstable_merge(x, j))
      /\ page' = NoPage /\ clashed' = clashed /\ UNCHANGED scanRest
  BY DEF MergeWithUnstable, TakeUnstable, curr, FreshNode, NodeOfTwo, ItemsOfTwo
<1>5. present' = present /\ todo' = todo /\ errs' = errs /\ phase' = phase
  BY <1>4 DEF scanRest
<1>6. /\ j \in Items /\ rmap_tree[j].state = "Unstable" /\ rmap_tree[j].old_hash = h
      /\ j \in present \ todo /\ j # x
  BY <1>1, <1>2, <1>3, <1>4 DEF UnstableExact
<1>7. p \in Pfns \cup {NoPfn}
  BY <1>1 DEF ItemRec
<1>8. n \in NodeIds /\ c \in NodeIds
  BY <1>1, <1>3, <1>4, ServerAssumption DEF ChainFor, NodeIds, NoNode
<1>9. NewNodeMade(x, j, h, n, c, node, node', rmap_tree, rmap_tree')
  <2> HIDE DEF x, h, j, n, c, p
  <2>1. /\ node \in [NodeIds -> NodeRec] /\ rmap_tree \in [Items -> ItemRec]
        /\ x \in Items /\ j \in Items /\ x # j /\ h \in Hashes /\ p \in Pfns \cup {NoPfn}
        /\ n \in NodeIds /\ c \in NodeIds
    BY <1>1, <1>3, <1>6, <1>7, <1>8
  <2>2. LET e == [node EXCEPT ![n] = FreshNode(h, p, c)]
        IN  NewNodeMade(x, j, h, n, c, node, NodeOfTwo(e, n, x, j), rmap_tree,
                        ItemsOfTwo(rmap_tree, e, n, x, j))
    BY <2>1, NewNodeShape, Zenon
  <2>3. QED
    BY <1>4, <2>2
<1> HIDE DEF nd
<1>10. Cardinality({x, j}) = 2
  <2> HIDE DEF x, j
  <2>1. x # j
    BY <1>6
  <2>2. QED
    BY <2>1, PairCardinality
<1>11. /\ stable_hash_table' \in [Hashes -> NodeIds \cup {NoNode}]
       /\ created' \in 0..MaxNodes
       /\ node[n] = FreeNode
       /\ StructInv'
  <2>1. n = created + 1 /\ c = ChainFor(n, h)
    OBVIOUS
  <2>2. rmap_tree[x].state # "Stable" /\ rmap_tree[j].state # "Stable" /\ x # j
    BY <1>1, <1>6
  <2> HIDE DEF x, h, j, n, c
  <2>3. /\ TypeOK /\ StructInv /\ x \in Items /\ j \in Items /\ h \in Hashes
        /\ created < MaxNodes
        /\ stable_hash_table' = [stable_hash_table EXCEPT ![h] = c]
        /\ created' = n /\ clashed' = clashed
    BY <1>1, <1>2, <1>4, <1>6
  <2>4. QED
    BY <1>9, <1>10, <2>1, <2>2, <2>3, NewNodeStruct, Zenon
<1>19. /\ node' \in [NodeIds -> NodeRec] /\ rmap_tree' \in [Items -> ItemRec]
       /\ \A m \in NodeIds : m # n => node'[m] = node[m]
       /\ \A k \in {x, j} : /\ rmap_tree'[k].state = "Stable" /\ rmap_tree'[k].stable_node = n
                            /\ rmap_tree'[k].last_access = rmap_tree[k].last_access
       /\ \A k \in Items : (k # x /\ k # j) => rmap_tree'[k] = rmap_tree[k]
  BY <1>9 DEF NewNodeMade
<1>12. /\ unstable_hash_table' \in [Hashes -> Items \cup {NoItem}]
       /\ unstable_hash_table'[h] = NoItem
       /\ \A g \in Hashes : g # h => unstable_hash_table'[g] = unstable_hash_table[g]
  BY <1>1, <1>3, <1>4
<1>13. UnstableExact'
  <2>1. \A g \in Hashes : unstable_hash_table'[g] # NoItem =>
            /\ rmap_tree'[unstable_hash_table'[g]].state = "Unstable"
            /\ rmap_tree'[unstable_hash_table'[g]].old_hash = g
    <3> SUFFICES ASSUME NEW g \in Hashes, unstable_hash_table'[g] # NoItem
                 PROVE  /\ rmap_tree'[unstable_hash_table'[g]].state = "Unstable"
                        /\ rmap_tree'[unstable_hash_table'[g]].old_hash = g
      OBVIOUS
    <3> DEFINE k == unstable_hash_table[g]
    <3>1. g # h /\ unstable_hash_table'[g] = k /\ k \in Items
      BY <1>3, <1>12
    <3>2. rmap_tree[k].state = "Unstable" /\ rmap_tree[k].old_hash = g
      BY <1>2, <3>1 DEF UnstableExact
    <3>3. k # x /\ k # j
      BY <1>1, <1>6, <3>1, <3>2
    <3>4. QED
      BY <1>19, <3>1, <3>2, <3>3
  <2>2. \A i \in Items : rmap_tree'[i].state = "Unstable" =>
            /\ rmap_tree'[i].old_hash \in Hashes
            /\ unstable_hash_table'[rmap_tree'[i].old_hash] = i
            /\ i \in present' \ todo'
            /\ phase' \in {"work", "down"}
    <3> SUFFICES ASSUME NEW i \in Items, rmap_tree'[i].state = "Unstable"
                 PROVE  /\ rmap_tree'[i].old_hash \in Hashes
                        /\ unstable_hash_table'[rmap_tree'[i].old_hash] = i
                        /\ i \in present' \ todo'
                        /\ phase' \in {"work", "down"}
      OBVIOUS
    <3>1. i # x /\ i # j /\ rmap_tree'[i] = rmap_tree[i]
      BY <1>19
    <3>2. /\ rmap_tree[i].old_hash \in Hashes
          /\ unstable_hash_table[rmap_tree[i].old_hash] = i
          /\ i \in present \ todo /\ phase \in {"work", "down"}
      BY <1>2, <3>1 DEF UnstableExact
    <3>3. rmap_tree[i].old_hash # h
      BY <3>1, <3>2
    <3>4. QED
      BY <1>5, <1>12, <3>1, <3>2, <3>3
  <2>3. QED
    BY <2>1, <2>2 DEF UnstableExact
<1>14. \A i \in Items : rmap_tree[i].state = "Stable" =>
          /\ rmap_tree[i].stable_node \in NodeIds /\ rmap_tree[i].stable_node # n
          /\ i # x /\ i # j
  <2>1. ~Live(n)
    BY <1>11 DEF Live, FreeNode
  <2>2. \A i \in Items : rmap_tree[i].state = "Stable" =>
          rmap_tree[i].stable_node \in NodeIds /\ Live(rmap_tree[i].stable_node)
    BY <1>2, NodeOfStable
  <2> HIDE DEF x, j, n
  <2>3. QED
    BY <1>1, <1>6, <2>1, <2>2
<1>15. log' \in Seq(LogRec) /\ LogMatchesMetadata' /\ LogOK'
  <2> DEFINE r == log_unstable_merge(x, j)
  <2>1. /\ r \in LogRec /\ IsMerge(r) /\ r.from = x /\ r.type = "UNSTABLE_MERGE" /\ r.to = j
    BY <1>1, <1>6 DEF log_unstable_merge, LogRec, IsMerge
  <2>2. log' = Append(log, r) /\ page.item = x
    BY <1>4
  <2>3. \A i \in Items : (i # page.item /\ rmap_tree[i].state = "Stable") =>
            /\ rmap_tree'[i].state = "Stable"
            /\ rmap_tree'[i].stable_node = rmap_tree[i].stable_node
            /\ node'[rmap_tree[i].stable_node].pfn = node[rmap_tree[i].stable_node].pfn
    BY <1>19, <1>14
  <2>4. /\ rmap_tree'[page.item].state = "Stable"
        /\ rmap_tree'[j].state = "Stable"
        /\ rmap_tree'[j].stable_node = rmap_tree'[page.item].stable_node
        /\ \A i \in Items : rmap_tree[i].state = "Stable" =>
              rmap_tree[i].stable_node # rmap_tree'[page.item].stable_node
    BY <1>19, <1>14
  <2>5. r.type = "STABLE_MERGE" => node'[rmap_tree'[page.item].stable_node].pfn = r.kpfn
    BY <2>1
  <2>6. r.type = "UNSTABLE_MERGE" =>
            /\ r.to \in present \ todo
            /\ rmap_tree'[r.to].state = "Stable"
            /\ rmap_tree'[r.to].stable_node = rmap_tree'[page.item].stable_node
            /\ \A i \in Items : rmap_tree[i].state = "Stable" =>
                  rmap_tree[i].stable_node # rmap_tree'[page.item].stable_node
    <3> HIDE DEF r, x, j, n
    <3>1. QED
      BY <1>6, <2>1, <2>4
  <2>7. /\ page.item \in Items /\ page.item \in present \ todo /\ r.from = page.item
        /\ errs = {} /\ errs' = {} /\ page' = NoPage
    BY <1>1, <1>4, <1>5, <2>1
  <2> HIDE DEF r, x, j, n
  <2>8. QED
    BY <1>5, <2>1, <2>2, <2>3, <2>4, <2>5, <2>6, <2>7, LogMerge
<1>16. \A i \in Items : /\ rmap_tree'[i].last_access = rmap_tree[i].last_access
                        /\ InTree(i) => rmap_tree'[i].state # "Absent"
  BY <1>19 DEF InTree
<1>17. clashed' \in BOOLEAN
  BY <1>3, <1>4
<1>18. QED
  BY <1>1, <1>4, <1>19, <1>11, <1>12, <1>13, <1>15, <1>16, <1>17, ScanFrame

\* InsertUnstable and VolatileChanged change only the page's own item.
LEMMA OwnItemInv ==
  ASSUME ServerInv, PageInHand("Volatile"), page' = NoPage, UNCHANGED scanRest,
         node' = node, created' = created, stable_hash_table' = stable_hash_table,
         log' = log, clashed' = clashed,
         NEW it \in ItemRec, it.state \in {"Volatile", "Unstable"},
         it.last_access = rmap_tree[page.item].last_access,
         rmap_tree' = [rmap_tree EXCEPT ![page.item] = it],
         unstable_hash_table' \in [Hashes -> Items \cup {NoItem}],
         UnstableExact'
  PROVE  ServerInv'
<1> DEFINE x == page.item
<1>1. /\ phase = "work" /\ page # NoPage /\ errs = {}
      /\ x \in Items /\ x \in present \ todo
      /\ rmap_tree[x].state = "Volatile"
  BY InHand
<1>2. TypeOK /\ StructInv
  BY DEF ServerInv
<1>3. /\ rmap_tree \in [Items -> ItemRec] /\ node' \in [NodeIds -> NodeRec]
      /\ created' \in 0..MaxNodes
      /\ stable_hash_table' \in [Hashes -> NodeIds \cup {NoNode}]
      /\ log' \in Seq(LogRec) /\ clashed' \in BOOLEAN
  BY <1>2 DEF TypeOK
<1>4. /\ rmap_tree' \in [Items -> ItemRec] /\ rmap_tree'[x] = it
      /\ \A i \in Items : i # x => rmap_tree'[i] = rmap_tree[i]
  BY <1>1, <1>3
<1>5. StructInv'
  <2>1. \A i \in Items :
            /\ rmap_tree'[i].state = "Stable" <=> rmap_tree[i].state = "Stable"
            /\ rmap_tree[i].state = "Stable" =>
                 /\ rmap_tree'[i].stable_node = rmap_tree[i].stable_node
                 /\ rmap_tree'[i].old_hash = rmap_tree[i].old_hash
    BY <1>1, <1>4
  <2>2. QED
    BY <1>2, <1>3, <2>1, StructFrame
<1>6. LogMatchesMetadata' /\ LogOK'
  <2>1. present' = present /\ todo' = todo /\ errs' = errs
    BY DEF scanRest
  <2>2. page'.item \notin Items
    BY ServerAssumption DEF NoPage
  <2>3. \A i \in Items : (i \in present \ todo /\ i # page.item) =>
            /\ i \in present' \ todo' /\ i # page'.item
            /\ (errs = {} /\ rmap_tree[i].state = "Stable") =>
                 /\ rmap_tree'[i].state = "Stable"
                 /\ rmap_tree'[i].stable_node = rmap_tree[i].stable_node
                 /\ node'[rmap_tree[i].stable_node].pfn = node[rmap_tree[i].stable_node].pfn
    BY <1>4, <2>1, <2>2
  <2>4. \A k \in DOMAIN log' : IsMerge(log'[k]) => k \in DOMAIN log /\ log'[k] = log[k]
    OBVIOUS
  <2>5. QED
    BY <1>3, <2>1, <2>3, <2>4, LogFrame
<1>7. \A i \in Items : /\ rmap_tree'[i].last_access = rmap_tree[i].last_access
                       /\ InTree(i) => rmap_tree'[i].state # "Absent"
  BY <1>4 DEF InTree
<1>8. QED
  BY <1>1, <1>3, <1>4, <1>5, <1>6, <1>7, ScanFrame

\* InsertUnstable: the page waits in the unstable table.
LEMMA InsertUnstableInv == ServerInv /\ InsertUnstable => ServerInv'
<1> SUFFICES ASSUME ServerInv, InsertUnstable PROVE ServerInv'
  OBVIOUS
<1> DEFINE x == page.item
           h == page.hash
           it == [rmap_tree[x] EXCEPT !.state = "Unstable"]
<1>1. /\ PageInHand("Volatile")
      /\ phase = "work" /\ page # NoPage /\ errs = {}
      /\ x \in Items /\ x \in present \ todo /\ h \in Hashes
      /\ rmap_tree[x].state = "Volatile" /\ rmap_tree[x] \in ItemRec
  BY InHand DEF InsertUnstable
<1>2. /\ rmap_tree[x].old_hash = h /\ unstable_hash_table[h] = NoItem
      /\ unstable_hash_table' = [unstable_hash_table EXCEPT ![h] = x]
      /\ rmap_tree' = [rmap_tree EXCEPT ![x] = it]
      /\ page' = NoPage /\ UNCHANGED scanRest
      /\ node' = node /\ created' = created /\ stable_hash_table' = stable_hash_table
      /\ log' = log /\ clashed' = clashed
  BY DEF InsertUnstable, curr
<1>3. /\ it \in ItemRec /\ it.state = "Unstable" /\ it.old_hash = h
      /\ it.last_access = rmap_tree[x].last_access
  BY <1>1, <1>2 DEF ItemRec
<1> HIDE DEF it
<1>4. /\ unstable_hash_table \in [Hashes -> Items \cup {NoItem}]
      /\ rmap_tree \in [Items -> ItemRec] /\ UnstableExact
  BY DEF ServerInv, TypeOK
<1>5. /\ unstable_hash_table' \in [Hashes -> Items \cup {NoItem}]
      /\ unstable_hash_table'[h] = x
      /\ \A g \in Hashes : g # h => unstable_hash_table'[g] = unstable_hash_table[g]
      /\ rmap_tree'[x] = it
      /\ \A i \in Items : i # x => rmap_tree'[i] = rmap_tree[i]
  BY <1>1, <1>2, <1>3, <1>4
<1>6. present' = present /\ todo' = todo /\ phase' = phase
  BY <1>2 DEF scanRest
<1>7. UnstableExact'
  <2>1. \A g \in Hashes : unstable_hash_table'[g] # NoItem =>
            /\ rmap_tree'[unstable_hash_table'[g]].state = "Unstable"
            /\ rmap_tree'[unstable_hash_table'[g]].old_hash = g
    <3> SUFFICES ASSUME NEW g \in Hashes, unstable_hash_table'[g] # NoItem
                 PROVE  /\ rmap_tree'[unstable_hash_table'[g]].state = "Unstable"
                        /\ rmap_tree'[unstable_hash_table'[g]].old_hash = g
      OBVIOUS
    <3>1. CASE g = h
      BY <3>1, <1>3, <1>5
    <3>2. CASE g # h
      <4> DEFINE k == unstable_hash_table[g]
      <4>1. unstable_hash_table'[g] = k /\ k \in Items
        BY <3>2, <1>4, <1>5
      <4>2. rmap_tree[k].state = "Unstable" /\ rmap_tree[k].old_hash = g
        BY <4>1, <1>4 DEF UnstableExact
      <4>3. k # x
        BY <4>2, <1>1
      <4>4. QED
        BY <4>1, <4>2, <4>3, <1>5
    <3>3. QED
      BY <3>1, <3>2
  <2>2. \A i \in Items : rmap_tree'[i].state = "Unstable" =>
            /\ rmap_tree'[i].old_hash \in Hashes
            /\ unstable_hash_table'[rmap_tree'[i].old_hash] = i
            /\ i \in present' \ todo'
            /\ phase' \in {"work", "down"}
    <3> SUFFICES ASSUME NEW i \in Items, rmap_tree'[i].state = "Unstable"
                 PROVE  /\ rmap_tree'[i].old_hash \in Hashes
                        /\ unstable_hash_table'[rmap_tree'[i].old_hash] = i
                        /\ i \in present' \ todo'
                        /\ phase' \in {"work", "down"}
      OBVIOUS
    <3>1. CASE i = x
      BY <3>1, <1>1, <1>3, <1>5, <1>6
    <3>2. CASE i # x
      <4>1. rmap_tree'[i] = rmap_tree[i]
        BY <3>2, <1>5
      <4>2. /\ rmap_tree[i].old_hash \in Hashes
            /\ unstable_hash_table[rmap_tree[i].old_hash] = i
            /\ i \in present \ todo /\ phase \in {"work", "down"}
        BY <1>4, <4>1 DEF UnstableExact
      <4>3. rmap_tree[i].old_hash # h
        BY <1>2, <4>2, ServerAssumption
      <4>4. QED
        BY <4>1, <4>2, <4>3, <1>5, <1>6
    <3>3. QED
      BY <3>1, <3>2
  <2>3. QED
    BY <2>1, <2>2 DEF UnstableExact
<1>8. QED
  BY <1>1, <1>2, <1>3, <1>5, <1>7, OwnItemInv

\* VolatileChanged: the page's checksum is updated, nothing is shared.
LEMMA VolatileChangedInv == ServerInv /\ VolatileChanged => ServerInv'
<1> SUFFICES ASSUME ServerInv, VolatileChanged PROVE ServerInv'
  OBVIOUS
<1> DEFINE x == page.item
           it == [rmap_tree[x] EXCEPT !.old_hash = page.hash]
<1>1. /\ PageInHand("Volatile")
      /\ x \in Items /\ page.hash \in Hashes
      /\ rmap_tree[x].state = "Volatile" /\ rmap_tree[x] \in ItemRec
  BY InHand DEF VolatileChanged
<1>2. /\ rmap_tree' = [rmap_tree EXCEPT ![x] = it]
      /\ page' = NoPage /\ UNCHANGED scanRest
      /\ node' = node /\ created' = created /\ stable_hash_table' = stable_hash_table
      /\ unstable_hash_table' = unstable_hash_table
      /\ log' = log /\ clashed' = clashed
  BY DEF VolatileChanged
<1>3. /\ it \in ItemRec /\ it.state = "Volatile"
      /\ it.last_access = rmap_tree[x].last_access
  BY <1>1 DEF ItemRec
<1> HIDE DEF it
<1>4. /\ unstable_hash_table' \in [Hashes -> Items \cup {NoItem}]
      /\ rmap_tree \in [Items -> ItemRec]
  BY <1>2 DEF ServerInv, TypeOK
<1>5. UnstableExact'
  <2>1. present' = present /\ todo' = todo /\ phase' = phase
    BY <1>2 DEF scanRest
  <2>2. \A i \in Items :
            /\ rmap_tree'[i].state = "Unstable" <=> rmap_tree[i].state = "Unstable"
            /\ rmap_tree[i].state = "Unstable" => rmap_tree'[i].old_hash = rmap_tree[i].old_hash
    BY <1>1, <1>2, <1>3, <1>4
  <2>3. QED
    BY <1>2, <2>1, <2>2, UnstableFrame
<1>6. QED
  BY <1>1, <1>2, <1>3, <1>4, <1>5, OwnItemInv

\* No step of cmp_and_merge_one breaks the invariant.
LEMMA CmpAndMergeInv == ServerInv /\ cmp_and_merge_one => ServerInv'
  BY StableMovedInv, StableKeptInv, StableRekeyedInv, VolatileSkippedInv,
     MergeWithStableInv, MergeWithUnstableInv, InsertUnstableInv, VolatileChangedInv
  DEF cmp_and_merge_one

-----------------------------------------------------------------------------
(***************************************************************************)
(* The other steps of an iteration                                         *)
(***************************************************************************)

\* A value converted to short stays in its range.
LEMMA ToShortType ==
  ASSUME NEW k \in Int
  PROVE  ToShort(k) \in Int
<1>1. ShortRange \in Nat /\ ShortRange >= 2 /\ ShortRange \div 2 \in Int
  BY ServerAssumption
<1>2. (k + (ShortRange \div 2)) % ShortRange \in Int
  BY <1>1
<1>3. QED
  BY <1>1, <1>2 DEF ToShort

\* lookup_rmap_item: the page becomes known and is stamped.
LEMMA LookupInv ==
  ASSUME ServerInv, NEW i \in todo, NEW p \in Pfns, NEW h \in Hashes,
         lookup_rmap_item(i, p, h)
  PROVE  ServerInv'
<1> DEFINE base == IF InTree(i) THEN rmap_tree[i] ELSE NewItem
           it == [base EXCEPT !.pfn = p, !.last_access = ToShort(iteration)]
<1>1. TypeOK /\ StructInv /\ PhaseOK /\ UnstableExact
  BY DEF ServerInv
<1>2. /\ phase = "work" /\ errs = {} /\ page = NoPage
      /\ todo' = todo \ {i} /\ page' = [item |-> i, hash |-> h]
      /\ rmap_tree' = [rmap_tree EXCEPT ![i] = it]
      /\ total_accessed_cnt' = total_accessed_cnt + 1
      /\ phase' = phase /\ iteration' = iteration /\ present' = present
      /\ errs' = errs /\ victims' = victims /\ node' = node /\ created' = created
      /\ stable_hash_table' = stable_hash_table
      /\ unstable_hash_table' = unstable_hash_table
      /\ log' = log /\ clashed' = clashed
  BY DEF lookup_rmap_item
<1>3. /\ rmap_tree \in [Items -> ItemRec] /\ iteration \in 0..MaxIteration
      /\ todo \in SUBSET present /\ present \in SUBSET Items /\ i \in Items /\ i \in present
      /\ node \in [NodeIds -> NodeRec] /\ total_accessed_cnt \in Nat
  BY <1>1 DEF TypeOK
<1>4. rmap_tree[i].state # "Unstable"
  BY <1>1, <1>3 DEF UnstableExact
<1>5. /\ base \in ItemRec /\ base.state \in {"Volatile", "Stable"}
      /\ base.state = "Stable" <=> rmap_tree[i].state = "Stable"
      /\ rmap_tree[i].state = "Stable" => base = rmap_tree[i]
  <2>1. NewItem \in ItemRec /\ NewItem.state = "Volatile"
    BY DEF NewItem, AbsentItem, ItemRec, NoNode
  <2>2. rmap_tree[i] \in ItemRec /\ rmap_tree[i].state \in {"Absent", "Volatile", "Unstable", "Stable"}
    BY <1>3 DEF ItemRec
  <2>3. QED
    BY <2>1, <2>2, <1>4 DEF InTree
<1>6. ToShort(iteration) \in Int
  BY <1>3, ServerAssumption, ToShortType
<1> HIDE DEF base
<1>7. /\ it \in ItemRec /\ it.state = base.state /\ it.stable_node = base.stable_node
      /\ it.old_hash = base.old_hash /\ it.last_access = ToShort(iteration)
  BY <1>5, <1>6 DEF ItemRec
<1> HIDE DEF it
<1>8. /\ rmap_tree' \in [Items -> ItemRec] /\ rmap_tree'[i] = it
      /\ \A j \in Items : j # i => rmap_tree'[j] = rmap_tree[j]
  BY <1>2, <1>3, <1>7
<1>9. StructInv'
  <2>1. \A j \in Items :
            /\ rmap_tree'[j].state = "Stable" <=> rmap_tree[j].state = "Stable"
            /\ rmap_tree[j].state = "Stable" =>
                 /\ rmap_tree'[j].stable_node = rmap_tree[j].stable_node
                 /\ rmap_tree'[j].old_hash = rmap_tree[j].old_hash
    BY <1>5, <1>7, <1>8
  <2>2. QED
    BY <1>1, <1>2, <1>3, <2>1, StructFrame
<1>10. UnstableExact'
  <2>1. \A j \in Items :
            /\ rmap_tree'[j].state = "Unstable" <=> rmap_tree[j].state = "Unstable"
            /\ rmap_tree[j].state = "Unstable" => rmap_tree'[j].old_hash = rmap_tree[j].old_hash
            /\ j \in present \ todo => j \in present' \ todo'
    BY <1>2, <1>4, <1>5, <1>7, <1>8
  <2>2. QED
    BY <1>2, <2>1, UnstableFrame
<1>11. LogMatchesMetadata' /\ LogOK'
  <2>1. page'.item = i
    BY <1>2
  <2>2. \A j \in Items : (j \in present \ todo /\ j # page.item) =>
            /\ j \in present' \ todo' /\ j # page'.item
            /\ (errs = {} /\ rmap_tree[j].state = "Stable") =>
                 /\ rmap_tree'[j].state = "Stable"
                 /\ rmap_tree'[j].stable_node = rmap_tree[j].stable_node
                 /\ node'[rmap_tree[j].stable_node].pfn = node[rmap_tree[j].stable_node].pfn
    BY <1>2, <1>8, <2>1
  <2>3. log' \in Seq(LogRec)
    BY <1>1, <1>2 DEF TypeOK
  <2>4. \A k \in DOMAIN log' : IsMerge(log'[k]) => k \in DOMAIN log /\ log'[k] = log[k]
    BY <1>2
  <2>5. errs = {} => errs' = {}
    BY <1>2
  <2>6. QED
    BY <2>2, <2>3, <2>4, <2>5, LogFrame
<1>12. TypeOK'
  <2>1. page' \in PageRec
    BY <1>2, <1>3 DEF PageRec
  <2>2. total_accessed_cnt' \in Nat /\ todo' \in SUBSET present'
    BY <1>2, <1>3
  <2>3. QED
    BY <1>1, <1>2, <1>8, <2>1, <2>2 DEF TypeOK
<1>13. PhaseOK'
  <2>1. page'.item = i /\ page'.hash = h
    BY <1>2
  <2>2. rmap_tree'[i].state \in {"Volatile", "Stable"}
    BY <1>5, <1>7, <1>8
  <2>3. QED
    BY <1>1, <1>2, <1>3, <2>1, <2>2 DEF PhaseOK
<1>14. ScannedOK'
  <2> SUFFICES ASSUME NEW j \in present' \ todo'
               PROVE  /\ rmap_tree'[j].state # "Absent"
                      /\ rmap_tree'[j].last_access = ToShort(iteration)
    BY <1>2 DEF ScannedOK, InTree
  <2>1. CASE j = i
    BY <2>1, <1>5, <1>7, <1>8
  <2>2. CASE j # i
    <3>1. j \in present \ todo /\ j \in Items /\ rmap_tree'[j] = rmap_tree[j]
      BY <2>2, <1>2, <1>3, <1>8
    <3>2. QED
      BY <3>1, <1>2 DEF ServerInv, ScannedOK, InTree
  <2>3. QED
    BY <2>1, <2>2
<1>15. ErrorsApply' /\ ErrsOK' /\ PruneOnlyUnaccessed' /\ VictimsOK'
  <2>1. victims = {}
    BY <1>1, <1>2 DEF PhaseOK
  <2>2. QED
    BY <1>2, <2>1 DEF ErrorsApply, ErrsOK, PruneOnlyUnaccessed, VictimsOK
<1>16. QED
  BY <1>9, <1>10, <1>11, <1>12, <1>13, <1>14, <1>15 DEF ServerInv

\* The steps that leave the metadata and the scan alone.
LEMMA SendResultInv == ServerInv /\ SendResult => ServerInv'
<1> SUFFICES ASSUME ServerInv, SendResult PROVE ServerInv'
  OBVIOUS
<1>1. /\ phase = "prune" /\ phase' = "wait" /\ iteration' = iteration + 1
      /\ total_accessed_cnt' = 0 /\ present' = present /\ errs' = errs /\ todo' = todo
      /\ page' = page /\ victims' = victims /\ victims = {} /\ log' = log
      /\ rmap_tree' = rmap_tree /\ node' = node /\ created' = created
      /\ stable_hash_table' = stable_hash_table
      /\ unstable_hash_table' = unstable_hash_table /\ clashed' = clashed
  BY DEF SendResult, metaVars
<1>2. TypeOK /\ StructInv /\ PhaseOK
  BY DEF ServerInv
<1>3. todo = {} /\ page = NoPage /\ errs = {} /\ iteration < MaxIteration
  BY <1>1, <1>2 DEF PhaseOK
<1>4. TypeOK'
  <2>1. iteration' \in 0..MaxIteration /\ total_accessed_cnt' \in Nat
    BY <1>1, <1>2, <1>3, ServerAssumption DEF TypeOK
  <2>2. QED
    BY <1>1, <1>2, <2>1 DEF TypeOK
<1>5. StructInv'
  <2>1. node \in [NodeIds -> NodeRec]
    BY <1>2 DEF TypeOK
  <2>2. QED
    BY <1>1, <1>2, <2>1, StructFrame
<1>6. UnstableExact'
  BY <1>1, UnstableFrame
<1>7. LogMatchesMetadata' /\ LogOK'
  <2>1. log' \in Seq(LogRec)
    BY <1>1, <1>2 DEF TypeOK
  <2>2. QED
    BY <1>1, <2>1, LogFrame
<1>8. PhaseOK' /\ ScannedOK'
  BY <1>1, <1>3 DEF PhaseOK, ScannedOK
<1>9. ErrorsApply' /\ ErrsOK' /\ PruneOnlyUnaccessed' /\ VictimsOK'
  BY <1>1, <1>3 DEF ErrorsApply, ErrsOK, PruneOnlyUnaccessed, VictimsOK
<1>10. QED
  BY <1>4, <1>5, <1>6, <1>7, <1>8, <1>9 DEF ServerInv

\* A lost connection leaves the metadata as it was.
LEMMA ConnectionLostInv == ServerInv /\ ConnectionLost => ServerInv'
<1> SUFFICES ASSUME ServerInv, ConnectionLost PROVE ServerInv'
  OBVIOUS
<1>1. /\ phase \in {"wait", "work"} /\ phase' = "down" /\ iteration' = iteration
      /\ total_accessed_cnt' = total_accessed_cnt
      /\ present' = present /\ errs' = errs /\ todo' = todo
      /\ page' = page /\ victims' = victims /\ log' = log
      /\ rmap_tree' = rmap_tree /\ node' = node /\ created' = created
      /\ stable_hash_table' = stable_hash_table
      /\ unstable_hash_table' = unstable_hash_table /\ clashed' = clashed
  BY DEF ConnectionLost, metaVars, scanVars
<1>2. TypeOK /\ StructInv /\ PhaseOK
  BY DEF ServerInv
<1>3. victims = {}
  BY <1>1, <1>2 DEF PhaseOK
<1>4. TypeOK'
  BY <1>1, <1>2 DEF TypeOK
<1>5. StructInv'
  <2>1. node \in [NodeIds -> NodeRec]
    BY <1>2 DEF TypeOK
  <2>2. QED
    BY <1>1, <1>2, <2>1, StructFrame
<1>6. UnstableExact'
  BY <1>1, UnstableFrame
<1>7. LogMatchesMetadata' /\ LogOK'
  <2>1. log' \in Seq(LogRec)
    BY <1>1, <1>2 DEF TypeOK
  <2>2. QED
    BY <1>1, <2>1, LogFrame
<1>8. PhaseOK' /\ ScannedOK'
  BY <1>1, <1>2, <1>3 DEF PhaseOK, ScannedOK
<1>9. ErrorsApply' /\ ErrsOK'
  BY <1>1 DEF ServerInv, ErrorsApply, ErrsOK
<1>10. PruneOnlyUnaccessed' /\ VictimsOK'
  BY <1>1, <1>3 DEF PruneOnlyUnaccessed, VictimsOK
<1>11. QED
  BY <1>4, <1>5, <1>6, <1>7, <1>8, <1>9, <1>10 DEF ServerInv

\* Every reportable failure undoes a merge of the log, each merge once.
LEMMA ReportableFacts ==
  ASSUME ServerInv, NEW e \in Reportable
  PROVE  \E k \in DOMAIN log :
            /\ IsMerge(log[k]) /\ e.from = log[k].from /\ e \in ErrRec /\ e.from \in Items
            /\ log[k].type = "STABLE_MERGE" =>
                 e = [type |-> "MERGE_ONE_FAILED", from |-> log[k].from, kpfn |-> log[k].kpfn]
            /\ log[k].type = "UNSTABLE_MERGE" =>
                 e = [type |-> "MERGE_TWO_FAILED", from |-> log[k].from, to |-> log[k].to]
            /\ e.type = "MERGE_ONE_FAILED" => log[k].type = "STABLE_MERGE" /\ e.kpfn = log[k].kpfn
            /\ e.type = "MERGE_TWO_FAILED" => log[k].type = "UNSTABLE_MERGE"
<1>1. \A k \in DOMAIN log : log[k] \in LogRec
  BY DEF ServerInv, TypeOK
<1>2. CASE \E k \in DOMAIN log : /\ log[k].type = "STABLE_MERGE"
                                 /\ e = [type |-> "MERGE_ONE_FAILED", from |-> log[k].from,
                                         kpfn |-> log[k].kpfn]
  <2>1. PICK k \in DOMAIN log : /\ log[k].type = "STABLE_MERGE"
                                /\ e = [type |-> "MERGE_ONE_FAILED", from |-> log[k].from,
                                        kpfn |-> log[k].kpfn]
    BY <1>2
  <2>2. log[k] \in LogRec
    BY <1>1
  <2>3. log[k].from \in Items /\ log[k].kpfn \in Pfns \cup {NoPfn}
    BY <2>1, <2>2 DEF LogRec
  <2>4. e \in ErrRec
    BY <2>1, <2>3 DEF ErrRec
  <2>5. e.type = "MERGE_ONE_FAILED" /\ e.from = log[k].from /\ e.kpfn = log[k].kpfn
    BY <2>1
  <2>6. QED
    BY <2>1, <2>3, <2>4, <2>5 DEF IsMerge
<1>3. CASE \E k \in DOMAIN log : /\ log[k].type = "UNSTABLE_MERGE"
                                 /\ e = [type |-> "MERGE_TWO_FAILED", from |-> log[k].from,
                                         to |-> log[k].to]
  <2>1. PICK k \in DOMAIN log : /\ log[k].type = "UNSTABLE_MERGE"
                                /\ e = [type |-> "MERGE_TWO_FAILED", from |-> log[k].from,
                                        to |-> log[k].to]
    BY <1>3
  <2>2. log[k] \in LogRec
    BY <1>1
  <2>3. log[k].from \in Items /\ log[k].to \in Items
    BY <2>1, <2>2 DEF LogRec
  <2>4. e \in ErrRec
    BY <2>1, <2>3 DEF ErrRec
  <2>5. e.type = "MERGE_TWO_FAILED" /\ e.from = log[k].from
    BY <2>1
  <2>6. QED
    BY <2>1, <2>3, <2>4, <2>5 DEF IsMerge
<1>4. QED
  BY <1>2, <1>3 DEF Reportable

\* RecvMetadata: the reported failures fit the metadata as the log left it.
LEMMA RecvMetadataInv ==
  ASSUME ServerInv, NEW S \in SUBSET Items, NEW E \in SUBSET Reportable, RecvMetadata(S, E)
  PROVE  ServerInv'
<1>1. /\ phase = "wait" /\ iteration < MaxIteration /\ HostReports(E) /\ phase' = "work"
      /\ present' = S /\ todo' = S /\ errs' = E /\ log' = <<>>
      /\ iteration' = iteration /\ page' = page /\ victims' = victims
      /\ total_accessed_cnt' = total_accessed_cnt
      /\ rmap_tree' = rmap_tree /\ node' = node /\ created' = created
      /\ stable_hash_table' = stable_hash_table
      /\ unstable_hash_table' = unstable_hash_table /\ clashed' = clashed
  BY DEF RecvMetadata, metaVars
<1>2. TypeOK /\ StructInv /\ PhaseOK
  BY DEF ServerInv
<1>3. page = NoPage /\ victims = {} /\ todo = {}
  BY <1>1, <1>2 DEF PhaseOK
<1>4. StructInv'
  <2>1. node \in [NodeIds -> NodeRec]
    BY <1>2 DEF TypeOK
  <2>2. QED
    BY <1>1, <1>2, <2>1, StructFrame
<1>5. TypeOK'
  <2>1. E \in SUBSET ErrRec
    BY ReportableFacts
  <2>2. log' \in Seq(LogRec)
    BY <1>1
  <2>3. QED
    BY <1>1, <1>2, <2>1, <2>2 DEF TypeOK
<1>6. UnstableExact'
  <2>1. \A i \in Items : rmap_tree[i].state # "Unstable"
    BY <1>1 DEF ServerInv, UnstableExact
  <2>2. QED
    BY <1>1, <2>1 DEF ServerInv, UnstableExact
<1>7. LogMatchesMetadata' /\ LogOK'
  <2>1. DOMAIN log' = {}
    BY <1>1
  <2>2. QED
    BY <2>1 DEF LogMatchesMetadata, LogOK
<1>8. PhaseOK' /\ ScannedOK' /\ PruneOnlyUnaccessed' /\ VictimsOK'
  BY <1>1, <1>3 DEF PhaseOK, ScannedOK, PruneOnlyUnaccessed, VictimsOK
<1>9. ErrorsApply'
  <2> SUFFICES ASSUME NEW e \in E
               PROVE  /\ rmap_tree[e.from].state = "Stable"
                      /\ e.type = "MERGE_ONE_FAILED" =>
                            node[rmap_tree[e.from].stable_node].pfn = e.kpfn
    BY <1>1 DEF ErrorsApply
  <2>1. PICK k \in DOMAIN log :
            /\ IsMerge(log[k]) /\ e.from = log[k].from
            /\ e.type = "MERGE_ONE_FAILED" => log[k].type = "STABLE_MERGE" /\ e.kpfn = log[k].kpfn
    BY ReportableFacts
  <2>2. QED
    BY <2>1 DEF ServerInv, LogMatchesMetadata, IsMerge
<1>10. ErrsOK'
  <2> SUFFICES ASSUME NEW e \in E, NEW f \in E, e # f
               PROVE  /\ e.from # f.from
                      /\ e.type = "MERGE_TWO_FAILED" =>
                           rmap_tree[e.from].stable_node # rmap_tree[f.from].stable_node
    BY <1>1 DEF ErrsOK
  <2>1. PICK k \in DOMAIN log :
            /\ IsMerge(log[k]) /\ e.from = log[k].from
            /\ log[k].type = "STABLE_MERGE" =>
                 e = [type |-> "MERGE_ONE_FAILED", from |-> log[k].from, kpfn |-> log[k].kpfn]
            /\ log[k].type = "UNSTABLE_MERGE" =>
                 e = [type |-> "MERGE_TWO_FAILED", from |-> log[k].from, to |-> log[k].to]
            /\ e.type = "MERGE_TWO_FAILED" => log[k].type = "UNSTABLE_MERGE"
    BY ReportableFacts
  <2>2. PICK l \in DOMAIN log :
            /\ IsMerge(log[l]) /\ f.from = log[l].from
            /\ log[l].type = "STABLE_MERGE" =>
                 f = [type |-> "MERGE_ONE_FAILED", from |-> log[l].from, kpfn |-> log[l].kpfn]
            /\ log[l].type = "UNSTABLE_MERGE" =>
                 f = [type |-> "MERGE_TWO_FAILED", from |-> log[l].from, to |-> log[l].to]
    BY ReportableFacts
  <2>3. k # l
    BY <2>1, <2>2 DEF IsMerge
  <2>4. e.from # f.from
    BY <2>1, <2>2, <2>3 DEF ServerInv, LogOK
  <2>5. ASSUME e.type = "MERGE_TWO_FAILED"
        PROVE  rmap_tree[e.from].stable_node # rmap_tree[f.from].stable_node
    <3>1. CASE log[l].type = "UNSTABLE_MERGE"
      BY <2>1, <2>2, <2>3, <2>5, <3>1 DEF ServerInv, LogOK
    <3>2. CASE log[l].type = "STABLE_MERGE"
      <4>1. f.type = "MERGE_ONE_FAILED"
        BY <2>2, <3>2
      <4>2. QED
        BY <4>1, <2>5, <1>1 DEF HostReports
    <3>3. QED
      BY <2>2, <3>1, <3>2 DEF IsMerge
  <2>6. QED
    BY <2>4, <2>5
<1>11. QED
  BY <1>4, <1>5, <1>6, <1>7, <1>8, <1>9, <1>10 DEF ServerInv

\* What holds when an error entry is handled: nothing has been scanned.
LEMMA ErrorFacts ==
  ASSUME ServerInv, NEW e \in errs
  PROVE  /\ todo = present /\ page = NoPage
         /\ \A k \in DOMAIN log : ~IsMerge(log[k])
         /\ \A i \in Items : rmap_tree[i].state # "Unstable"
         /\ e.from \in Items /\ rmap_tree[e.from].state = "Stable"
         /\ \A f \in errs : f # e =>
              /\ f.from \in Items /\ f.from # e.from /\ rmap_tree[f.from].state = "Stable"
              /\ e.type = "MERGE_TWO_FAILED" =>
                   rmap_tree[e.from].stable_node # rmap_tree[f.from].stable_node
<1>1. todo = present /\ page = NoPage
  BY DEF ServerInv, PhaseOK
<1>2. \A k \in DOMAIN log : ~IsMerge(log[k])
  BY DEF ServerInv, LogOK
<1>3. \A i \in Items : rmap_tree[i].state # "Unstable"
  BY <1>1 DEF ServerInv, UnstableExact
<1>4. \A f \in errs : f.from \in Items
  <2>1. \A f \in ErrRec : f.from \in Items
    BY DEF ErrRec
  <2>2. QED
    BY <2>1 DEF ServerInv, TypeOK
<1>5. \A f \in errs : rmap_tree[f.from].state = "Stable"
  BY DEF ServerInv, ErrorsApply
<1>6. \A f \in errs : f # e =>
         /\ f.from # e.from
         /\ e.type = "MERGE_TWO_FAILED" =>
              rmap_tree[e.from].stable_node # rmap_tree[f.from].stable_node
  BY DEF ServerInv, ErrsOK
<1>7. QED
  BY <1>1, <1>2, <1>3, <1>4, <1>5, <1>6

\* An undone merge keeps the invariant if the items of the other entries stay.
LEMMA UndoFrame ==
  ASSUME ServerInv, phase = "work", NEW e \in errs, errs' = errs \ {e},
         phase' = phase, iteration' = iteration, present' = present, todo' = todo,
         page' = page, victims' = victims, total_accessed_cnt' = total_accessed_cnt,
         created' = created, unstable_hash_table' = unstable_hash_table, clashed' = clashed,
         rmap_tree' \in [Items -> ItemRec], node' \in [NodeIds -> NodeRec],
         stable_hash_table' \in [Hashes -> NodeIds \cup {NoNode}],
         StructInv', log' \in Seq(LogRec),
         \A k \in DOMAIN log' : ~IsMerge(log'[k]),
         \A i \in Items : rmap_tree'[i].state # "Unstable",
         \A f \in errs : f # e =>
            /\ rmap_tree'[f.from] = rmap_tree[f.from]
            /\ node'[rmap_tree[f.from].stable_node].pfn = node[rmap_tree[f.from].stable_node].pfn
  PROVE  ServerInv'
<1>1. /\ todo = present /\ page = NoPage
      /\ \A i \in Items : rmap_tree[i].state # "Unstable"
  BY ErrorFacts
<1>2. TypeOK /\ PhaseOK
  BY DEF ServerInv
<1>3. TypeOK'
  <2>1. errs' \in SUBSET ErrRec
    BY <1>2 DEF TypeOK
  <2>2. QED
    BY <1>2, <2>1 DEF TypeOK
<1>4. UnstableExact'
  <2>1. unstable_hash_table \in [Hashes -> Items \cup {NoItem}]
    BY <1>2 DEF TypeOK
  <2>2. \A h \in Hashes : unstable_hash_table[h] # NoItem =>
            rmap_tree[unstable_hash_table[h]].state = "Unstable"
    BY DEF ServerInv, UnstableExact
  <2>3. \A h \in Hashes : unstable_hash_table[h] = NoItem
    BY <1>1, <2>1, <2>2
  <2>4. QED
    BY <2>3 DEF UnstableExact
<1>5. PhaseOK' /\ ScannedOK'
  BY <1>1, <1>2 DEF PhaseOK, ScannedOK
<1>6. LogMatchesMetadata' /\ LogOK'
  BY DEF LogMatchesMetadata, LogOK, IsMerge
<1>7. victims = {}
  BY <1>2 DEF PhaseOK
<1>8. PruneOnlyUnaccessed' /\ VictimsOK'
  BY <1>7 DEF PruneOnlyUnaccessed, VictimsOK
<1>9. \A f \in errs' : f \in errs /\ f # e
  OBVIOUS
<1>10. ErrorsApply'
  BY <1>9 DEF ServerInv, ErrorsApply
<1>11. ErrsOK'
  BY <1>9 DEF ServerInv, ErrsOK
<1>12. QED
  BY <1>3, <1>4, <1>5, <1>6, <1>8, <1>10, <1>11 DEF ServerInv

\* do_handle_error undoes the merge of one entry and keeps the invariant.
LEMMA HandleErrorInv == ServerInv /\ HandleError => ServerInv'
<1> SUFFICES ASSUME ServerInv, HandleError PROVE ServerInv'
  OBVIOUS
<1>1. /\ phase = "work" /\ phase' = phase /\ iteration' = iteration /\ present' = present
      /\ todo' = todo /\ page' = page /\ victims' = victims
      /\ total_accessed_cnt' = total_accessed_cnt /\ created' = created
      /\ unstable_hash_table' = unstable_hash_table /\ clashed' = clashed
  BY DEF HandleError
<1>2. PICK e \in errs : (MergeOneFailed(e) \/ MergeTwoFailed(e)) /\ errs' = errs \ {e}
  BY DEF HandleError
<1>3. TypeOK /\ StructInv
  BY DEF ServerInv
<1>4. /\ rmap_tree \in [Items -> ItemRec] /\ node \in [NodeIds -> NodeRec]
      /\ log \in Seq(LogRec)
  BY <1>3 DEF TypeOK
<1> DEFINE x == e.from
<1>5. /\ \A k \in DOMAIN log : ~IsMerge(log[k])
      /\ \A i \in Items : rmap_tree[i].state # "Unstable"
      /\ x \in Items /\ rmap_tree[x].state = "Stable"
      /\ \A f \in errs : f # e =>
           /\ f.from \in Items /\ f.from # x /\ rmap_tree[f.from].state = "Stable"
           /\ e.type = "MERGE_TWO_FAILED" =>
                rmap_tree[x].stable_node # rmap_tree[f.from].stable_node
  BY ErrorFacts
<1>6. CASE MergeOneFailed(e)
  <2> DEFINE it == reset_item_state(rmap_tree[x])
  <2>1. /\ LeaveNode(x) /\ rmap_tree' = [rmap_tree EXCEPT ![x] = it]
        /\ log' = IF IsLastItem(x) THEN Append(log, log_stale_node(x)) ELSE log
    BY <1>6 DEF MergeOneFailed
  <2>2. it \in ItemRec /\ it.state = "Volatile"
    BY <1>4, <1>5, ResetType
  <2> HIDE DEF it, x
  <2>3. /\ node' \in [NodeIds -> NodeRec]
        /\ stable_hash_table' \in [Hashes -> NodeIds \cup {NoNode}]
        /\ StructInv'
        /\ \A j \in Items : (j # x /\ rmap_tree[j].state = "Stable") =>
              node'[rmap_tree[j].stable_node].pfn = node[rmap_tree[j].stable_node].pfn
    BY <1>1, <1>3, <1>5, <2>1, <2>2, LeaveStruct
  <2>4. /\ rmap_tree' \in [Items -> ItemRec] /\ rmap_tree'[x] = it
        /\ \A j \in Items : j # x => rmap_tree'[j] = rmap_tree[j]
    BY <1>4, <1>5, <2>1, <2>2
  <2>5. /\ log' \in Seq(LogRec)
        /\ \A k \in DOMAIN log' : ~IsMerge(log'[k])
    <3>1. log_stale_node(x) \in LogRec /\ ~IsMerge(log_stale_node(x))
      BY <1>3, <1>5, DemotionType
    <3>2. CASE IsLastItem(x)
      <4>1. log' = Append(log, log_stale_node(x))
        BY <2>1, <3>2
      <4>2. QED
        BY <1>4, <1>5, <3>1, <4>1, AppendEntry
    <3>3. CASE ~IsLastItem(x)
      BY <1>4, <1>5, <2>1, <3>3
    <3>4. QED
      BY <3>2, <3>3
  <2>6. \A i \in Items : rmap_tree'[i].state # "Unstable"
    BY <1>5, <2>2, <2>4
  <2>7. \A f \in errs : f # e =>
            /\ rmap_tree'[f.from] = rmap_tree[f.from]
            /\ node'[rmap_tree[f.from].stable_node].pfn = node[rmap_tree[f.from].stable_node].pfn
    BY <1>5, <2>3, <2>4
  <2>8. QED
    BY <1>1, <1>2, <2>3, <2>4, <2>5, <2>6, <2>7, UndoFrame
<1>7. CASE MergeTwoFailed(e)
  <2> DEFINE n == rmap_tree[x].stable_node
  <2>1. /\ e.type = "MERGE_TWO_FAILED"
        /\ rmap_tree' = [i \in Items |-> IF i \in node[n].sharing
                                         THEN reset_item_state(rmap_tree[i])
                                         ELSE rmap_tree[i]]
        /\ stable_hash_table' = remove_stable_node_no_item(stable_hash_table, node, n)
        /\ node' = [node EXCEPT ![n] = FreeNode] /\ log' = log
    BY <1>7 DEF MergeTwoFailed, UndoneItems
  <2>2. n \in NodeIds /\ Live(n)
    BY <1>3, <1>5, NodeOfStable
  <2> HIDE DEF n, x
  <2>3. /\ node' \in [NodeIds -> NodeRec]
        /\ rmap_tree' \in [Items -> ItemRec]
        /\ stable_hash_table' \in [Hashes -> NodeIds \cup {NoNode}]
        /\ StructInv'
        /\ \A i \in Items : (rmap_tree[i].state = "Stable" /\ rmap_tree[i].stable_node # n) =>
               /\ rmap_tree'[i] = rmap_tree[i]
               /\ node'[rmap_tree[i].stable_node].pfn = node[rmap_tree[i].stable_node].pfn
        /\ \A i \in Items : rmap_tree'[i].state # rmap_tree[i].state =>
               rmap_tree'[i].state = "Volatile"
    BY <1>1, <1>3, <2>1, <2>2, UndoStruct
  <2>4. \A i \in Items : rmap_tree'[i].state # "Unstable"
    BY <1>5, <2>3
  <2>5. \A f \in errs : f # e =>
            /\ rmap_tree'[f.from] = rmap_tree[f.from]
            /\ node'[rmap_tree[f.from].stable_node].pfn = node[rmap_tree[f.from].stable_node].pfn
    BY <1>5, <2>1, <2>3 DEF n
  <2>6. log' \in Seq(LogRec) /\ \A k \in DOMAIN log' : ~IsMerge(log'[k])
    BY <1>4, <1>5, <2>1
  <2>7. QED
    BY <1>1, <1>2, <2>3, <2>4, <2>5, <2>6, UndoFrame
<1>8. QED
  BY <1>2, <1>6, <1>7

\* prune_metadata: the unstable table is emptied and the keys are collected.
LEMMA PruneMetadataInv ==
  ASSUME MaxIteration <= ShortRange \div 2, ServerInv, prune_metadata
  PROVE  ServerInv'
<1>1. /\ phase = "work" /\ errs = {} /\ todo = {} /\ page = NoPage /\ phase' = "prune"
      /\ rmap_tree' = [i \in Items |->
                         IF \E h \in Hashes : unstable_hash_table[h] = i
                         THEN [rmap_tree[i] EXCEPT !.state = "Volatile"]
                         ELSE rmap_tree[i]]
      /\ unstable_hash_table' = [h \in Hashes |-> NoItem]
      /\ victims' \subseteq {i \in Items : NotAccessed(i)}
      /\ iteration' = iteration /\ present' = present /\ errs' = errs /\ todo' = todo
      /\ page' = page /\ total_accessed_cnt' = total_accessed_cnt /\ node' = node
      /\ created' = created /\ stable_hash_table' = stable_hash_table /\ log' = log
      /\ clashed' = clashed
  BY DEF prune_metadata
<1>2. TypeOK /\ StructInv /\ PhaseOK /\ UnstableExact /\ ScannedOK
  BY DEF ServerInv
<1>3. /\ rmap_tree \in [Items -> ItemRec] /\ node \in [NodeIds -> NodeRec]
      /\ present \in SUBSET Items /\ iteration \in 0..MaxIteration /\ iteration < MaxIteration
  BY <1>1, <1>2 DEF TypeOK, PhaseOK
<1>4. \A i \in Items : (\E h \in Hashes : unstable_hash_table[h] = i)
                          <=> rmap_tree[i].state = "Unstable"
  BY <1>2, ServerAssumption DEF UnstableExact
<1>5. \A i \in Items : /\ [rmap_tree[i] EXCEPT !.state = "Volatile"] \in ItemRec
                       /\ [rmap_tree[i] EXCEPT !.state = "Volatile"].state = "Volatile"
                       /\ [rmap_tree[i] EXCEPT !.state = "Volatile"].last_access
                            = rmap_tree[i].last_access
  BY <1>3 DEF ItemRec
<1>6. /\ rmap_tree' \in [Items -> ItemRec]
      /\ \A i \in Items : rmap_tree[i].state # "Unstable" => rmap_tree'[i] = rmap_tree[i]
      /\ \A i \in Items : rmap_tree[i].state = "Unstable" => rmap_tree'[i].state = "Volatile"
      /\ \A i \in Items : rmap_tree'[i].last_access = rmap_tree[i].last_access
  BY <1>1, <1>3, <1>4, <1>5
<1>7. StructInv'
  <2>1. \A j \in Items :
            /\ rmap_tree'[j].state = "Stable" <=> rmap_tree[j].state = "Stable"
            /\ rmap_tree[j].state = "Stable" =>
                 /\ rmap_tree'[j].stable_node = rmap_tree[j].stable_node
                 /\ rmap_tree'[j].old_hash = rmap_tree[j].old_hash
    BY <1>6
  <2>2. QED
    BY <1>1, <1>2, <1>3, <2>1, StructFrame
<1>8. TypeOK'
  <2>1. /\ unstable_hash_table' \in [Hashes -> Items \cup {NoItem}]
        /\ victims' \in SUBSET Items
    BY <1>1
  <2>2. QED
    BY <1>1, <1>2, <1>6, <2>1 DEF TypeOK
<1>9. UnstableExact'
  BY <1>1, <1>6 DEF UnstableExact
<1>10. PhaseOK'
  BY <1>1, <1>3 DEF PhaseOK
<1>11. ScannedOK'
  BY <1>1, <1>2, <1>3, <1>6 DEF ScannedOK, InTree
<1>12. LogMatchesMetadata' /\ LogOK'
  <2>1. log' \in Seq(LogRec)
    BY <1>1, <1>2 DEF TypeOK
  <2>2. \A i \in Items : rmap_tree[i].state = "Stable" => rmap_tree'[i] = rmap_tree[i]
    BY <1>6
  <2>3. QED
    BY <1>1, <2>1, <2>2, LogFrame
<1>13. PruneOnlyUnaccessed'
  <2>1. ToShort(iteration) = iteration
    BY <1>3, ServerAssumption, ShortId
  <2>2. \A i \in present : rmap_tree[i].last_access = iteration
    BY <1>1, <1>2, <2>1 DEF ScannedOK
  <2>3. \A i \in present : ~NotAccessed(i)
    BY <2>2, <1>3, ServerAssumption DEF NotAccessed
  <2>4. QED
    BY <1>1, <2>3 DEF PruneOnlyUnaccessed
<1>14. VictimsOK'
  <2>1. \A i \in Items : NotAccessed(i) => rmap_tree[i].state \in {"Volatile", "Unstable", "Stable"}
    BY <1>3 DEF NotAccessed, InTree, ItemRec
  <2>2. QED
    BY <1>1, <1>6, <2>1 DEF VictimsOK
<1>15. ErrorsApply' /\ ErrsOK'
  BY <1>1 DEF ErrorsApply, ErrsOK
<1>16. QED
  BY <1>7, <1>8, <1>9, <1>10, <1>11, <1>12, <1>13, <1>14, <1>15 DEF ServerInv

\* prune_rmap_tree: an unaccessed item is freed, the last one of a node with it.
LEMMA PruneTreeInv == ServerInv /\ prune_rmap_tree => ServerInv'
<1> SUFFICES ASSUME ServerInv, prune_rmap_tree PROVE ServerInv'
  OBVIOUS
<1>1. /\ phase = "prune" /\ phase' = phase /\ iteration' = iteration /\ present' = present
      /\ errs' = errs /\ todo' = todo /\ page' = page
      /\ total_accessed_cnt' = total_accessed_cnt /\ created' = created
      /\ unstable_hash_table' = unstable_hash_table /\ clashed' = clashed
  BY DEF prune_rmap_tree
<1>2. PICK x \in victims :
         /\ victims' = victims \ {x}
         /\ IF rmap_tree[x].state = "Stable"
            THEN /\ LeaveNode(x)
                 /\ log' = IF IsLastItem(x) THEN Append(log, log_stale_node(x)) ELSE log
            ELSE UNCHANGED <<node, stable_hash_table, log>>
         /\ rmap_tree' = [rmap_tree EXCEPT ![x] = AbsentItem]
  BY DEF prune_rmap_tree, KeysLeft
<1>3. TypeOK /\ StructInv /\ PhaseOK
  BY DEF ServerInv
<1>4. /\ rmap_tree \in [Items -> ItemRec] /\ node \in [NodeIds -> NodeRec]
      /\ log \in Seq(LogRec) /\ victims \in SUBSET Items /\ x \in Items
      /\ stable_hash_table \in [Hashes -> NodeIds \cup {NoNode}]
  BY <1>3 DEF TypeOK
<1>5. /\ todo = {} /\ page = NoPage /\ errs = {} /\ iteration < MaxIteration
      /\ x \notin present /\ rmap_tree[x].state \in {"Volatile", "Stable"}
  BY <1>1 DEF ServerInv, PhaseOK, PruneOnlyUnaccessed, VictimsOK
<1>6. AbsentItem \in ItemRec /\ AbsentItem.state = "Absent"
  BY DEF AbsentItem, ItemRec, NoNode
<1>7. /\ rmap_tree' \in [Items -> ItemRec] /\ rmap_tree'[x] = AbsentItem
      /\ \A j \in Items : j # x => rmap_tree'[j] = rmap_tree[j]
  BY <1>2, <1>4, <1>6
<1>8. /\ node' \in [NodeIds -> NodeRec]
      /\ stable_hash_table' \in [Hashes -> NodeIds \cup {NoNode}]
      /\ StructInv'
      /\ \A j \in Items : (j # x /\ rmap_tree[j].state = "Stable") =>
            node'[rmap_tree[j].stable_node].pfn = node[rmap_tree[j].stable_node].pfn
      /\ log' \in Seq(LogRec)
      /\ \A k \in DOMAIN log' : IsMerge(log'[k]) => k \in DOMAIN log /\ log'[k] = log[k]
  <2>1. CASE rmap_tree[x].state = "Stable"
    <3>1. /\ LeaveNode(x)
          /\ log' = IF IsLastItem(x) THEN Append(log, log_stale_node(x)) ELSE log
      BY <1>2, <2>1
    <3>2. /\ node' \in [NodeIds -> NodeRec]
          /\ stable_hash_table' \in [Hashes -> NodeIds \cup {NoNode}]
          /\ StructInv'
          /\ \A j \in Items : (j # x /\ rmap_tree[j].state = "Stable") =>
                node'[rmap_tree[j].stable_node].pfn = node[rmap_tree[j].stable_node].pfn
      <4>1. /\ AbsentItem.state # "Stable"
            /\ rmap_tree' = [rmap_tree EXCEPT ![x] = AbsentItem]
        BY <1>2, <1>6
      <4> HIDE DEF AbsentItem
      <4>2. QED
        BY <1>1, <1>3, <1>4, <1>6, <2>1, <3>1, <4>1, LeaveStruct
    <3>3. log_stale_node(x) \in LogRec /\ ~IsMerge(log_stale_node(x))
      BY <1>3, <1>4, <2>1, DemotionType
    <3>4. /\ log' \in Seq(LogRec)
          /\ \A k \in DOMAIN log' : IsMerge(log'[k]) => k \in DOMAIN log /\ log'[k] = log[k]
      <4>1. CASE IsLastItem(x)
        <5>1. log' = Append(log, log_stale_node(x))
          BY <3>1, <4>1
        <5>2. QED
          BY <1>4, <3>3, <5>1, AppendEntry
      <4>2. CASE ~IsLastItem(x)
        BY <1>4, <3>1, <4>2
      <4>3. QED
        BY <4>1, <4>2
    <3>5. QED
      BY <3>2, <3>4
  <2>2. CASE rmap_tree[x].state # "Stable"
    <3>1. node' = node /\ stable_hash_table' = stable_hash_table /\ log' = log
      BY <1>2, <2>2
    <3>2. \A j \in Items :
            /\ rmap_tree'[j].state = "Stable" <=> rmap_tree[j].state = "Stable"
            /\ rmap_tree[j].state = "Stable" =>
                 /\ rmap_tree'[j].stable_node = rmap_tree[j].stable_node
                 /\ rmap_tree'[j].old_hash = rmap_tree[j].old_hash
      BY <1>6, <1>7, <2>2
    <3>3. StructInv'
      BY <1>1, <1>3, <1>4, <3>1, <3>2, StructFrame
    <3>4. QED
      BY <1>4, <3>1, <3>3
  <2>3. QED
    BY <2>1, <2>2
<1>9. TypeOK'
  <2>1. victims' \in SUBSET Items
    BY <1>2, <1>4
  <2>2. QED
    BY <1>1, <1>3, <1>7, <1>8, <2>1 DEF TypeOK
<1>10. UnstableExact'
  <2>1. \A i \in Items :
            /\ rmap_tree'[i].state = "Unstable" <=> rmap_tree[i].state = "Unstable"
            /\ rmap_tree[i].state = "Unstable" => rmap_tree'[i].old_hash = rmap_tree[i].old_hash
    BY <1>5, <1>6, <1>7
  <2>2. QED
    BY <1>1, <2>1, UnstableFrame
<1>11. LogMatchesMetadata' /\ LogOK'
  <2>1. \A i \in Items : (i \in present \ todo /\ i # page.item) =>
            /\ i \in present' \ todo' /\ i # page'.item
            /\ (errs = {} /\ rmap_tree[i].state = "Stable") =>
                 /\ rmap_tree'[i].state = "Stable"
                 /\ rmap_tree'[i].stable_node = rmap_tree[i].stable_node
                 /\ node'[rmap_tree[i].stable_node].pfn = node[rmap_tree[i].stable_node].pfn
    BY <1>1, <1>5, <1>7, <1>8
  <2>2. QED
    BY <1>1, <1>8, <2>1, LogFrame
<1>12. PhaseOK' /\ PruneOnlyUnaccessed' /\ VictimsOK'
  <2>1. PhaseOK'
    BY <1>1, <1>5 DEF PhaseOK
  <2>2. PruneOnlyUnaccessed'
    BY <1>1, <1>2 DEF ServerInv, PruneOnlyUnaccessed
  <2>3. VictimsOK'
    BY <1>2, <1>4, <1>7 DEF ServerInv, VictimsOK
  <2>4. QED
    BY <2>1, <2>2, <2>3
<1>13. ScannedOK'
  <2>1. \A i \in present \ todo : i \in Items /\ rmap_tree'[i] = rmap_tree[i]
    BY <1>3, <1>5, <1>7 DEF TypeOK
  <2>2. QED
    BY <1>1, <2>1 DEF ServerInv, ScannedOK, InTree
<1>14. ErrorsApply' /\ ErrsOK'
  BY <1>1, <1>5 DEF ErrorsApply, ErrsOK
<1>15. QED
  BY <1>8, <1>9, <1>10, <1>11, <1>12, <1>13, <1>14 DEF ServerInv

-----------------------------------------------------------------------------
(***************************************************************************)
(* The theorems                                                            *)
(***************************************************************************)

\* The invariant holds of the empty server.
LEMMA InitServerInv == Init => ServerInv
<1> SUFFICES ASSUME Init PROVE ServerInv
  OBVIOUS
<1>1. TypeOK
  BY InitTypeOK
<1>2. /\ \A i \in Items : rmap_tree[i] = AbsentItem /\ rmap_tree[i].state = "Absent"
      /\ \A n \in NodeIds : node[n] = FreeNode /\ ~Live(n) /\ node[n].sharing = {}
  BY DEF Init, AbsentItem, FreeNode, Live
<1>3. StructInv
  <2>1. NodesOK /\ SharingConsistent /\ CountsExact /\ HashesAgree
    BY <1>2 DEF NodesOK, SharingConsistent, CountsExact, HashesAgree
  <2>2. TableSound /\ TableComplete
    BY <1>2 DEF Init, TableSound, TableComplete
  <2>3. QED
    BY <2>1, <2>2 DEF StructInv
<1>4. UnstableExact
  BY <1>2 DEF Init, UnstableExact
<1>5. PhaseOK /\ ScannedOK
  BY DEF Init, PhaseOK, ScannedOK
<1>6. LogMatchesMetadata /\ LogOK
  BY DEF Init, LogMatchesMetadata, LogOK
<1>7. ErrorsApply /\ ErrsOK /\ PruneOnlyUnaccessed /\ VictimsOK
  BY DEF Init, ErrorsApply, ErrsOK, PruneOnlyUnaccessed, VictimsOK
<1>8. QED
  BY <1>1, <1>3, <1>4, <1>5, <1>6, <1>7 DEF ServerInv

\* Stuttering keeps the invariant.
LEMMA StutterInv == ServerInv /\ UNCHANGED vars => ServerInv'
<1> SUFFICES ASSUME ServerInv, UNCHANGED vars PROVE ServerInv'
  OBVIOUS
<1> USE DEF vars, scanVars, metaVars
<1>1. TypeOK'
  BY DEF ServerInv, TypeOK
<1>2. StructInv'
  BY DEF ServerInv, StructInv, NodesOK, SharingConsistent, CountsExact, HashesAgree,
         TableSound, TableComplete, Live, Chain
<1>3. UnstableExact' /\ PhaseOK' /\ ScannedOK'
  BY DEF ServerInv, UnstableExact, PhaseOK, ScannedOK, InTree
<1>4. LogMatchesMetadata' /\ LogOK'
  BY DEF ServerInv, LogMatchesMetadata, LogOK, IsMerge
<1>5. ErrorsApply' /\ ErrsOK' /\ PruneOnlyUnaccessed' /\ VictimsOK'
  BY DEF ServerInv, ErrorsApply, ErrsOK, PruneOnlyUnaccessed, VictimsOK
<1>6. QED
  BY <1>1, <1>2, <1>3, <1>4, <1>5 DEF ServerInv

\* Every step of the server keeps the invariant, while the iteration counter
\* fits the short that stamps the items.
LEMMA NextServerInv ==
  ASSUME MaxIteration <= ShortRange \div 2, ServerInv, [Next]_vars
  PROVE  ServerInv'
<1>1. CASE \E S \in SUBSET Items, E \in SUBSET Reportable : RecvMetadata(S, E)
  BY <1>1, RecvMetadataInv
<1>2. CASE HandleError
  BY <1>2, HandleErrorInv
<1>3. CASE \E i \in todo, p \in Pfns, h \in Hashes : lookup_rmap_item(i, p, h)
  BY <1>3, LookupInv
<1>4. CASE cmp_and_merge_one
  BY <1>4, CmpAndMergeInv
<1>5. CASE prune_metadata
  BY <1>5, PruneMetadataInv
<1>6. CASE prune_rmap_tree
  BY <1>6, PruneTreeInv
<1>7. CASE SendResult
  BY <1>7, SendResultInv
<1>8. CASE ConnectionLost
  BY <1>8, ConnectionLostInv
<1>9. CASE UNCHANGED vars
  BY <1>9, StutterInv
<1>10. QED
  BY <1>1, <1>2, <1>3, <1>4, <1>5, <1>6, <1>7, <1>8, <1>9 DEF Next, ServerStep

\* The inductive invariant holds in every reachable state: whatever the host
\* lists, reports and rewrites, items, stable nodes, hash tables, log and error
\* entries stay consistent with each other.
THEOREM ServerInvariant ==
  ASSUME MaxIteration <= ShortRange \div 2
  PROVE  Spec => []ServerInv
<1>1. Init => ServerInv
  BY InitServerInv
<1>2. ServerInv /\ [Next]_vars => ServerInv'
  BY NextServerInv
<1>3. QED
  BY <1>1, <1>2, PTL DEF Spec

\* Every variable keeps its type, counters within their bounds included.
THEOREM TypeCorrect ==
  ASSUME MaxIteration <= ShortRange \div 2
  PROVE  Spec => []TypeOK
<1>1. ServerInv => TypeOK
  BY DEF ServerInv
<1>2. QED
  BY <1>1, ServerInvariant, PTL

\* Items and nodes point at each other, the sharing counts are exact and
\* bounded, and chains, nodes and items agree on their hash.
THEOREM SharingCorrect ==
  ASSUME MaxIteration <= ShortRange \div 2
  PROVE  Spec => [](SharingConsistent /\ CountsExact /\ HashesAgree)
<1>1. ServerInv => SharingConsistent /\ CountsExact /\ HashesAgree
  BY DEF ServerInv, StructInv
<1>2. QED
  BY <1>1, ServerInvariant, PTL

\* The stable hash table holds no freed node and misses none before a re-key
\* has hit an occupied hash.
THEOREM TableCorrect ==
  ASSUME MaxIteration <= ShortRange \div 2
  PROVE  Spec => [](TableSound /\ TableComplete)
<1>1. ServerInv => TableSound /\ TableComplete
  BY DEF ServerInv, StructInv
<1>2. QED
  BY <1>1, ServerInvariant, PTL

\* The unstable table is exact, and empty between iterations.
THEOREM UnstableCorrect ==
  ASSUME MaxIteration <= ShortRange \div 2
  PROVE  Spec => []UnstableExact
<1>1. ServerInv => UnstableExact
  BY DEF ServerInv
<1>2. QED
  BY <1>1, ServerInvariant, PTL

\* Every merge the log asks for is in the metadata when the log is sent, so
\* every failure the host reports finds what it undoes: the stops of
\* do_handle_error are unreachable for the failures apply_result reports.
THEOREM ProtocolCorrect ==
  ASSUME MaxIteration <= ShortRange \div 2
  PROVE  Spec => [](LogMatchesMetadata /\ ErrorsApply)
<1>1. ServerInv => LogMatchesMetadata /\ ErrorsApply
  BY DEF ServerInv
<1>2. QED
  BY <1>1, ServerInvariant, PTL

\* As long as the iteration counter fits a short, pruning never frees an item
\* that the host listed in the iteration (run server_wrap shows the bound is
\* needed).
THEOREM PruneCorrect ==
  ASSUME MaxIteration <= ShortRange \div 2
  PROVE  Spec => []PruneOnlyUnaccessed
<1>1. ServerInv => PruneOnlyUnaccessed
  BY DEF ServerInv
<1>2. QED
  BY <1>1, ServerInvariant, PTL

\* The step part of DemotionIsLogged: only StableMoved takes an item out of
\* its node, and it logs what it does.
LEMMA DemotionStep ==
  ASSUME ServerInv, cmp_and_merge_one, NEW i \in Items, rmap_tree[i].state = "Stable",
         rmap_tree'[i].stable_node # rmap_tree[i].stable_node
  PROVE  /\ Len(log') = Len(log) + 1
         /\ log'[Len(log')].from = i
         /\ log'[Len(log')].kpfn = node[rmap_tree[i].stable_node].pfn
         /\ (log'[Len(log')].type = "STALE_STABLE_NODE")
              <=> (node'[rmap_tree[i].stable_node].chain = NoNode)
<1> DEFINE x == page.item
           n == rmap_tree[i].stable_node
<1>1. TypeOK /\ StructInv
  BY DEF ServerInv
<1>2. /\ rmap_tree \in [Items -> ItemRec] /\ node \in [NodeIds -> NodeRec]
      /\ log \in Seq(LogRec)
  BY <1>1 DEF TypeOK
<1>3. CASE StableMoved
  <2>1. /\ x \in Items /\ LeaveNode(x) /\ log' = DemotionLog(x)
        /\ rmap_tree' = [rmap_tree EXCEPT ![x] = reset_item_state(rmap_tree[x])]
        /\ rmap_tree[x].state = "Stable"
    <3>1. PageInHand("Stable")
      BY <1>3 DEF StableMoved
    <3>2. x \in Items /\ rmap_tree[x].state = "Stable"
      BY <3>1, InHand
    <3>3. QED
      BY <1>3, <3>2 DEF StableMoved
  <2>2. i = x
    BY <1>2, <2>1
  <2>3. n \in NodeIds /\ Live(n) /\ node[n] \in NodeRec /\ node[n].shared_cnt \in Int
    <3>1. n \in NodeIds /\ Live(n)
      BY <1>1, NodeOfStable
    <3>2. node[n] \in NodeRec
      BY <1>2, <3>1
    <3>3. QED
      BY <3>1, <3>2 DEF NodeRec
  <2> DEFINE r == IF IsLastItem(x) THEN log_stale_node(x) ELSE log_item_state_change(x)
             nd == remove_item_from_node(node, n, i)
  <2>4. r \in LogRec
    BY <1>1, <2>1, DemotionType
  <2>5. /\ r.from = i /\ r.kpfn = node[n].pfn
        /\ r.type = "STALE_STABLE_NODE" <=> node[n].shared_cnt = 1
    BY <2>2 DEF IsLastItem, log_stale_node, log_item_state_change
  <2>6. log' = Append(log, r)
    BY <2>1 DEF DemotionLog
  <2> HIDE DEF r
  <2>7. Len(log') = Len(log) + 1 /\ log'[Len(log')] = r
    BY <1>2, <2>4, <2>6
  <2>8. nd[n].shared_cnt = node[n].shared_cnt - 1 /\ nd[n].chain = node[n].chain
        /\ nd \in [NodeIds -> NodeRec]
    <3>1. nd[n] = [node[n] EXCEPT !.shared_cnt = node[n].shared_cnt - 1,
                                  !.sharing = node[n].sharing \ {i}]
      BY <1>2, <2>3 DEF remove_item_from_node
    <3>2. nd \in [NodeIds -> NodeRec]
      BY <1>2, <2>3, NodeOpsType
    <3> HIDE DEF nd, n
    <3>3. QED
      BY <2>3, <3>1, <3>2 DEF NodeRec
  <2>9. node' = IF nd[n].shared_cnt = 0 THEN [nd EXCEPT ![n] = FreeNode] ELSE nd
    BY <2>1, <2>2 DEF LeaveNode
  <2>10. node'[n].chain = NoNode <=> node[n].shared_cnt = 1
    <3> HIDE DEF nd, n
    <3>1. CASE nd[n].shared_cnt = 0
      <4>1. node'[n] = FreeNode
        BY <2>3, <2>8, <2>9, <3>1
      <4>2. QED
        BY <2>3, <2>8, <3>1, <4>1 DEF FreeNode
    <3>2. CASE nd[n].shared_cnt # 0
      BY <2>3, <2>8, <2>9, <3>2 DEF Live
    <3>3. QED
      BY <3>1, <3>2
  <2>11. QED
    BY <2>5, <2>7, <2>10
<1>4. ASSUME ~StableMoved
      PROVE  rmap_tree'[i].stable_node = rmap_tree[i].stable_node
  <2>1. CASE StableKept \/ VolatileSkipped
    BY <2>1 DEF StableKept, VolatileSkipped, metaVars
  <2>2. CASE StableRekeyed
    <3>1. rmap_tree'[i] = rmap_tree[i] \/ rmap_tree'[i] = [rmap_tree[i] EXCEPT !.old_hash = page.hash]
      BY <2>2 DEF StableRekeyed
    <3>2. rmap_tree[i] \in ItemRec
      BY <1>2
    <3>3. QED
      BY <3>1, <3>2 DEF ItemRec
  <2>3. CASE MergeWithStable
    <3>1. x \in Items /\ rmap_tree[x].state = "Volatile"
      BY <2>3, InHand DEF MergeWithStable
    <3>2. i # x
      BY <3>1
    <3>3. \A j \in Items : j # x => rmap_tree'[j] = rmap_tree[j]
      BY <1>2, <2>3 DEF MergeWithStable
    <3>4. QED
      BY <3>2, <3>3
  <2>4. CASE MergeWithUnstable
    <3> DEFINE j == unstable_hash_table[page.hash]
    <3>1. x \in Items /\ rmap_tree[x].state = "Volatile" /\ page.hash \in Hashes
      BY <2>4, InHand DEF MergeWithUnstable
    <3>2. j # NoItem
      BY <2>4 DEF MergeWithUnstable
    <3>3. rmap_tree[j].state = "Unstable"
      BY <3>1, <3>2 DEF ServerInv, UnstableExact
    <3>4. i # x /\ i # j
      BY <3>1, <3>3
    <3>5. \A k \in Items : (k # x /\ k # j) => rmap_tree'[k] = rmap_tree[k]
      BY <1>2, <2>4 DEF MergeWithUnstable
    <3>6. QED
      BY <3>4, <3>5
  <2>5. CASE InsertUnstable \/ VolatileChanged
    <3>1. x \in Items /\ rmap_tree[x].state = "Volatile"
      BY <2>5, InHand DEF InsertUnstable, VolatileChanged
    <3>2. i # x
      BY <3>1
    <3>3. \A j \in Items : j # x => rmap_tree'[j] = rmap_tree[j]
      BY <1>2, <2>5 DEF InsertUnstable, VolatileChanged
    <3>4. QED
      BY <3>2, <3>3
  <2>6. QED
    BY <1>4, <2>1, <2>2, <2>3, <2>4, <2>5 DEF cmp_and_merge_one
<1>5. QED
  BY <1>3, <1>4

\* A scan that takes an item out of its stable node logs it, as a stale node
\* exactly when the node goes with it.
THEOREM DemotionCorrect ==
  ASSUME MaxIteration <= ShortRange \div 2
  PROVE  Spec => DemotionIsLogged
<1>1. ServerInv /\ [Next]_vars =>
        [\A i \in Items :
           (cmp_and_merge_one /\ rmap_tree[i].state = "Stable"
              /\ rmap_tree'[i].stable_node # rmap_tree[i].stable_node)
             => /\ Len(log') = Len(log) + 1
                /\ log'[Len(log')].from = i
                /\ log'[Len(log')].kpfn = node[rmap_tree[i].stable_node].pfn
                /\ (log'[Len(log')].type = "STALE_STABLE_NODE")
                     <=> (node'[rmap_tree[i].stable_node].chain = NoNode)]_vars
  BY DemotionStep
<1>2. QED
  BY <1>1, ServerInvariant, PTL DEF Spec, DemotionIsLogged

=============================================================================
