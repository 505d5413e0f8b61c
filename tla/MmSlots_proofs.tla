--------------------------- MODULE MmSlots_proofs ---------------------------
(***************************************************************************)
(* The invariants of MmSlots, for every number of address spaces and of    *)
(* slots.  The local scan and the unmerge walk never hold a slot that was  *)
(* freed and free only slots nobody needs.  Up to the first time a process *)
(* meets one of the windows prepare_metadata leaves open, the list is one  *)
(* ring of the hashed slots, every slot holds its mm once, the flag tells  *)
(* who is on the list, and no walk is in page tables that are gone.        *)
(*                                                                         *)
(* None of these is inductive by itself.  SlotsInv adds who may hold a     *)
(* slot that is off the list but not freed (Limbo), which mms have a slot  *)
(* (Flags, OneSlot), where the cursor of each walk may be (Held), and what *)
(* the walk that takes a slot off knows about its mm (Unneeded).           *)
(***************************************************************************)
EXTENDS MmSlots, FiniteSetTheorems, TLAPS

On == hashed \cup {Head}

\* n and p link the nodes of S, the head among them, to one ring.
Ring(n, p, S) ==
  /\ Head \in S
  /\ \A s \in S : n[s] \in S /\ p[s] \in S /\ p[n[s]] = s /\ n[p[s]] = s
  /\ \A T \in SUBSET S : (Head \in T /\ \A s \in T : n[s] \in T) => T = S

\* Between the stores of prepare_metadata's list_del the ring already exists
\* in prv, and in nxt but for one pointer.
LinkNxt == IF pc = "odel2" THEN [nxt EXCEPT ![prv[cur]] = nxt[cur]] ELSE nxt

RingOK ==
  /\ Ring(LinkNxt, prv, On)
  /\ pc = "odel2" => prv[cur] \in On /\ nxt[cur] \in On

\* Slots are handed out in order; a hashed slot is not freed.
Alloc ==
  /\ Cardinality(DOMAIN owner) \in 0 .. MaxSlots
  /\ DOMAIN owner = 1 .. Cardinality(DOMAIN owner)
  /\ hashed \subseteq DOMAIN owner /\ freed \subseteq DOMAIN owner
  /\ hashed \cap freed = {}

\* A slot that is not freed is the last one its mm got.
OneSlot ==
  \A s, t \in DOMAIN owner : (owner[s] = owner[t] /\ s \notin freed) => t <= s

HasSlot(m) == \E s \in DOMAIN owner \ freed : owner[s] = m

\* The flag, the reference and the slot come and go together, except inside
\* __ksm_enter.
Flags ==
  \A m \in Mms :
    /\ HasSlot(m) <=> (m \in flag \/ proc[m] = "grab")
    /\ proc[m] = "grab" => m \notin flag
    /\ refs[m] = IF m \in flag THEN 1 ELSE 0

Freeing == {"free", "ufree", "odel2", "ofree"}

\* A slot that is off the list and not yet freed has exactly one owner: its
\* process, in __ksm_exit, or the walk that took it off.
Limbo ==
  /\ \A s \in DOMAIN owner \ (freed \cup hashed) :
       proc[owner[s]] = "free" \/ (pc \in Freeing /\ cur = s)
  /\ \A m \in Mms : proc[m] = "free" => m \in flag /\ SlotOf(m) = {}
  /\ pc \in Freeing => /\ cur \in DOMAIN owner \ (freed \cup hashed)
                       /\ proc[owner[cur]] # "free"

AtCursor == {"walk", "done", "uwalk", "unext", "olock", "owalk", "otrail", "odel1"}
Offloading == {"oenter", "olock", "owalk", "otrail", "odel1", "odel2", "ofree", "onext"}

\* Where the cursor, the slot in hand and the saved next one may point.
Held ==
  /\ pc \in {"idle", "free", "ufree"} => cursor \in On
  /\ pc \in {"lock", "ulock"} => cursor \in hashed
  /\ pc \in AtCursor => cursor = cur /\ cur \in hashed
  /\ pc \in {"odel2", "ofree"} => cursor = cur
  /\ pc = "oenter" => cur \in hashed
  /\ pc \in {"oenter", "onext", "oend"} => cursor \in On \cup freed
  /\ pc \in Offloading => next \in On /\ next # cur

\* No walk has a slot in hand whose process is inside __ksm_enter, and a walk
\* through page tables keeps the process from freeing them.
Locked ==
  /\ pc \in (AtCursor \ {"olock"}) \cup Freeing => proc[owner[cur]] # "grab"
  /\ pc \in {"walk", "uwalk", "owalk"} => proc[owner[cur]] \in {"run", "exit", "sync"}

\* What the walk that takes a slot off has found out about its mm.
Unneeded ==
  LET m == owner[cur]
  IN  /\ pc = "done" /\ pos = "start" => ksm_test_exit(m) \/ area[m] = "none"
      /\ pc = "free" => ksm_test_exit(m) \/ area[m] = "none"
      /\ pc = "ufree" => ksm_test_exit(m)

\* The inductive invariant, up to a race.
Sound ==
  /\ RingOK /\ Alloc /\ OneSlot /\ Flags /\ Limbo /\ Held /\ Locked /\ Unneeded

\* A race happens only while prepare_metadata's walk is under way.
SlotsInv == SlotsTypeOK /\ (~raced => Sound) /\ (raced => pc \in Offloading \cup {"oend"})

-----------------------------------------------------------------------------
(* Rings.                                                                  *)

\* A node of a ring other than the head is not its own neighbour.
LEMMA NoSelf ==
  ASSUME NEW n, NEW p, NEW S, Ring(n, p, S), NEW s \in S, s # Head
  PROVE  n[s] # s /\ p[s] # s
<1>1. ASSUME n[s] = s \/ p[s] = s PROVE FALSE
  <2>1. n[s] = s /\ p[s] = s
    BY <1>1 DEF Ring
  <2>2. \A t \in S \ {s} : n[t] \in S \ {s}
    BY <2>1 DEF Ring
  <2>3. S \ {s} = S
    BY <2>2 DEF Ring
  <2>4. QED
    BY <2>3
<1>2. QED
  BY <1>1

\* list_del: what is left is a ring.
LEMMA RingRemove ==
  ASSUME NEW n, NEW p, NEW S, Ring(n, p, S), NEW s \in S, s # Head, NEW n1, NEW p1,
         \A t \in S \ {s} : n1[t] = IF t = p[s] THEN n[s] ELSE n[t],
         \A t \in S \ {s} : p1[t] = IF t = n[s] THEN p[s] ELSE p[t]
  PROVE  Ring(n1, p1, S \ {s})
<1>1. n[s] # s /\ p[s] # s
  BY NoSelf
<1>2. Head \in S \ {s}
  BY DEF Ring
<1>3. \A t \in S \ {s} : /\ n1[t] \in S \ {s} /\ p1[t] \in S \ {s}
                         /\ p1[n1[t]] = t /\ n1[p1[t]] = t
  BY <1>1 DEF Ring
<1>4. ASSUME NEW T \in SUBSET (S \ {s}), Head \in T, \A t \in T : n1[t] \in T
      PROVE  T = S \ {s}
  <2>1. CASE p[s] \in T
    <3>1. n[s] \in T
      BY <1>1, <1>4, <2>1 DEF Ring
    <3>2. \A t \in T \cup {s} : n[t] \in T \cup {s}
      BY <1>4, <3>1 DEF Ring
    <3>3. T \cup {s} \in SUBSET S /\ Head \in T \cup {s}
      BY <1>4
    <3>4. T \cup {s} = S
      BY <3>2, <3>3 DEF Ring
    <3>5. QED
      BY <3>4, <1>4
  <2>2. CASE p[s] \notin T
    <3>1. \A t \in T : n[t] \in T
      BY <1>4, <2>2
    <3>2. T = S
      BY <1>4, <3>1 DEF Ring
    <3>3. QED
      BY <3>2, <1>4
  <2>3. QED
    BY <2>1, <2>2
<1>5. QED
  BY <1>2, <1>3, <1>4 DEF Ring

\* list_add_tail: a node put before another one joins the ring.
LEMMA RingAdd ==
  ASSUME NEW n, NEW p, NEW S, Ring(n, p, S), NEW at \in S, NEW s, s \notin S, NEW n1, NEW p1,
         \A t \in S : n1[t] = IF t = p[at] THEN s ELSE n[t],
         \A t \in S : p1[t] = IF t = at THEN s ELSE p[t],
         n1[s] = at, p1[s] = p[at]
  PROVE  Ring(n1, p1, S \cup {s})
<1>1. Head \in S \cup {s}
  BY DEF Ring
<1>2. \A t \in S : /\ n1[t] \in S \cup {s} /\ p1[t] \in S \cup {s}
                  /\ p1[n1[t]] = t /\ n1[p1[t]] = t
  BY DEF Ring
<1>3. \A t \in S \cup {s} : /\ n1[t] \in S \cup {s} /\ p1[t] \in S \cup {s}
                           /\ p1[n1[t]] = t /\ n1[p1[t]] = t
  BY <1>2 DEF Ring
<1>4. ASSUME NEW T \in SUBSET (S \cup {s}), Head \in T, \A t \in T : n1[t] \in T
      PROVE  T = S \cup {s}
  <2>1. ASSUME NEW t \in T \ {s} PROVE n[t] \in T \ {s}
    <3>1. CASE t = p[at]
      BY <1>4, <3>1 DEF Ring
    <3>2. CASE t # p[at]
      BY <1>4, <3>2 DEF Ring
    <3>3. QED
      BY <3>1, <3>2
  <2>2. T \ {s} = S
    BY <1>4, <2>1 DEF Ring
  <2>3. s \in T
    BY <1>4, <2>2 DEF Ring
  <2>4. QED
    BY <2>2, <2>3, <1>4
<1>5. QED
  BY <1>1, <1>3, <1>4 DEF Ring

-----------------------------------------------------------------------------
(* What a walk has in hand.                                                *)

\* The slot in hand and the slots of the list are allocated slots of some mm.
InHand ==
  /\ pc \in AtCursor \cup Freeing \cup {"oenter"} =>
       /\ cur \in DOMAIN owner \ freed /\ owner[cur] \in Mms /\ HasSlot(owner[cur])
  /\ \A s \in hashed : s \in DOMAIN owner \ freed /\ owner[s] \in Mms /\ HasSlot(owner[s])
                       /\ s # Head /\ s \in Nodes
  /\ Head \in Nodes

\* The slot a walk has in hand, and every hashed slot, is allocated and not freed.
LEMMA InHandHolds ==
  ASSUME SlotsTypeOK, Sound
  PROVE  InHand
<1>1. \A s \in DOMAIN owner \ freed : owner[s] \in Mms /\ HasSlot(owner[s])
  BY DEF SlotsTypeOK, HasSlot
<1>2. hashed \subseteq DOMAIN owner \ freed
  BY DEF Sound, Alloc
<1>3. pc \in AtCursor \cup Freeing \cup {"oenter"} => cur \in DOMAIN owner \ freed
  BY <1>2 DEF Sound, Held, Limbo, AtCursor, Freeing
<1>4. \A s \in hashed : s # Head /\ s \in Nodes
  BY SlotsAssumption DEF SlotsTypeOK, Slots, Nodes, Head
<1>5. QED
  BY <1>1, <1>2, <1>3, <1>4 DEF InHand, Nodes

-----------------------------------------------------------------------------
(* Processes.                                                              *)

\* The rest of __ksm_enter keeps the invariant: the flag and the reference come together.
LEMMA EnterGrabKeeps ==
  ASSUME SlotsTypeOK, Sound, ~raced, NEW m \in Mms, EnterGrab(m)
  PROVE  SlotsTypeOK' /\ Sound'
<1> USE DEF EnterGrab, InHand, listVars, procVars, runVars, ksmdVars
<1>hand. InHand
  BY InHandHolds
<1>type. SlotsTypeOK'
  BY <1>hand DEF SlotsTypeOK
<1>ring. RingOK'
  BY DEF Sound, RingOK, LinkNxt, On, Ring, Head
<1>alloc. Alloc' /\ OneSlot'
  BY DEF Sound, Alloc, OneSlot
<1>flags. Flags'
  BY DEF Sound, SlotsTypeOK, Flags, HasSlot
<1>limbo. Limbo'
  BY <1>hand DEF Sound, SlotsTypeOK, Flags, Limbo, SlotOf, Freeing
<1>held. Held'
  BY <1>hand DEF Sound, Held, On, AtCursor, Offloading
<1>locked. Locked'
  BY <1>hand DEF Sound, SlotsTypeOK, Locked, Held, AtCursor, Freeing
<1>unneeded. Unneeded'
  BY <1>hand DEF Sound, SlotsTypeOK, Unneeded, Locked, AtCursor, Freeing, ksm_test_exit
<1>qed. QED
  BY <1>type, <1>ring, <1>alloc, <1>flags, <1>limbo, <1>held, <1>locked, <1>unneeded DEF Sound

\* So does a process that uses or unmaps its area: unmapping waits for the walk.
LEMMA UseAreaKeeps ==
  ASSUME SlotsTypeOK, Sound, ~raced, NEW m \in Mms, UseArea(m)
  PROVE  SlotsTypeOK' /\ Sound'
<1> USE DEF UseArea, Reading, InHand, listVars, procVars, runVars, ksmdVars
<1>hand. InHand
  BY InHandHolds
<1>type. SlotsTypeOK'
  BY <1>hand DEF SlotsTypeOK
<1>ring. RingOK'
  BY DEF Sound, RingOK, LinkNxt, On, Ring, Head
<1>alloc. Alloc' /\ OneSlot'
  BY DEF Sound, Alloc, OneSlot
<1>flags. Flags'
  BY DEF Sound, SlotsTypeOK, Flags, HasSlot
<1>limbo. Limbo'
  BY <1>hand DEF Sound, SlotsTypeOK, Flags, Limbo, SlotOf, Freeing
<1>held. Held'
  BY <1>hand DEF Sound, Held, On, AtCursor, Offloading
<1>locked. Locked'
  BY <1>hand DEF Sound, SlotsTypeOK, Locked, Held, AtCursor, Freeing
<1>unneeded. Unneeded'
  BY <1>hand DEF Sound, SlotsTypeOK, Unneeded, Locked, AtCursor, Freeing, ksm_test_exit
<1>qed. QED
  BY <1>type, <1>ring, <1>alloc, <1>flags, <1>limbo, <1>held, <1>locked, <1>unneeded DEF Sound

\* So does the start of an exit.
LEMMA ExitKeeps ==
  ASSUME SlotsTypeOK, Sound, ~raced, NEW m \in Mms, Exit(m)
  PROVE  SlotsTypeOK' /\ Sound'
<1> USE DEF Exit, InHand, listVars, procVars, runVars, ksmdVars
<1>hand. InHand
  BY InHandHolds
<1>type. SlotsTypeOK'
  BY <1>hand DEF SlotsTypeOK
<1>ring. RingOK'
  BY DEF Sound, RingOK, LinkNxt, On, Ring, Head
<1>alloc. Alloc' /\ OneSlot'
  BY DEF Sound, Alloc, OneSlot
<1>flags. Flags'
  BY DEF Sound, SlotsTypeOK, Flags, HasSlot
<1>limbo. Limbo'
  BY <1>hand DEF Sound, SlotsTypeOK, Flags, Limbo, SlotOf, Freeing
<1>held. Held'
  BY <1>hand DEF Sound, Held, On, AtCursor, Offloading
<1>locked. Locked'
  BY <1>hand DEF Sound, SlotsTypeOK, Locked, Held, AtCursor, Freeing
<1>unneeded. Unneeded'
  BY <1>hand DEF Sound, SlotsTypeOK, Unneeded, Locked, AtCursor, Freeing, ksm_test_exit
<1>qed. QED
  BY <1>type, <1>ring, <1>alloc, <1>flags, <1>limbo, <1>held, <1>locked, <1>unneeded DEF Sound

\* So does the end of an exit that waited for the walk in its page tables.
LEMMA ExitSyncKeeps ==
  ASSUME SlotsTypeOK, Sound, ~raced, NEW m \in Mms, ExitSync(m)
  PROVE  SlotsTypeOK' /\ Sound'
<1> USE DEF ExitSync, Reading, Gone, InHand, listVars, procVars, runVars, ksmdVars
<1>hand. InHand
  BY InHandHolds
<1>type. SlotsTypeOK'
  BY <1>hand DEF SlotsTypeOK
<1>ring. RingOK'
  BY DEF Sound, RingOK, LinkNxt, On, Ring, Head
<1>alloc. Alloc' /\ OneSlot'
  BY DEF Sound, Alloc, OneSlot
<1>flags. Flags'
  BY DEF Sound, SlotsTypeOK, Flags, HasSlot
<1>limbo. Limbo'
  BY <1>hand DEF Sound, SlotsTypeOK, Flags, Limbo, SlotOf, Freeing
<1>held. Held'
  BY <1>hand DEF Sound, Held, On, AtCursor, Offloading
<1>locked. Locked'
  BY <1>hand DEF Sound, SlotsTypeOK, Locked, Held, AtCursor, Freeing
<1>unneeded. Unneeded'
  BY <1>hand DEF Sound, SlotsTypeOK, Unneeded, Locked, AtCursor, Freeing, ksm_test_exit
<1>qed. QED
  BY <1>type, <1>ring, <1>alloc, <1>flags, <1>limbo, <1>held, <1>locked, <1>unneeded DEF Sound

-----------------------------------------------------------------------------
(* Steps of a walk that leave the list alone.                              *)

\* ScanStart: the cursor moves from the head to the first slot.
LEMMA ScanStartKeeps ==
  ASSUME SlotsTypeOK, Sound, ~raced, ScanStart
  PROVE  SlotsTypeOK' /\ Sound'
<1> USE DEF ScanStart, Loop, listVars, procVars, runVars, ksmdVars, InHand
<1>hand. InHand
  BY InHandHolds
<1>first. nxt[Head] \in On
  BY DEF Sound, RingOK, Ring, LinkNxt
<1>type. SlotsTypeOK'
  BY <1>hand, <1>first DEF SlotsTypeOK, On
<1>ring. RingOK'
  BY DEF Sound, RingOK, LinkNxt, On, Ring, Head
<1>alloc. Alloc' /\ OneSlot'
  BY DEF Sound, Alloc, OneSlot
<1>flags. Flags'
  BY DEF Sound, SlotsTypeOK, Flags, HasSlot
<1>limbo. Limbo'
  BY <1>hand DEF Sound, SlotsTypeOK, Flags, Limbo, SlotOf, Freeing
<1>held. Held'
  BY <1>hand, <1>first DEF Sound, Held, On, AtCursor, Offloading
<1>locked. Locked'
  BY <1>hand DEF Sound, SlotsTypeOK, Locked, Held, AtCursor, Freeing
<1>unneeded. Unneeded'
  BY <1>hand DEF Sound, SlotsTypeOK, Unneeded, Locked, AtCursor, Freeing, ksm_test_exit
<1>qed. QED
  BY <1>type, <1>ring, <1>alloc, <1>flags, <1>limbo, <1>held, <1>locked, <1>unneeded DEF Sound

\* ScanLock: the cursor is on the list, and its process is not inside __ksm_enter.
LEMMA ScanLockKeeps ==
  ASSUME SlotsTypeOK, Sound, ~raced, ScanLock
  PROVE  SlotsTypeOK' /\ Sound'
<1> USE DEF ScanLock, Writing, listVars, procVars, runVars, ksmdVars, InHand
<1>hand. InHand
  BY InHandHolds
<1>type. SlotsTypeOK'
  BY <1>hand DEF SlotsTypeOK
<1>ring. RingOK'
  BY DEF Sound, RingOK, LinkNxt, On, Ring, Head
<1>alloc. Alloc' /\ OneSlot'
  BY DEF Sound, Alloc, OneSlot
<1>flags. Flags'
  BY DEF Sound, SlotsTypeOK, Flags, HasSlot
<1>limbo. Limbo'
  BY <1>hand DEF Sound, SlotsTypeOK, Flags, Limbo, SlotOf, Freeing
<1>held. Held'
  BY <1>hand DEF Sound, Held, On, AtCursor, Offloading
<1>locked. Locked'
  BY <1>hand DEF Sound, SlotsTypeOK, Locked, Held, AtCursor, Freeing, ksm_test_exit
<1>unneeded. Unneeded'
  BY <1>hand DEF Sound, SlotsTypeOK, Unneeded, Locked, AtCursor, Freeing, ksm_test_exit
<1>qed. QED
  BY <1>type, <1>ring, <1>alloc, <1>flags, <1>limbo, <1>held, <1>locked, <1>unneeded DEF Sound

\* ScanItem.
LEMMA ScanItemKeeps ==
  ASSUME SlotsTypeOK, Sound, ~raced, ScanItem
  PROVE  SlotsTypeOK' /\ Sound'
<1> USE DEF ScanItem, listVars, procVars, runVars, ksmdVars, InHand
<1>hand. InHand
  BY InHandHolds
<1>type. SlotsTypeOK'
  BY <1>hand DEF SlotsTypeOK, Sound, Held, AtCursor
<1>ring. RingOK'
  BY DEF Sound, RingOK, LinkNxt, On, Ring, Head
<1>alloc. Alloc' /\ OneSlot'
  BY DEF Sound, Alloc, OneSlot
<1>flags. Flags'
  BY DEF Sound, SlotsTypeOK, Flags, HasSlot
<1>limbo. Limbo'
  BY <1>hand DEF Sound, SlotsTypeOK, Flags, Limbo, SlotOf, Freeing
<1>held. Held'
  BY <1>hand DEF Sound, Held, On, AtCursor, Offloading
<1>locked. Locked'
  BY <1>hand DEF Sound, SlotsTypeOK, Locked, Held, AtCursor, Freeing
<1>unneeded. Unneeded'
  BY <1>hand DEF Sound, SlotsTypeOK, Unneeded, Locked, AtCursor, Freeing, ksm_test_exit
<1>qed. QED
  BY <1>type, <1>ring, <1>alloc, <1>flags, <1>limbo, <1>held, <1>locked, <1>unneeded DEF Sound

\* ScanPast: address 0 at the end of the walk means no area.
LEMMA ScanPastKeeps ==
  ASSUME SlotsTypeOK, Sound, ~raced, ScanPast
  PROVE  SlotsTypeOK' /\ Sound'
<1> USE DEF ScanPast, listVars, procVars, runVars, ksmdVars, InHand
<1>hand. InHand
  BY InHandHolds
<1>type. SlotsTypeOK'
  BY <1>hand DEF SlotsTypeOK
<1>ring. RingOK'
  BY DEF Sound, RingOK, LinkNxt, On, Ring, Head
<1>alloc. Alloc' /\ OneSlot'
  BY DEF Sound, Alloc, OneSlot
<1>flags. Flags'
  BY DEF Sound, SlotsTypeOK, Flags, HasSlot
<1>limbo. Limbo'
  BY <1>hand DEF Sound, SlotsTypeOK, Flags, Limbo, SlotOf, Freeing
<1>held. Held'
  BY <1>hand DEF Sound, Held, On, AtCursor, Offloading
<1>locked. Locked'
  BY <1>hand DEF Sound, SlotsTypeOK, Locked, Held, AtCursor, Freeing
<1>unneeded. Unneeded'
  BY <1>hand DEF Sound, SlotsTypeOK, Unneeded, Locked, AtCursor, Freeing, ksm_test_exit
<1>qed. QED
  BY <1>type, <1>ring, <1>alloc, <1>flags, <1>limbo, <1>held, <1>locked, <1>unneeded DEF Sound

\* run_store.
LEMMA RunStoreKeeps ==
  ASSUME SlotsTypeOK, Sound, ~raced, run_store
  PROVE  SlotsTypeOK' /\ Sound'
<1> USE DEF run_store, ULoop, listVars, procVars, runVars, ksmdVars, InHand
<1>hand. InHand
  BY InHandHolds
<1>first. nxt[Head] \in On
  BY DEF Sound, RingOK, Ring, LinkNxt
<1>type. SlotsTypeOK'
  BY <1>hand, <1>first DEF SlotsTypeOK, On
<1>ring. RingOK'
  BY DEF Sound, RingOK, LinkNxt, On, Ring, Head
<1>alloc. Alloc' /\ OneSlot'
  BY DEF Sound, Alloc, OneSlot
<1>flags. Flags'
  BY DEF Sound, SlotsTypeOK, Flags, HasSlot
<1>limbo. Limbo'
  BY <1>hand DEF Sound, SlotsTypeOK, Flags, Limbo, SlotOf, Freeing
<1>held. Held'
  BY <1>hand, <1>first DEF Sound, Held, On, AtCursor, Offloading
<1>locked. Locked'
  BY <1>hand DEF Sound, SlotsTypeOK, Locked, Held, AtCursor, Freeing
<1>unneeded. Unneeded'
  BY <1>hand DEF Sound, SlotsTypeOK, Unneeded, Locked, AtCursor, Freeing, ksm_test_exit
<1>qed. QED
  BY <1>type, <1>ring, <1>alloc, <1>flags, <1>limbo, <1>held, <1>locked, <1>unneeded DEF Sound

\* UnmergeLock.
LEMMA UnmergeLockKeeps ==
  ASSUME SlotsTypeOK, Sound, ~raced, UnmergeLock
  PROVE  SlotsTypeOK' /\ Sound'
<1> USE DEF UnmergeLock, Writing, listVars, procVars, runVars, ksmdVars, InHand
<1>hand. InHand
  BY InHandHolds
<1>type. SlotsTypeOK'
  BY <1>hand DEF SlotsTypeOK
<1>ring. RingOK'
  BY DEF Sound, RingOK, LinkNxt, On, Ring, Head
<1>alloc. Alloc' /\ OneSlot'
  BY DEF Sound, Alloc, OneSlot
<1>flags. Flags'
  BY DEF Sound, SlotsTypeOK, Flags, HasSlot
<1>limbo. Limbo'
  BY <1>hand DEF Sound, SlotsTypeOK, Flags, Limbo, SlotOf, Freeing
<1>held. Held'
  BY <1>hand DEF Sound, Held, On, AtCursor, Offloading
<1>locked. Locked'
  BY <1>hand DEF Sound, SlotsTypeOK, Locked, Held, AtCursor, Freeing, ksm_test_exit
<1>unneeded. Unneeded'
  BY <1>hand DEF Sound, SlotsTypeOK, Unneeded, Locked, AtCursor, Freeing, ksm_test_exit
<1>qed. QED
  BY <1>type, <1>ring, <1>alloc, <1>flags, <1>limbo, <1>held, <1>locked, <1>unneeded DEF Sound

\* UnmergeWalk.
LEMMA UnmergeWalkKeeps ==
  ASSUME SlotsTypeOK, Sound, ~raced, UnmergeWalk
  PROVE  SlotsTypeOK' /\ Sound'
<1> USE DEF UnmergeWalk, listVars, procVars, runVars, ksmdVars, InHand
<1>hand. InHand
  BY InHandHolds
<1>type. SlotsTypeOK'
  BY <1>hand DEF SlotsTypeOK
<1>ring. RingOK'
  BY DEF Sound, RingOK, LinkNxt, On, Ring, Head
<1>alloc. Alloc' /\ OneSlot'
  BY DEF Sound, Alloc, OneSlot
<1>flags. Flags'
  BY DEF Sound, SlotsTypeOK, Flags, HasSlot
<1>limbo. Limbo'
  BY <1>hand DEF Sound, SlotsTypeOK, Flags, Limbo, SlotOf, Freeing
<1>held. Held'
  BY <1>hand DEF Sound, Held, On, AtCursor, Offloading
<1>locked. Locked'
  BY <1>hand DEF Sound, SlotsTypeOK, Locked, Held, AtCursor, Freeing
<1>unneeded. Unneeded'
  BY <1>hand DEF Sound, SlotsTypeOK, Unneeded, Locked, AtCursor, Freeing, ksm_test_exit
<1>qed. QED
  BY <1>type, <1>ring, <1>alloc, <1>flags, <1>limbo, <1>held, <1>locked, <1>unneeded DEF Sound

\* OffloadStart: the saved next is not the slot in hand.
LEMMA OffloadStartKeeps ==
  ASSUME SlotsTypeOK, Sound, ~raced, OffloadStart
  PROVE  SlotsTypeOK' /\ Sound'
<1> USE DEF OffloadStart, listVars, procVars, runVars, ksmdVars, InHand
<1>hand. InHand
  BY InHandHolds
<1>ok. Ring(nxt, prv, On)
  BY DEF Sound, RingOK, LinkNxt
<1>first. nxt[Head] \in hashed
  BY <1>ok DEF Ring, On
<1>second. nxt[nxt[Head]] \in On /\ nxt[nxt[Head]] # nxt[Head]
  BY <1>hand, <1>ok, <1>first, NoSelf DEF Ring, On
<1>type. SlotsTypeOK'
  BY <1>hand, <1>first, <1>second DEF SlotsTypeOK, On
<1>ring. RingOK'
  BY DEF Sound, RingOK, LinkNxt, On, Ring, Head
<1>alloc. Alloc' /\ OneSlot'
  BY DEF Sound, Alloc, OneSlot
<1>flags. Flags'
  BY DEF Sound, SlotsTypeOK, Flags, HasSlot
<1>limbo. Limbo'
  BY <1>hand DEF Sound, SlotsTypeOK, Flags, Limbo, SlotOf, Freeing
<1>held. Held'
  BY <1>hand, <1>first, <1>second DEF Sound, Held, On, AtCursor, Offloading
<1>locked. Locked'
  BY <1>hand DEF Sound, SlotsTypeOK, Locked, Held, AtCursor, Freeing
<1>unneeded. Unneeded'
  BY <1>hand DEF Sound, SlotsTypeOK, Unneeded, Locked, AtCursor, Freeing, ksm_test_exit
<1>qed. QED
  BY <1>type, <1>ring, <1>alloc, <1>flags, <1>limbo, <1>held, <1>locked, <1>unneeded DEF Sound

\* OffloadEnter.
LEMMA OffloadEnterKeeps ==
  ASSUME SlotsTypeOK, Sound, ~raced, OffloadEnter
  PROVE  SlotsTypeOK' /\ Sound'
<1> USE DEF OffloadEnter, listVars, procVars, runVars, ksmdVars, InHand
<1>hand. InHand
  BY InHandHolds
<1>type. SlotsTypeOK'
  BY <1>hand DEF SlotsTypeOK
<1>ring. RingOK'
  BY DEF Sound, RingOK, LinkNxt, On, Ring, Head
<1>alloc. Alloc' /\ OneSlot'
  BY DEF Sound, Alloc, OneSlot
<1>flags. Flags'
  BY DEF Sound, SlotsTypeOK, Flags, HasSlot
<1>limbo. Limbo'
  BY <1>hand DEF Sound, SlotsTypeOK, Flags, Limbo, SlotOf, Freeing
<1>held. Held'
  BY <1>hand DEF Sound, Held, On, AtCursor, Offloading
<1>locked. Locked'
  BY <1>hand DEF Sound, SlotsTypeOK, Locked, Held, AtCursor, Freeing
<1>unneeded. Unneeded'
  BY <1>hand DEF Sound, SlotsTypeOK, Unneeded, Locked, AtCursor, Freeing, ksm_test_exit
<1>qed. QED
  BY <1>type, <1>ring, <1>alloc, <1>flags, <1>limbo, <1>held, <1>locked, <1>unneeded DEF Sound

\* OffloadLock.
LEMMA OffloadLockKeeps ==
  ASSUME SlotsTypeOK, Sound, ~raced, OffloadLock
  PROVE  SlotsTypeOK' /\ Sound'
<1> USE DEF OffloadLock, Writing, listVars, procVars, runVars, ksmdVars, InHand
<1>hand. InHand
  BY InHandHolds
<1>type. SlotsTypeOK'
  BY <1>hand DEF SlotsTypeOK
<1>ring. RingOK'
  BY DEF Sound, RingOK, LinkNxt, On, Ring, Head
<1>alloc. Alloc' /\ OneSlot'
  BY DEF Sound, Alloc, OneSlot
<1>flags. Flags'
  BY DEF Sound, SlotsTypeOK, Flags, HasSlot
<1>limbo. Limbo'
  BY <1>hand DEF Sound, SlotsTypeOK, Flags, Limbo, SlotOf, Freeing
<1>held. Held'
  BY <1>hand DEF Sound, Held, On, AtCursor, Offloading
<1>locked. Locked'
  BY <1>hand DEF Sound, SlotsTypeOK, Locked, Held, AtCursor, Freeing, ksm_test_exit
<1>unneeded. Unneeded'
  BY <1>hand DEF Sound, SlotsTypeOK, Unneeded, Locked, AtCursor, Freeing, ksm_test_exit
<1>qed. QED
  BY <1>type, <1>ring, <1>alloc, <1>flags, <1>limbo, <1>held, <1>locked, <1>unneeded DEF Sound

\* OffloadWalk: an mm whose area has no page is about to be taken off.
LEMMA OffloadWalkKeeps ==
  ASSUME SlotsTypeOK, Sound, ~raced, OffloadWalk
  PROVE  SlotsTypeOK' /\ Sound'
<1> USE DEF OffloadWalk, listVars, procVars, runVars, ksmdVars, InHand
<1>hand. InHand
  BY InHandHolds
<1>type. SlotsTypeOK'
  BY <1>hand DEF SlotsTypeOK, Sound, Held, AtCursor
<1>ring. RingOK'
  BY DEF Sound, RingOK, LinkNxt, On, Ring, Head
<1>alloc. Alloc' /\ OneSlot'
  BY DEF Sound, Alloc, OneSlot
<1>flags. Flags'
  BY DEF Sound, SlotsTypeOK, Flags, HasSlot
<1>limbo. Limbo'
  BY <1>hand DEF Sound, SlotsTypeOK, Flags, Limbo, SlotOf, Freeing
<1>held. Held'
  BY <1>hand DEF Sound, Held, On, AtCursor, Offloading
<1>locked. Locked'
  BY <1>hand DEF Sound, SlotsTypeOK, Locked, Held, AtCursor, Freeing
<1>unneeded. Unneeded'
  BY <1>hand DEF Sound, SlotsTypeOK, Unneeded, Locked, AtCursor, Freeing, ksm_test_exit
<1>qed. QED
  BY <1>type, <1>ring, <1>alloc, <1>flags, <1>limbo, <1>held, <1>locked, <1>unneeded DEF Sound

\* OffloadTrail.
LEMMA OffloadTrailKeeps ==
  ASSUME SlotsTypeOK, Sound, ~raced, OffloadTrail
  PROVE  SlotsTypeOK' /\ Sound'
<1> USE DEF OffloadTrail, listVars, procVars, runVars, ksmdVars, InHand
<1>hand. InHand
  BY InHandHolds
<1>type. SlotsTypeOK'
  BY <1>hand DEF SlotsTypeOK
<1>ring. RingOK'
  BY DEF Sound, RingOK, LinkNxt, On, Ring, Head
<1>alloc. Alloc' /\ OneSlot'
  BY DEF Sound, Alloc, OneSlot
<1>flags. Flags'
  BY DEF Sound, SlotsTypeOK, Flags, HasSlot
<1>limbo. Limbo'
  BY <1>hand DEF Sound, SlotsTypeOK, Flags, Limbo, SlotOf, Freeing
<1>held. Held'
  BY <1>hand DEF Sound, Held, On, AtCursor, Offloading
<1>locked. Locked'
  BY <1>hand DEF Sound, SlotsTypeOK, Locked, Held, AtCursor, Freeing
<1>unneeded. Unneeded'
  BY <1>hand DEF Sound, SlotsTypeOK, Unneeded, Locked, AtCursor, Freeing, ksm_test_exit
<1>qed. QED
  BY <1>type, <1>ring, <1>alloc, <1>flags, <1>limbo, <1>held, <1>locked, <1>unneeded DEF Sound

\* OffloadNext: the saved next is still on the list.
LEMMA OffloadNextKeeps ==
  ASSUME SlotsTypeOK, Sound, ~raced, OffloadNext
  PROVE  SlotsTypeOK' /\ Sound'
<1> USE DEF OffloadNext, listVars, procVars, runVars, ksmdVars, InHand
<1>hand. InHand
  BY InHandHolds
<1>ok. Ring(nxt, prv, On) /\ next \in On
  BY DEF Sound, RingOK, LinkNxt, Held, Offloading
<1>second. ASSUME next # Head
           PROVE  nxt[next] \in On /\ nxt[next] # next
  <2>1. nxt[next] # next
    BY <1>ok, <1>second, NoSelf
  <2>2. QED
    BY <1>ok, <2>1 DEF Ring
<1>type. SlotsTypeOK'
  BY <1>hand, <1>ok, <1>second DEF SlotsTypeOK, On
<1>ring. RingOK'
  BY DEF Sound, RingOK, LinkNxt, On, Ring, Head
<1>alloc. Alloc' /\ OneSlot'
  BY DEF Sound, Alloc, OneSlot
<1>flags. Flags'
  BY DEF Sound, SlotsTypeOK, Flags, HasSlot
<1>limbo. Limbo'
  BY <1>hand DEF Sound, SlotsTypeOK, Flags, Limbo, SlotOf, Freeing
<1>held. Held'
  BY <1>hand, <1>ok, <1>second DEF Sound, Held, On, AtCursor, Offloading
<1>locked. Locked'
  BY <1>hand DEF Sound, SlotsTypeOK, Locked, Held, AtCursor, Freeing
<1>unneeded. Unneeded'
  BY <1>hand DEF Sound, SlotsTypeOK, Unneeded, Locked, AtCursor, Freeing, ksm_test_exit
<1>qed. QED
  BY <1>type, <1>ring, <1>alloc, <1>flags, <1>limbo, <1>held, <1>locked, <1>unneeded DEF Sound

\* OffloadEnd.
LEMMA OffloadEndKeeps ==
  ASSUME SlotsTypeOK, Sound, ~raced, OffloadEnd
  PROVE  SlotsTypeOK' /\ Sound'
<1> USE DEF OffloadEnd, listVars, procVars, runVars, ksmdVars, InHand
<1>hand. InHand
  BY InHandHolds
<1>type. SlotsTypeOK'
  BY <1>hand DEF SlotsTypeOK
<1>ring. RingOK'
  BY DEF Sound, RingOK, LinkNxt, On, Ring, Head
<1>alloc. Alloc' /\ OneSlot'
  BY DEF Sound, Alloc, OneSlot
<1>flags. Flags'
  BY DEF Sound, SlotsTypeOK, Flags, HasSlot
<1>limbo. Limbo'
  BY <1>hand DEF Sound, SlotsTypeOK, Flags, Limbo, SlotOf, Freeing
<1>held. Held'
  BY <1>hand DEF Sound, Held, On, AtCursor, Offloading
<1>locked. Locked'
  BY <1>hand DEF Sound, SlotsTypeOK, Locked, Held, AtCursor, Freeing
<1>unneeded. Unneeded'
  BY <1>hand DEF Sound, SlotsTypeOK, Unneeded, Locked, AtCursor, Freeing, ksm_test_exit
<1>qed. QED
  BY <1>type, <1>ring, <1>alloc, <1>flags, <1>limbo, <1>held, <1>locked, <1>unneeded DEF Sound

-----------------------------------------------------------------------------
(* Steps that change the list.                                             *)

\* Only the pointers of the nodes of a ring matter.
LEMMA RingSame ==
  ASSUME NEW n, NEW p, NEW S, Ring(n, p, S), NEW n1, NEW p1,
         \A t \in S : n1[t] = n[t] /\ p1[t] = p[t]
  PROVE  Ring(n1, p1, S)
BY DEF Ring

\* Unlinked takes a hashed slot off the list.
LEMMA UnlinkedRing ==
  ASSUME SlotsTypeOK, Sound, NEW s \in hashed, pc # "odel2", pc' # "odel2",
         Unlinked(s), hashed' = hashed \ {s}
  PROVE  RingOK' /\ nxt[s] \in On' /\ nxt[s] # s
<1>1. Ring(nxt, prv, On) /\ s \in On /\ s # Head /\ On \subseteq Nodes
  BY InHandHolds DEF Sound, RingOK, LinkNxt, On, InHand
<1>2. nxt[s] # s /\ prv[s] # s
  BY <1>1, NoSelf
<1>3. \A t \in On \ {s} : nxt'[t] = IF t = prv[s] THEN nxt[s] ELSE nxt[t]
  BY <1>1, <1>2 DEF Unlinked, SlotsTypeOK
<1>4. \A t \in On \ {s} : prv'[t] = IF t = nxt[s] THEN prv[s] ELSE prv[t]
  BY <1>1, <1>2 DEF Unlinked, SlotsTypeOK
<1>5. Ring(nxt', prv', On \ {s})
  BY <1>1, <1>3, <1>4, RingRemove
<1>6. On' = On \ {s}
  BY <1>1 DEF On
<1>7. nxt[s] \in On'
  BY <1>1, <1>2, <1>6 DEF Ring
<1>8. QED
  BY <1>2, <1>5, <1>6, <1>7 DEF RingOK, LinkNxt

\* SlotFreed by the walk that took the slot off: the flag and the reference
\* go with it.
LEMMA WalkFreed ==
  ASSUME SlotsTypeOK, Sound, ~raced, pc \in {"free", "ufree", "ofree"}, SlotFreed(cur),
         UNCHANGED <<owner, hashed, proc, area>>, pc' \notin Freeing
  PROVE  Alloc' /\ OneSlot' /\ Flags' /\ Limbo'
<1>hand. InHand /\ cur \in DOMAIN owner \ (freed \cup hashed)
  BY InHandHolds DEF Sound, Limbo, Freeing
<1> DEFINE o == owner[cur]
<1>own. o \in Mms /\ proc[o] # "grab" /\ proc[o] # "free" /\ HasSlot(o) /\ cur \in Nat
  BY <1>hand, SlotsAssumption DEF Sound, Locked, Limbo, Freeing, InHand, SlotsTypeOK, Slots
<1>flag. o \in flag /\ refs[o] = 1
  BY <1>own DEF Sound, Flags
<1>only. \A s \in DOMAIN owner \ freed : owner[s] = o => s = cur
  BY <1>hand, <1>own, SlotsAssumption DEF Sound, OneSlot, SlotsTypeOK, Slots
<1>alloc. Alloc' /\ OneSlot'
  BY <1>hand DEF Sound, Alloc, OneSlot, SlotFreed
<1>has. \A m \in Mms : HasSlot(m)' <=> HasSlot(m) /\ m # o
  BY <1>hand, <1>only DEF HasSlot, SlotFreed
<1>flags. Flags'
  <2>1. flag' = flag \ {o} /\ refs' = [refs EXCEPT ![o] = @ - 1] /\ proc' = proc
    BY DEF SlotFreed
  <2>2. ASSUME NEW m \in Mms
        PROVE  /\ HasSlot(m)' <=> (m \in flag' \/ proc'[m] = "grab")
               /\ proc'[m] = "grab" => m \notin flag'
               /\ refs'[m] = IF m \in flag' THEN 1 ELSE 0
    BY <1>has, <1>own, <1>flag, <2>1 DEF Sound, Flags, SlotsTypeOK
  <2>3. QED
    BY <2>2 DEF Flags
<1>limbo. Limbo'
  BY <1>own, <1>only DEF Sound, Limbo, SlotFreed, SlotOf
<1>qed. QED
  BY <1>alloc, <1>flags, <1>limbo

\* ScanDone: the cursor leaves a slot before it is taken off.
LEMMA ScanDoneKeeps ==
  ASSUME SlotsTypeOK, Sound, ~raced, ScanDone
  PROVE  SlotsTypeOK' /\ Sound'
<1> USE DEF ScanDone, CursorAdvanced, NothingMergeable, Loop, listVars, procVars, runVars, ksmdVars, InHand
<1>hand. InHand
  BY InHandHolds
<1>at. cur \in hashed /\ cursor = cur
  BY DEF Sound, Held, AtCursor
<1>off. /\ RingOK' /\ nxt[cur] \in On' /\ nxt[cur] # cur
        /\ nxt[cur] \in Nodes
  <2>1. CASE NothingMergeable
    BY <1>at, <1>hand, <2>1, UnlinkedRing DEF On
  <2>2. CASE ~NothingMergeable
    <3>1. Ring(nxt, prv, On) /\ cur \in On /\ cur # Head
      BY <1>at, <1>hand DEF Sound, RingOK, LinkNxt, On
    <3>2. nxt[cur] \in On /\ nxt[cur] # cur
      BY <3>1, NoSelf DEF Ring
    <3>3. On' = On /\ nxt' = nxt /\ prv' = prv
      BY <2>2 DEF On
    <3>4. QED
      BY <1>hand, <3>1, <3>2, <3>3, <2>2 DEF RingOK, LinkNxt, On
  <2>3. QED
    BY <2>1, <2>2
<1>type. SlotsTypeOK'
  BY <1>hand, <1>off DEF SlotsTypeOK, Unlinked
<1>ring. RingOK'
  BY <1>off
<1>alloc. Alloc' /\ OneSlot'
  BY DEF Sound, Alloc, OneSlot
<1>flags. Flags'
  BY DEF Sound, SlotsTypeOK, Flags, HasSlot
<1>limbo. Limbo'
  BY <1>at, <1>hand DEF Sound, SlotsTypeOK, Limbo, SlotOf, Held, AtCursor, Freeing
<1>held. Held'
  BY <1>hand, <1>off DEF Sound, Held, On, AtCursor, Offloading
<1>locked. Locked'
  BY <1>hand DEF Sound, SlotsTypeOK, Locked, Held, AtCursor, Freeing
<1>unneeded. Unneeded'
  BY <1>hand DEF Sound, SlotsTypeOK, Unneeded, Locked, AtCursor, Freeing, ksm_test_exit
<1>qed. QED
  BY <1>type, <1>ring, <1>alloc, <1>flags, <1>limbo, <1>held, <1>locked, <1>unneeded DEF Sound

\* UnmergeNext: likewise, for the slot of an exited mm.
LEMMA UnmergeNextKeeps ==
  ASSUME SlotsTypeOK, Sound, ~raced, UnmergeNext
  PROVE  SlotsTypeOK' /\ Sound'
<1> USE DEF UnmergeNext, CursorAdvanced, ULoop, listVars, procVars, runVars, ksmdVars, InHand
<1>hand. InHand
  BY InHandHolds
<1>at. cur \in hashed /\ cursor = cur
  BY DEF Sound, Held, AtCursor
<1>off. /\ RingOK' /\ nxt[cur] \in On' /\ nxt[cur] # cur
        /\ nxt[cur] \in Nodes
  <2>1. CASE ksm_test_exit(owner[cur])
    BY <1>at, <1>hand, <2>1, UnlinkedRing DEF On
  <2>2. CASE ~ksm_test_exit(owner[cur])
    <3>1. Ring(nxt, prv, On) /\ cur \in On /\ cur # Head
      BY <1>at, <1>hand DEF Sound, RingOK, LinkNxt, On
    <3>2. nxt[cur] \in On /\ nxt[cur] # cur
      BY <3>1, NoSelf DEF Ring
    <3>3. On' = On /\ nxt' = nxt /\ prv' = prv
      BY <2>2 DEF On
    <3>4. QED
      BY <1>hand, <3>1, <3>2, <3>3, <2>2 DEF RingOK, LinkNxt, On
  <2>3. QED
    BY <2>1, <2>2
<1>type. SlotsTypeOK'
  BY <1>hand, <1>off DEF SlotsTypeOK, Unlinked
<1>ring. RingOK'
  BY <1>off
<1>alloc. Alloc' /\ OneSlot'
  BY DEF Sound, Alloc, OneSlot
<1>flags. Flags'
  BY DEF Sound, SlotsTypeOK, Flags, HasSlot
<1>limbo. Limbo'
  BY <1>at, <1>hand DEF Sound, SlotsTypeOK, Limbo, SlotOf, Held, AtCursor, Freeing
<1>held. Held'
  BY <1>hand, <1>off DEF Sound, Held, On, AtCursor, Offloading
<1>locked. Locked'
  BY <1>hand DEF Sound, SlotsTypeOK, Locked, Held, AtCursor, Freeing
<1>unneeded. Unneeded'
  BY <1>hand DEF Sound, SlotsTypeOK, Unneeded, Locked, AtCursor, Freeing, ksm_test_exit
<1>qed. QED
  BY <1>type, <1>ring, <1>alloc, <1>flags, <1>limbo, <1>held, <1>locked, <1>unneeded DEF Sound

\* ScanFree.
LEMMA ScanFreeKeeps ==
  ASSUME SlotsTypeOK, Sound, ~raced, ScanFree
  PROVE  SlotsTypeOK' /\ Sound'
<1> USE DEF ScanFree, Loop, listVars, procVars, runVars, ksmdVars, InHand
<1>hand. InHand
  BY InHandHolds
<1>freed. Alloc' /\ OneSlot' /\ Flags' /\ Limbo'
  BY WalkFreed DEF Freeing
<1>type. SlotsTypeOK'
  BY <1>hand DEF SlotsTypeOK, SlotFreed, Freeing
<1>ring. RingOK'
  BY DEF Sound, RingOK, LinkNxt, On, Ring, Head
<1>alloc. Alloc' /\ OneSlot'
  BY <1>freed
<1>flags. Flags'
  BY <1>freed
<1>limbo. Limbo'
  BY <1>freed
<1>held. Held'
  BY <1>hand DEF Sound, Held, On, AtCursor, Offloading
<1>locked. Locked'
  BY <1>hand DEF Sound, SlotsTypeOK, Locked, Held, AtCursor, Freeing
<1>unneeded. Unneeded'
  BY <1>hand DEF Sound, SlotsTypeOK, Unneeded, Locked, AtCursor, Freeing, ksm_test_exit
<1>qed. QED
  BY <1>type, <1>ring, <1>alloc, <1>flags, <1>limbo, <1>held, <1>locked, <1>unneeded DEF Sound

\* UnmergeFree.
LEMMA UnmergeFreeKeeps ==
  ASSUME SlotsTypeOK, Sound, ~raced, UnmergeFree
  PROVE  SlotsTypeOK' /\ Sound'
<1> USE DEF UnmergeFree, ULoop, listVars, procVars, runVars, ksmdVars, InHand
<1>hand. InHand
  BY InHandHolds
<1>freed. Alloc' /\ OneSlot' /\ Flags' /\ Limbo'
  BY WalkFreed DEF Freeing
<1>type. SlotsTypeOK'
  BY <1>hand DEF SlotsTypeOK, SlotFreed, Freeing
<1>ring. RingOK'
  BY DEF Sound, RingOK, LinkNxt, On, Ring, Head
<1>alloc. Alloc' /\ OneSlot'
  BY <1>freed
<1>flags. Flags'
  BY <1>freed
<1>limbo. Limbo'
  BY <1>freed
<1>held. Held'
  BY <1>hand DEF Sound, Held, On, AtCursor, Offloading
<1>locked. Locked'
  BY <1>hand DEF Sound, SlotsTypeOK, Locked, Held, AtCursor, Freeing
<1>unneeded. Unneeded'
  BY <1>hand DEF Sound, SlotsTypeOK, Unneeded, Locked, AtCursor, Freeing, ksm_test_exit
<1>qed. QED
  BY <1>type, <1>ring, <1>alloc, <1>flags, <1>limbo, <1>held, <1>locked, <1>unneeded DEF Sound

\* OffloadFree: from here on the cursor is a freed slot.
LEMMA OffloadFreeKeeps ==
  ASSUME SlotsTypeOK, Sound, ~raced, OffloadFree
  PROVE  SlotsTypeOK' /\ Sound'
<1> USE DEF OffloadFree, listVars, procVars, runVars, ksmdVars, InHand
<1>hand. InHand
  BY InHandHolds
<1>freed. Alloc' /\ OneSlot' /\ Flags' /\ Limbo'
  BY WalkFreed DEF Freeing
<1>type. SlotsTypeOK'
  BY <1>hand DEF SlotsTypeOK, SlotFreed, Freeing
<1>ring. RingOK'
  BY DEF Sound, RingOK, LinkNxt, On, Ring, Head
<1>alloc. Alloc' /\ OneSlot'
  BY <1>freed
<1>flags. Flags'
  BY <1>freed
<1>limbo. Limbo'
  BY <1>freed
<1>held. Held'
  BY <1>hand DEF Sound, Held, On, AtCursor, Offloading, SlotFreed
<1>locked. Locked'
  BY <1>hand DEF Sound, SlotsTypeOK, Locked, Held, AtCursor, Freeing
<1>unneeded. Unneeded'
  BY <1>hand DEF Sound, SlotsTypeOK, Unneeded, Locked, AtCursor, Freeing, ksm_test_exit
<1>qed. QED
  BY <1>type, <1>ring, <1>alloc, <1>flags, <1>limbo, <1>held, <1>locked, <1>unneeded DEF Sound

\* The first store of prepare_metadata's list_del: the ring without the slot
\* is there but for one nxt pointer.
LEMMA Del1Ring ==
  ASSUME SlotsTypeOK, Sound, OffloadDel1
  PROVE  RingOK' /\ nxt[cur] \in On /\ prv[cur] \in On
<1>1. /\ cur \in hashed /\ Ring(nxt, prv, On) /\ cur \in On /\ cur # Head
      /\ On \subseteq Nodes /\ On' = On \ {cur}
  BY InHandHolds DEF OffloadDel1, InHand, Sound, Held, AtCursor, RingOK, LinkNxt, On
<1>2. nxt[cur] # cur /\ prv[cur] # cur
  BY <1>1, NoSelf
<1>3. nxt[cur] \in On' /\ prv[cur] \in On' /\ prv'[cur] = prv[cur] /\ nxt' = nxt /\ cur' = cur
  BY <1>1, <1>2 DEF OffloadDel1, Ring, SlotsTypeOK
<1>4. PICK n1 : n1 = [nxt EXCEPT ![prv[cur]] = nxt[cur]]
  OBVIOUS
<1>5. \A t \in On \ {cur} : n1[t] = IF t = prv[cur] THEN nxt[cur] ELSE nxt[t]
  BY <1>1, <1>4 DEF SlotsTypeOK
<1>6. \A t \in On \ {cur} : prv'[t] = IF t = nxt[cur] THEN prv[cur] ELSE prv[t]
  BY <1>1 DEF OffloadDel1, SlotsTypeOK
<1>7. Ring(n1, prv', On \ {cur})
  BY <1>1, <1>5, <1>6, RingRemove
<1>8. LinkNxt' = n1
  BY <1>3, <1>4 DEF LinkNxt, OffloadDel1
<1>9. QED
  BY <1>1, <1>3, <1>7, <1>8 DEF RingOK

\* Its second store: the list is the ring again.
LEMMA Del2Ring ==
  ASSUME SlotsTypeOK, Sound, OffloadDel2
  PROVE  RingOK' /\ nxt[cur] \in On /\ prv[cur] \in On
<1>1. cur \notin On /\ prv[cur] \in On /\ nxt[cur] \in On /\ On \subseteq Nodes /\ On' = On
  BY InHandHolds, SlotsAssumption
  DEF OffloadDel2, InHand, Sound, RingOK, Limbo, Freeing, On, SlotsTypeOK, Slots, Head
<1>2. PICK n : n = LinkNxt
  OBVIOUS
<1>3. Ring(n, prv, On)
  BY <1>2 DEF Sound, RingOK
<1>4. \A t \in On : nxt'[t] = n[t] /\ prv'[t] = prv[t]
  BY <1>1, <1>2 DEF OffloadDel2, SlotsTypeOK, LinkNxt
<1>5. Ring(nxt', prv', On)
  BY <1>3, <1>4, RingSame
<1>6. QED
  BY <1>1, <1>5 DEF RingOK, LinkNxt, OffloadDel2

\* OffloadDel1.
LEMMA OffloadDel1Keeps ==
  ASSUME SlotsTypeOK, Sound, ~raced, OffloadDel1
  PROVE  SlotsTypeOK' /\ Sound'
<1> USE DEF OffloadDel1, listVars, procVars, runVars, ksmdVars, InHand
<1>hand. InHand
  BY InHandHolds
<1>at. cur \in hashed /\ RingOK' /\ nxt[cur] \in On /\ prv[cur] \in On
  BY Del1Ring DEF Sound, Held, AtCursor
<1>type. SlotsTypeOK'
  BY <1>hand, <1>at DEF SlotsTypeOK, On
<1>ring. RingOK'
  BY <1>at
<1>alloc. Alloc' /\ OneSlot'
  BY DEF Sound, Alloc, OneSlot
<1>flags. Flags'
  BY DEF Sound, SlotsTypeOK, Flags, HasSlot
<1>limbo. Limbo'
  BY <1>at, <1>hand DEF Sound, SlotsTypeOK, Limbo, SlotOf, Held, AtCursor, Freeing
<1>held. Held'
  BY <1>hand DEF Sound, Held, On, AtCursor, Offloading
<1>locked. Locked'
  BY <1>hand DEF Sound, SlotsTypeOK, Locked, Held, AtCursor, Freeing
<1>unneeded. Unneeded'
  BY <1>hand DEF Sound, SlotsTypeOK, Unneeded, Locked, AtCursor, Freeing, ksm_test_exit
<1>qed. QED
  BY <1>type, <1>ring, <1>alloc, <1>flags, <1>limbo, <1>held, <1>locked, <1>unneeded DEF Sound

\* OffloadDel2.
LEMMA OffloadDel2Keeps ==
  ASSUME SlotsTypeOK, Sound, ~raced, OffloadDel2
  PROVE  SlotsTypeOK' /\ Sound'
<1> USE DEF OffloadDel2, listVars, procVars, runVars, ksmdVars, InHand
<1>hand. InHand
  BY InHandHolds
<1>at. RingOK' /\ nxt[cur] \in On /\ prv[cur] \in On
  BY Del2Ring
<1>type. SlotsTypeOK'
  BY <1>hand, <1>at DEF SlotsTypeOK, On
<1>ring. RingOK'
  BY <1>at
<1>alloc. Alloc' /\ OneSlot'
  BY DEF Sound, Alloc, OneSlot
<1>flags. Flags'
  BY DEF Sound, SlotsTypeOK, Flags, HasSlot
<1>limbo. Limbo'
  BY <1>hand DEF Sound, SlotsTypeOK, Flags, Limbo, SlotOf, Freeing
<1>held. Held'
  BY <1>hand DEF Sound, Held, On, AtCursor, Offloading
<1>locked. Locked'
  BY <1>hand DEF Sound, SlotsTypeOK, Locked, Held, AtCursor, Freeing
<1>unneeded. Unneeded'
  BY <1>hand DEF Sound, SlotsTypeOK, Unneeded, Locked, AtCursor, Freeing, ksm_test_exit
<1>qed. QED
  BY <1>type, <1>ring, <1>alloc, <1>flags, <1>limbo, <1>held, <1>locked, <1>unneeded DEF Sound

-----------------------------------------------------------------------------
(* Processes that enter and leave the list.                                *)

\* MADV_MERGEABLE of an mm that has a slot.
LEMMA MadviseKeptKeeps ==
  ASSUME SlotsTypeOK, Sound, ~raced, NEW m \in Mms, ksm_madvise(m), m \in flag
  PROVE  SlotsTypeOK' /\ Sound'
<1> USE DEF ksm_madvise, Reading, InHand, listVars, runVars, ksmdVars
<1>hand. InHand
  BY InHandHolds
<1>type. SlotsTypeOK'
  BY DEF SlotsTypeOK
<1>same. RingOK' /\ Alloc' /\ OneSlot' /\ Held'
  BY DEF Sound, RingOK, LinkNxt, On, Alloc, OneSlot, Held, Head
<1>flags. Flags' /\ Limbo' /\ Locked'
  BY DEF Sound, Flags, HasSlot, Limbo, SlotOf, Locked
<1>unneeded. Unneeded'
  BY <1>hand DEF Sound, SlotsTypeOK, Unneeded, AtCursor, Freeing, ksm_test_exit
<1>qed. QED
  BY <1>type, <1>same, <1>flags, <1>unneeded DEF Sound

\* MADV_MERGEABLE of an mm without a slot: __ksm_enter allocates the next one.
LEMMA MadviseNewKeeps ==
  ASSUME SlotsTypeOK, Sound, ~raced, NEW m \in Mms, ksm_madvise(m), m \notin flag
  PROVE  SlotsTypeOK' /\ (~raced' => Sound')
<1> DEFINE s == Cardinality(DOMAIN owner) + 1
           at == IF ksm_run = "unmerge" THEN Head ELSE cursor
<1>hand. InHand
  BY InHandHolds
<1>act. /\ proc[m] = "run" /\ area[m] = "none"
        /\ owner' = [t \in 1 .. s |-> IF t = s THEN m ELSE owner[t]]
        /\ hashed' = hashed \cup {s}
        /\ AddedBefore(s, at)
        /\ proc' = [proc EXCEPT ![m] = "grab"]
        /\ raced' = CursorDangles
        /\ UNCHANGED <<freed, rmap, flag, refs, area, ksm_run, offloading, pc, cur, next, pos,
                       cursor>>
        /\ s <= MaxSlots
  <2>1. /\ proc[m] = "run" /\ area[m] = "none"
        /\ UNCHANGED <<freed, rmap, flag, refs, ksm_run, offloading, pc, cur, next, pos,
                       cursor>>
    BY DEF ksm_madvise, runVars, ksmdVars
  <2>2. s <= MaxSlots
    BY SlotsAssumption DEF ksm_madvise, Sound, Alloc
  <2>3. QED
    BY <2>1, <2>2 DEF ksm_madvise
<1>new. /\ DOMAIN owner = 1 .. (s - 1) /\ s \in Nat \ {0} /\ s \in Slots
        /\ DOMAIN owner' = 1 .. s
        /\ \A t \in DOMAIN owner : t # s /\ owner'[t] = owner[t] /\ t \in DOMAIN owner'
        /\ owner'[s] = m
        /\ \A t \in DOMAIN owner' : t = s \/ t \in DOMAIN owner
  BY <1>act, SlotsAssumption DEF Sound, Alloc, Slots
<1> HIDE DEF s
<1>none. ~HasSlot(m)
  BY <1>act DEF Sound, Flags
<1>type. SlotsTypeOK'
  <2>1. nxt' \in [Nodes -> Nodes \cup {Poison}] /\ prv' \in [Nodes -> Nodes \cup {Poison}]
    <3>1. s \in Nodes /\ at \in Nodes
      BY <1>new DEF SlotsTypeOK, Nodes
    <3>2. prv[at] \in Nodes \cup {Poison}
      BY <3>1 DEF SlotsTypeOK
    <3>3. QED
      BY <1>act, <3>1, <3>2 DEF AddedBefore, SlotsTypeOK
  <2>2. \A t \in DOMAIN owner' : owner'[t] \in Mms
    BY <1>new DEF SlotsTypeOK
  <2>3. hashed' \subseteq Slots /\ DOMAIN owner' \subseteq Slots
    BY <1>act, <1>new DEF SlotsTypeOK
  <2>4. raced' \in BOOLEAN
    BY <1>act DEF CursorDangles
  <2>5. QED
    BY <1>act, <2>1, <2>2, <2>3, <2>4 DEF SlotsTypeOK
<1>sound. ASSUME ~raced' PROVE Sound'
  <2>1. pc \notin {"odel2", "ofree"} /\ cursor \notin freed
    BY <1>act, <1>sound DEF CursorDangles
  <2>2. at \in On
    <3>1. cursor \in On
      BY <2>1 DEF SlotsTypeOK, Sound, Held, AtCursor, On
    <3>2. QED
      BY <3>1 DEF On
  <2>3. s \notin On /\ On \subseteq Nodes /\ s \in Nodes
    BY <1>new, <1>hand DEF On, InHand, Head, Nodes
  <2>ring. RingOK'
    <3>1. Ring(nxt, prv, On)
      BY <2>1 DEF Sound, RingOK, LinkNxt
    <3>2. prv[at] \in On
      BY <2>2, <3>1 DEF Ring
    <3>3. /\ \A t \in On : nxt'[t] = IF t = prv[at] THEN s ELSE nxt[t]
          /\ nxt'[s] = at
      BY <1>act, <2>2, <2>3, <3>2 DEF AddedBefore, SlotsTypeOK
    <3>4. /\ \A t \in On : prv'[t] = IF t = at THEN s ELSE prv[t]
          /\ prv'[s] = prv[at]
      BY <1>act, <2>2, <2>3, <3>2 DEF AddedBefore, SlotsTypeOK
    <3>5. Ring(nxt', prv', On \cup {s})
      BY <2>2, <2>3, <3>1, <3>3, <3>4, RingAdd
    <3>6. On' = On \cup {s}
      BY <1>act DEF On
    <3>7. QED
      BY <1>act, <2>1, <3>5, <3>6 DEF RingOK, LinkNxt
  <2>alloc. Alloc'
    <3>1. Cardinality(1 .. s) = s
      <4>1. \A a, b \in Int : Cardinality(a .. b) = IF a > b THEN 0 ELSE b - a + 1
        BY FS_Interval
      <4>2. QED
        BY <1>new, <4>1
    <3>2. s \in 0 .. MaxSlots
      BY <1>new, <1>act, SlotsAssumption
    <3>3. hashed' \subseteq DOMAIN owner' /\ freed' \subseteq DOMAIN owner'
      BY <1>new, <1>act DEF Sound, Alloc
    <3>4. hashed' \cap freed' = {}
      BY <1>new, <1>act DEF Sound, Alloc
    <3>5. QED
      BY <1>new, <3>1, <3>2, <3>3, <3>4 DEF Alloc
  <2>has. \A l \in Mms : HasSlot(l)' <=> HasSlot(l) \/ l = m
    <3>1. s \notin freed
      BY <1>new DEF Sound, Alloc
    <3>2. QED
      BY <1>act, <1>new, <3>1 DEF HasSlot
  <2>one. OneSlot'
    <3>1. ASSUME NEW t \in DOMAIN owner', NEW u \in DOMAIN owner', owner'[t] = owner'[u], t \notin freed'
          PROVE  u <= t
      <4>1. CASE t = s
        BY <1>new, <4>1
      <4>2. CASE t # s
        <5>1. t \in DOMAIN owner \ freed
          BY <1>new, <1>act, <3>1, <4>2
        <5>2. owner[t] # m
          BY <5>1, <1>none DEF HasSlot
        <5>3. u # s /\ u \in DOMAIN owner
          BY <5>1, <5>2, <1>new, <3>1
        <5>4. QED
          BY <5>1, <5>3, <1>new, <3>1 DEF Sound, OneSlot
      <4>3. QED
        BY <4>1, <4>2
    <3>2. QED
      BY <3>1 DEF OneSlot
  <2>flags. Flags'
    BY <1>act, <2>has DEF Sound, Flags, SlotsTypeOK
  <2>away. pc \in AtCursor \cup Freeing \cup {"oenter"} =>
             cur # s /\ owner'[cur] = owner[cur] /\ owner[cur] # m
    BY <1>hand, <1>new, <1>none DEF InHand
  <2>slots. \A l \in Mms : SlotOf(l)' = IF l = m THEN SlotOf(l) \cup {s} ELSE SlotOf(l)
    BY <1>act, <1>new, <1>hand DEF SlotOf, InHand
  <2>limbo. Limbo'
    <3>1. \A t \in DOMAIN owner' \ (freed' \cup hashed') :
             proc'[owner'[t]] = "free" \/ (pc' \in Freeing /\ cur' = t)
      BY <1>act, <1>new, <1>none DEF Sound, Limbo, SlotsTypeOK, HasSlot
    <3>2. \A l \in Mms : proc'[l] = "free" => l \in flag' /\ SlotOf(l)' = {}
      BY <1>act, <2>slots DEF Sound, Limbo, SlotsTypeOK
    <3>3. pc' \in Freeing => /\ cur' \in DOMAIN owner' \ (freed' \cup hashed')
                            /\ proc'[owner'[cur']] # "free"
      BY <1>act, <1>new, <2>away DEF Sound, Limbo, SlotsTypeOK
    <3>4. QED
      BY <3>1, <3>2, <3>3 DEF Limbo
  <2>held. Held'
    BY <1>act DEF Sound, Held, On
  <2>locked. Locked'
    BY <1>act, <1>hand, <2>away DEF Sound, Locked, SlotsTypeOK, InHand, AtCursor, Freeing
  <2>unneeded. Unneeded'
    BY <1>act, <1>hand, <2>away DEF Sound, Unneeded, SlotsTypeOK, InHand, AtCursor, Freeing,
       ksm_test_exit
  <2>qed. QED
    BY <2>ring, <2>alloc, <2>one, <2>flags, <2>limbo, <2>held, <2>locked, <2>unneeded DEF Sound
<1>qed. QED
  BY <1>type, <1>sound

\* list_move: the ring keeps its nodes.
LEMMA RingMove ==
  ASSUME NEW n, NEW p, NEW S, Ring(n, p, S), NEW s \in S, s # Head, NEW at \in S, at # s,
         NEW n1, NEW p1, NEW n2, NEW p2,
         \A t \in S \ {s} : n1[t] = IF t = p[s] THEN n[s] ELSE n[t],
         \A t \in S \ {s} : p1[t] = IF t = n[s] THEN p[s] ELSE p[t],
         \A t \in S \ {s} : n2[t] = IF t = at THEN s ELSE n1[t],
         \A t \in S \ {s} : p2[t] = IF t = n1[at] THEN s ELSE p1[t],
         n2[s] = n1[at], p2[s] = at
  PROVE  Ring(n2, p2, S)
<1>1. Ring(n1, p1, S \ {s})
  BY RingRemove
<1>2. n1[at] \in S \ {s} /\ p1[n1[at]] = at
  BY <1>1 DEF Ring
<1>3. Ring(n2, p2, (S \ {s}) \cup {s})
  BY <1>1, <1>2, RingAdd
<1>4. (S \ {s}) \cup {s} = S
  OBVIOUS
<1>5. QED
  BY <1>3, <1>4

\* The slots of an mm: an mm on the list has one slot, and it is not freed.
LEMMA OneHashed ==
  ASSUME SlotsTypeOK, Sound, NEW m \in Mms, NEW s \in SlotOf(m)
  PROVE  /\ s \in hashed /\ owner[s] = m
         /\ \A t \in DOMAIN owner \ freed : owner[t] = m => t = s
<1>1. s \in hashed /\ owner[s] = m /\ s \in DOMAIN owner \ freed
  BY InHandHolds DEF SlotOf, InHand
<1>2. DOMAIN owner \subseteq Nat
  BY SlotsAssumption DEF SlotsTypeOK, Slots
<1>3. QED
  BY <1>1, <1>2 DEF Sound, OneSlot

\* ksm_exit of an mm that is not on the list.
LEMMA ExitGoneKeeps ==
  ASSUME SlotsTypeOK, Sound, ~raced, NEW m \in Mms, proc[m] = "exit", m \notin flag \/ SlotOf(m) = {},
         Gone(m), UNCHANGED <<listVars, flag, refs, runVars, ksmdVars, cursor, raced>>
  PROVE  SlotsTypeOK' /\ Sound'
<1> USE DEF Gone, InHand, listVars, runVars, ksmdVars
<1>hand. InHand
  BY InHandHolds
<1>type. SlotsTypeOK'
  BY DEF SlotsTypeOK
<1>same. RingOK' /\ Alloc' /\ OneSlot' /\ Held'
  BY DEF Sound, RingOK, LinkNxt, On, Alloc, OneSlot, Held, Head
<1>flags. Flags'
  BY DEF Sound, SlotsTypeOK, Flags, HasSlot
<1>limbo. Limbo'
  BY <1>hand DEF Sound, SlotsTypeOK, Limbo, SlotOf
<1>off. \A s \in hashed : owner[s] # m
  BY <1>hand DEF SlotOf, Sound, Flags
<1>locked. Locked'
  BY <1>hand, <1>off DEF Sound, SlotsTypeOK, Locked, Held, AtCursor, Freeing
<1>unneeded. Unneeded'
  BY <1>hand DEF Sound, SlotsTypeOK, Unneeded, AtCursor, Freeing, ksm_test_exit
<1>qed. QED
  BY <1>type, <1>same, <1>flags, <1>limbo, <1>locked, <1>unneeded DEF Sound

\* __ksm_exit of a slot that is easy to free.
LEMMA ExitEasyKeeps ==
  ASSUME SlotsTypeOK, Sound, ~raced, NEW m \in Mms, proc[m] = "exit", m \in flag, NEW s \in SlotOf(m),
         EasyToFree(s), hashed' = hashed \ {s}, Unlinked(s), proc' = [proc EXCEPT ![m] = "free"],
         raced' = (HeldAside(s) \/ pc = "odel2"),
         UNCHANGED <<area, freed, owner, rmap, flag, refs, runVars, ksmdVars, cursor>>
  PROVE  SlotsTypeOK' /\ (~raced' => Sound')
<1>hand. InHand
  BY InHandHolds
<1>one. /\ s \in hashed /\ owner[s] = m
        /\ \A t \in DOMAIN owner \ freed : owner[t] = m => t = s
  BY OneHashed
<1>type. SlotsTypeOK'
  <2>1. s \in Nodes /\ nxt[s] \in Nodes \cup {Poison} /\ prv[s] \in Nodes \cup {Poison}
    BY <1>hand, <1>one DEF InHand, SlotsTypeOK
  <2>2. raced' \in BOOLEAN
    BY DEF HeldAside
  <2>3. nxt' \in [Nodes -> Nodes \cup {Poison}] /\ prv' \in [Nodes -> Nodes \cup {Poison}]
    BY <2>1 DEF Unlinked, SlotsTypeOK
  <2>4. QED
    BY <2>2, <2>3 DEF SlotsTypeOK, runVars, ksmdVars
<1>sound. ASSUME ~raced' PROVE Sound'
  <2>1. pc # "odel2" /\ ~HeldAside(s) /\ s # cursor
    BY <1>sound DEF EasyToFree
  <2>ring. RingOK'
    BY <1>one, <2>1, UnlinkedRing DEF ksmdVars
  <2>alloc. Alloc' /\ OneSlot'
    BY DEF Sound, Alloc, OneSlot
  <2>flags. Flags'
    BY DEF Sound, SlotsTypeOK, Flags, HasSlot
  <2>held. Held'
    BY <2>1 DEF Sound, Held, On, AtCursor, Offloading, HeldAside, ksmdVars
  <2>away. pc \in (AtCursor \ {"olock"}) \cup Freeing => owner[cur] # m /\ owner[cur] \in Mms
    BY <1>hand, <1>one, <2>1 DEF InHand, Sound, Held, Limbo, AtCursor, Freeing
  <2>limbo. Limbo'
    <3>1. \A t \in DOMAIN owner' \ (freed' \cup hashed') :
             proc'[owner'[t]] = "free" \/ (pc' \in Freeing /\ cur' = t)
      BY <1>one DEF Sound, Limbo, SlotsTypeOK, ksmdVars
    <3>2. \A l \in Mms : proc'[l] = "free" => l \in flag' /\ SlotOf(l)' = {}
      BY <1>one, <1>hand DEF Sound, Limbo, SlotsTypeOK, SlotOf, InHand
    <3>3. pc' \in Freeing => /\ cur' \in DOMAIN owner' \ (freed' \cup hashed')
                            /\ proc'[owner'[cur']] # "free"
      BY <2>away DEF Sound, Limbo, SlotsTypeOK, ksmdVars
    <3>4. QED
      BY <3>1, <3>2, <3>3 DEF Limbo
  <2>locked. Locked'
    BY <2>away DEF Sound, Locked, SlotsTypeOK, AtCursor, Freeing, ksmdVars
  <2>unneeded. Unneeded'
    BY <2>away DEF Sound, Unneeded, SlotsTypeOK, AtCursor, Freeing, ksm_test_exit, ksmdVars
  <2>qed. QED
    BY <2>ring, <2>alloc, <2>flags, <2>limbo, <2>held, <2>locked, <2>unneeded DEF Sound
<1>qed. QED
  BY <1>type, <1>sound

\* __ksm_exit of a slot that ksmd is to free: all but the list.
LEMMA ExitLeftKeeps ==
  ASSUME SlotsTypeOK, Sound, NEW m \in Mms, proc[m] = "exit", m \in flag, ~raced,
         proc' = [proc EXCEPT ![m] = "sync"],
         UNCHANGED <<area, hashed, freed, owner, rmap, flag, refs, runVars, ksmdVars, cursor>>
  PROVE  Alloc' /\ OneSlot' /\ Flags' /\ Limbo' /\ Held' /\ Locked' /\ Unneeded'
<1> USE DEF InHand, runVars, ksmdVars
<1>hand. InHand
  BY InHandHolds
<1>same. Alloc' /\ OneSlot' /\ Held'
  BY DEF Sound, On, Alloc, OneSlot, Held
<1>flags. Flags'
  BY DEF Sound, SlotsTypeOK, Flags, HasSlot
<1>limbo. Limbo'
  BY <1>hand DEF Sound, SlotsTypeOK, Limbo, SlotOf
<1>locked. Locked'
  BY <1>hand DEF Sound, SlotsTypeOK, Locked, Held, AtCursor, Freeing
<1>unneeded. Unneeded'
  BY <1>hand DEF Sound, SlotsTypeOK, Unneeded, AtCursor, Freeing, ksm_test_exit
<1>qed. QED
  BY <1>same, <1>flags, <1>limbo, <1>locked, <1>unneeded

\* It is moved behind the cursor when it is elsewhere.
LEMMA ExitMovedKeeps ==
  ASSUME SlotsTypeOK, Sound, ~raced, NEW m \in Mms, proc[m] = "exit", m \in flag, NEW s \in SlotOf(m),
         s # cursor, MovedBehind(s, cursor), proc' = [proc EXCEPT ![m] = "sync"],
         raced' = CursorDangles,
         UNCHANGED <<area, hashed, freed, owner, rmap, flag, refs, runVars, ksmdVars, cursor>>
  PROVE  SlotsTypeOK' /\ (~raced' => Sound')
<1>hand. InHand /\ s \in hashed /\ s \in Nodes /\ s # Head
  BY InHandHolds, OneHashed DEF InHand
<1>pick. PICK n1, p1 : /\ n1 = [nxt EXCEPT ![prv[s]] = nxt[s]]
                       /\ p1 = [prv EXCEPT ![nxt[s]] = prv[s]]
  OBVIOUS
<1>moved. /\ nxt' = [n1 EXCEPT ![cursor] = s, ![s] = n1[cursor]]
          /\ prv' = [p1 EXCEPT ![n1[cursor]] = s, ![s] = cursor]
  BY <1>pick DEF MovedBehind
<1>fun. n1 \in [Nodes -> Nodes \cup {Poison}] /\ p1 \in [Nodes -> Nodes \cup {Poison}]
  BY <1>hand, <1>pick DEF SlotsTypeOK
<1>type. SlotsTypeOK'
  <2>1. nxt' \in [Nodes -> Nodes \cup {Poison}] /\ prv' \in [Nodes -> Nodes \cup {Poison}]
    BY <1>hand, <1>fun, <1>moved DEF SlotsTypeOK
  <2>2. raced' \in BOOLEAN
    BY DEF CursorDangles
  <2>3. QED
    BY <2>1, <2>2 DEF SlotsTypeOK, runVars, ksmdVars
<1>sound. ASSUME ~raced' PROVE Sound'
  <2>1. pc \notin {"odel2", "ofree"} /\ cursor \notin freed
    BY <1>sound DEF CursorDangles
  <2>2. Ring(nxt, prv, On) /\ cursor \in On /\ s \in On /\ On \subseteq Nodes
    BY <1>hand, <2>1 DEF SlotsTypeOK, Sound, Held, AtCursor, On, RingOK, LinkNxt, InHand
  <2>3. /\ \A t \in On \ {s} : n1[t] = IF t = prv[s] THEN nxt[s] ELSE nxt[t]
        /\ \A t \in On \ {s} : p1[t] = IF t = nxt[s] THEN prv[s] ELSE prv[t]
    BY <1>pick, <2>2 DEF SlotsTypeOK
  <2>4. n1[cursor] \in On \ {s}
    BY <1>hand, <2>2, <2>3, NoSelf DEF Ring
  <2>5. /\ \A t \in On \ {s} : nxt'[t] = IF t = cursor THEN s ELSE n1[t]
        /\ nxt'[s] = n1[cursor]
    BY <1>fun, <1>moved, <2>2, <1>hand
  <2>6. /\ \A t \in On \ {s} : prv'[t] = IF t = n1[cursor] THEN s ELSE p1[t]
        /\ prv'[s] = cursor
    BY <1>fun, <1>moved, <2>2, <2>4, <1>hand
  <2>7. Ring(nxt', prv', On)
    BY <1>hand, <2>2, <2>3, <2>5, <2>6, RingMove
  <2>8. RingOK'
    BY <2>1, <2>7 DEF RingOK, LinkNxt, On, ksmdVars
  <2>9. QED
    BY <2>8, ExitLeftKeeps DEF Sound
<1>qed. QED
  BY <1>type, <1>sound

\* ksm_exit.
LEMMA KsmExitKeeps ==
  ASSUME SlotsTypeOK, Sound, ~raced, NEW m \in Mms, __ksm_exit(m)
  PROVE  SlotsTypeOK' /\ (~raced' => Sound')
<1>1. proc[m] = "exit" /\ UNCHANGED <<freed, owner, rmap, flag, refs, runVars, ksmdVars, cursor>>
  BY DEF __ksm_exit
<1>2. CASE (m \notin flag \/ SlotOf(m) = {}) /\ Gone(m) /\ UNCHANGED <<nxt, prv, hashed, raced>>
  BY <1>1, <1>2, ExitGoneKeeps DEF listVars
<1>3. ASSUME m \in flag, NEW s \in SlotOf(m), EasyToFree(s), hashed' = hashed \ {s}, Unlinked(s),
             proc' = [proc EXCEPT ![m] = "free"], UNCHANGED area,
             raced' = (HeldAside(s) \/ pc = "odel2")
      PROVE  SlotsTypeOK' /\ (~raced' => Sound')
  BY <1>1, <1>3, ExitEasyKeeps
<1>4. ASSUME m \in flag, NEW s \in SlotOf(m), s # cursor, MovedBehind(s, cursor),
             proc' = [proc EXCEPT ![m] = "sync"], raced' = CursorDangles, UNCHANGED <<area, hashed>>
      PROVE  SlotsTypeOK' /\ (~raced' => Sound')
  BY <1>1, <1>4, ExitMovedKeeps
<1>5. ASSUME m \in flag, proc' = [proc EXCEPT ![m] = "sync"],
             UNCHANGED <<area, nxt, prv, hashed, raced>>
      PROVE  SlotsTypeOK' /\ (~raced' => Sound')
  <2>1. SlotsTypeOK'
    BY <1>1, <1>5 DEF SlotsTypeOK, runVars, ksmdVars
  <2>2. RingOK'
    BY <1>1, <1>5 DEF Sound, RingOK, LinkNxt, On, ksmdVars
  <2>3. QED
    BY <1>1, <1>5, <2>1, <2>2, ExitLeftKeeps DEF Sound
<1>6. QED
  BY <1>2, <1>3, <1>4, <1>5 DEF __ksm_exit

\* The end of __ksm_exit: the process frees its slot.
LEMMA ExitFreeKeeps ==
  ASSUME SlotsTypeOK, Sound, ~raced, NEW m \in Mms, ExitFree(m)
  PROVE  SlotsTypeOK' /\ Sound'
<1>hand. InHand
  BY InHandHolds
<1>nat. DOMAIN owner \subseteq Nat
  BY SlotsAssumption DEF SlotsTypeOK, Slots
<1>free. proc[m] = "free" /\ m \in flag /\ SlotOf(m) = {}
  BY DEF ExitFree, Sound, Limbo
<1>pick. PICK s \in DOMAIN owner \ freed : owner[s] = m
  BY <1>free DEF Sound, Flags, HasSlot
<1>last. \A t \in DOMAIN owner : owner[t] = m => t <= s
  BY <1>pick DEF Sound, OneSlot
<1>only. \A t \in DOMAIN owner \ freed : owner[t] = m => t = s
  BY <1>pick, <1>nat DEF Sound, OneSlot
<1>the. (CHOOSE t \in DOMAIN owner : owner[t] = m /\ \A u \in DOMAIN owner : owner[u] = m => u <= t) = s
  <2>1. \A t \in DOMAIN owner :
           (owner[t] = m /\ \A u \in DOMAIN owner : owner[u] = m => u <= t) => t = s
    BY <1>pick, <1>last, <1>nat
  <2>2. QED
    BY <1>pick, <1>last, <2>1
<1>act. /\ freed' = freed \cup {s} /\ flag' = flag \ {m} /\ refs' = [refs EXCEPT ![m] = @ - 1]
        /\ proc' = [proc EXCEPT ![m] = "gone"] /\ area' = [area EXCEPT ![m] = "none"]
        /\ UNCHANGED <<nxt, prv, hashed, owner, rmap, ksm_run, offloading, pc, cur, next, pos,
                       cursor, raced>>
  BY <1>the, <1>pick DEF ExitFree, SlotFreed, Gone, runVars, ksmdVars
<1>off. s \notin hashed /\ ~(pc \in Freeing /\ cur = s)
  BY <1>pick, <1>free DEF SlotOf, Sound, Limbo
<1>type. SlotsTypeOK'
  BY <1>act, <1>pick DEF SlotsTypeOK
<1>same. RingOK' /\ Held'
  BY <1>act DEF Sound, RingOK, LinkNxt, On, Held, Head
<1>alloc. Alloc' /\ OneSlot'
  BY <1>act, <1>off, <1>pick DEF Sound, Alloc, OneSlot
<1>flags. Flags'
  <2>1. \A l \in Mms : HasSlot(l)' <=> HasSlot(l) /\ l # m
    BY <1>act, <1>pick, <1>only DEF HasSlot
  <2>2. QED
    BY <1>act, <1>free, <2>1 DEF Sound, Flags, SlotsTypeOK
<1>away. pc \in AtCursor \cup Freeing => owner[cur] # m /\ owner[cur] \in Mms
  BY <1>hand, <1>only, <1>off DEF InHand, Sound, Held, AtCursor
<1>limbo. Limbo'
  <2>1. \A t \in DOMAIN owner' \ (freed' \cup hashed') :
           proc'[owner'[t]] = "free" \/ (pc' \in Freeing /\ cur' = t)
    BY <1>act, <1>only DEF Sound, Limbo, SlotsTypeOK
  <2>2. \A l \in Mms : proc'[l] = "free" => l \in flag' /\ SlotOf(l)' = {}
    BY <1>act DEF Sound, Limbo, SlotsTypeOK, SlotOf
  <2>3. pc' \in Freeing => /\ cur' \in DOMAIN owner' \ (freed' \cup hashed')
                          /\ proc'[owner'[cur']] # "free"
    BY <1>act, <1>away, <1>off DEF Sound, Limbo, SlotsTypeOK
  <2>4. QED
    BY <2>1, <2>2, <2>3 DEF Limbo
<1>locked. Locked'
  BY <1>act, <1>away DEF Sound, Locked, SlotsTypeOK, AtCursor, Freeing
<1>unneeded. Unneeded'
  BY <1>act, <1>away DEF Sound, Unneeded, SlotsTypeOK, AtCursor, Freeing, ksm_test_exit
<1>qed. QED
  BY <1>type, <1>same, <1>alloc, <1>flags, <1>limbo, <1>locked, <1>unneeded DEF Sound

-----------------------------------------------------------------------------
(* The inductive invariant.                                                *)

\* The list starts empty.
LEMMA SlotsInit == Init => SlotsInv
<1> SUFFICES ASSUME Init PROVE SlotsInv
  OBVIOUS
<1>1. DOMAIN owner = {} /\ Cardinality(DOMAIN owner) = 0
  BY FS_EmptySet DEF Init
<1>2. SlotsTypeOK
  <2>1. nxt \in [Nodes -> Nodes \cup {Poison}] /\ prv \in [Nodes -> Nodes \cup {Poison}]
    BY DEF Init, Nodes
  <2>2. proc \in [Mms -> {"run", "grab", "exit", "free", "sync", "gone"}] /\ refs \in [Mms -> Int]
        /\ area \in [Mms -> {"none", "absent", "present"}]
    BY DEF Init
  <2>3. QED
    BY <1>1, <2>1, <2>2 DEF Init, SlotsTypeOK, Nodes
<1>3. RingOK
  BY DEF Init, RingOK, Ring, LinkNxt, On, Nodes, Head
<1>4. Alloc
  BY <1>1, SlotsAssumption DEF Init, Alloc
<1>5. OneSlot /\ Flags /\ Limbo
  BY <1>1 DEF Init, OneSlot, Flags, HasSlot, Limbo, Freeing
<1>6. Held /\ Locked /\ Unneeded
  BY DEF Init, Held, On, AtCursor, Offloading, Locked, Freeing, Unneeded
<1>7. ~raced
  BY DEF Init
<1>8. QED
  BY <1>2, <1>3, <1>4, <1>5, <1>6, <1>7 DEF SlotsInv, Sound

\* The windows are those of prepare_metadata: the local walks keep the cursor on the list.
LEMMA RacedInWindow ==
  ASSUME SlotsTypeOK, Sound, ~raced, NEW m \in Mms, Process(m), raced'
  PROVE  pc' \in Offloading \cup {"oend"}
<1>1. pc' = pc /\ (CursorDangles \/ pc = "odel2" \/ \E s \in Slots : HeldAside(s))
  <2>1. CASE ksm_madvise(m)
    BY <2>1 DEF ksm_madvise, ksmdVars
  <2>2. CASE __ksm_exit(m)
    <3>1. SlotOf(m) \subseteq Slots
      BY DEF SlotOf, SlotsTypeOK
    <3>2. QED
      BY <2>2, <3>1 DEF __ksm_exit, ksmdVars
  <2>3. QED
    BY <2>1, <2>2 DEF Process, EnterGrab, UseArea, Exit, ExitFree, ExitSync
<1>2. cursor \in freed => pc \in Offloading \cup {"oend"}
  <2>1. Head \notin freed /\ hashed \cap freed = {}
    BY SlotsAssumption DEF Sound, Alloc, SlotsTypeOK, Slots, Head
  <2>2. pc \in {"idle", "lock", "ulock", "free", "ufree"} \cup AtCursor => cursor \notin freed
    BY <2>1 DEF Sound, Held, On
  <2>3. QED
    BY <2>2 DEF SlotsTypeOK, AtCursor, Offloading
<1>3. QED
  BY <1>1, <1>2 DEF CursorDangles, HeldAside, Offloading

\* Every step keeps SlotsInv.
LEMMA SlotsStep == SlotsInv /\ [Next]_vars => SlotsInv'
<1> SUFFICES ASSUME SlotsInv, [Next]_vars PROVE SlotsInv'
  OBVIOUS
<1>1. CASE UNCHANGED vars
  <2>1. SlotsTypeOK'
    BY <1>1 DEF SlotsInv, SlotsTypeOK, vars, listVars, procVars, runVars, ksmdVars
  <2>2. ASSUME ~raced' PROVE Sound'
    BY <1>1, <2>2 DEF SlotsInv, vars, listVars, procVars, runVars, ksmdVars,
      Sound, RingOK, LinkNxt, On, Alloc, OneSlot, Flags, HasSlot, Limbo, SlotOf, Held, Locked,
      Unneeded, ksm_test_exit
  <2>3. raced' => pc' \in Offloading \cup {"oend"}
    BY <1>1 DEF SlotsInv, vars, ksmdVars
  <2>4. QED
    BY <2>1, <2>2, <2>3 DEF SlotsInv
<1>2. CASE Next
  <2>0. SlotsTypeOK /\ Sound /\ ~raced
    BY <1>2 DEF Next, SlotsInv
  <2>1. ASSUME Ksmd PROVE SlotsTypeOK' /\ Sound' /\ raced' = raced
    <3>1. raced' = raced
      BY <2>1 DEF Ksmd, ScanStart, ScanLock, ScanItem, ScanPast, ScanDone, ScanFree, OffloadStart,
         OffloadEnter, OffloadLock, OffloadWalk, OffloadTrail, OffloadDel1, OffloadDel2,
         OffloadFree, OffloadNext, OffloadEnd
    <3>2. QED
      BY <3>1, <2>0, <2>1, ScanStartKeeps, ScanLockKeeps, ScanItemKeeps, ScanPastKeeps, ScanDoneKeeps,
       ScanFreeKeeps, OffloadStartKeeps, OffloadEnterKeeps, OffloadLockKeeps, OffloadWalkKeeps,
       OffloadTrailKeeps, OffloadDel1Keeps, OffloadDel2Keeps, OffloadFreeKeeps,
       OffloadNextKeeps, OffloadEndKeeps
    DEF Ksmd
  <2>2. ASSUME run_store \/ Unmerge PROVE SlotsTypeOK' /\ Sound' /\ raced' = raced
    <3>1. raced' = raced
      BY <2>2 DEF run_store, Unmerge, UnmergeLock, UnmergeWalk, UnmergeNext, UnmergeFree
    <3>2. QED
      BY <3>1, <2>0, <2>2, RunStoreKeeps, UnmergeLockKeeps, UnmergeWalkKeeps, UnmergeNextKeeps,
       UnmergeFreeKeeps
    DEF Unmerge
  <2>3. ASSUME NEW m \in Mms, Process(m) PROVE SlotsInv'
    BY RacedInWindow, <2>0, <2>3, MadviseKeptKeeps, MadviseNewKeeps, EnterGrabKeeps, UseAreaKeeps, ExitKeeps,
       KsmExitKeeps, ExitFreeKeeps, ExitSyncKeeps
    DEF Process, SlotsInv
  <2>4. QED
    BY <1>2, <2>0, <2>1, <2>2, <2>3 DEF Next, SlotsInv
<1>3. QED
  BY <1>1, <1>2

\* SlotsInv holds in every reachable state of the list.
THEOREM SlotsInvariant == Spec => []SlotsInv
BY SlotsInit, SlotsStep, PTL DEF Spec

-----------------------------------------------------------------------------
(* What it says about the code.                                            *)

\* The ring of SlotsInv is the list.
LEMMA SlotsInvIntact == SlotsInv => ListIntact
<1> SUFFICES ASSUME SlotsInv, ~raced, pc # "odel2"
             PROVE  /\ \A s \in On : nxt[s] \in On /\ prv[nxt[s]] = s
                    /\ \A T \in SUBSET On : (Head \in T /\ \A s \in T : nxt[s] \in T) => T = On
  BY DEF SlotsInv, ListIntact, On
<1>1. Ring(nxt, prv, On)
  BY DEF SlotsInv, Sound, RingOK, LinkNxt
<1>2. QED
  BY <1>1 DEF Ring

\* The list of ksm_mm_head is one ring of exactly the hashed slots, in both
\* directions, however __ksm_enter, __ksm_exit and the three walks change it,
\* up to the windows prepare_metadata leaves open by working without the lock.
THEOREM ListIntactTheorem == Spec => []ListIntact
BY SlotsInvariant, SlotsInvIntact, PTL

\* Held says where the pointers of a walk may be, and no local walk sees a race.
LEMMA SlotsInvLocal == SlotsInv => LocalSlotsAllocated
<1> SUFFICES ASSUME SlotsInv PROVE LocalSlotsAllocated
  OBVIOUS
<1>1. CASE raced
  BY <1>1 DEF SlotsInv, Offloading, LocalSlotsAllocated
<1>2. CASE ~raced
  <2>1. Held
    BY <1>2 DEF SlotsInv, Sound
  <2>2. QED
    BY <2>1 DEF Held, AtCursor, On, LocalSlotsAllocated
<1>3. QED
  BY <1>1, <1>2

\* Neither ksm_scan.mm_slot nor the slot in hand is a freed slot, or one that was taken
\* off, when scan_get_next_rmap_item or unmerge_and_remove_all_rmap_items come to use it.
THEOREM LocalSlotsTheorem == Spec => []LocalSlotsAllocated
BY SlotsInvariant, SlotsInvLocal, PTL

\* Flags and OneSlot count the slots of an mm: one or none.
LEMMA SlotsInvReference == SlotsInv => ReferenceExact
<1> SUFFICES ASSUME SlotsInv, ~raced, NEW m \in Mms
             PROVE  /\ refs[m] >= 0
                    /\ refs[m] = Cardinality({s \in DOMAIN owner : owner[s] = m /\ s \notin freed})
                                   - (IF proc[m] = "grab" THEN 1 ELSE 0)
  BY DEF ReferenceExact
<1> DEFINE mine == {s \in DOMAIN owner : owner[s] = m /\ s \notin freed}
<1>1. Flags /\ OneSlot /\ DOMAIN owner \subseteq Nat
  BY SlotsAssumption DEF SlotsInv, Sound, SlotsTypeOK, Slots
<1>2. CASE HasSlot(m)
  <2>1. PICK s \in mine : TRUE
    BY <1>2 DEF HasSlot
  <2>2. mine = {s}
    BY <1>1, <2>1 DEF OneSlot
  <2>3. Cardinality(mine) = 1
    BY <2>2, FS_Singleton
  <2>4. QED
    BY <1>1, <1>2, <2>3 DEF Flags
<1>3. CASE ~HasSlot(m)
  <2>1. mine = {}
    BY <1>3 DEF HasSlot
  <2>2. Cardinality(mine) = 0
    BY <2>1, FS_EmptySet
  <2>3. QED
    BY <1>1, <1>3, <2>2 DEF Flags
<1>4. QED
  BY <1>2, <1>3

\* mmgrab and mmdrop pair up: an mm is held exactly once for each of its slots
\* that is not freed, whoever frees the slot.
THEOREM ReferenceTheorem == Spec => []ReferenceExact
BY SlotsInvariant, SlotsInvReference, PTL

\* Locked keeps an exiting process out of the tables a walk is in.
LEMMA SlotsInvTables == SlotsInv => WalkedTablesExist
BY DEF SlotsInv, Sound, Locked, WalkedTablesExist

\* No walk is in the page tables of an mm that has passed through ksm_exit.
THEOREM TablesTheorem == Spec => []WalkedTablesExist
BY SlotsInvariant, SlotsInvTables, PTL

\* Unneeded is what the local scan and the unmerge walk know of a slot they free.
LEMMA SlotsInvDrops == SlotsInv => LocalDropsUnneeded
<1> SUFFICES ASSUME SlotsInv PROVE LocalDropsUnneeded
  OBVIOUS
<1>1. CASE raced
  BY <1>1 DEF SlotsInv, Offloading, LocalDropsUnneeded
<1>2. CASE ~raced
  BY <1>2 DEF SlotsInv, Sound, Unneeded, LocalDropsUnneeded
<1>3. QED
  BY <1>1, <1>2

\* The local scan frees only slots of mms that are exiting or have no VM_MERGEABLE area,
\* and the unmerge walk only those of exiting mms.
THEOREM LocalDropsTheorem == Spec => []LocalDropsUnneeded
BY SlotsInvariant, SlotsInvDrops, PTL

\* Flags relates the flag to the slots that are not freed; Limbo and Unneeded say that
\* the slot of a running process no walk is reading is still on the list.
LEMMA SlotsInvFlag == SlotsInv => FlagMatchesList
<1> SUFFICES ASSUME SlotsInv, ~raced, NEW m \in Mms, proc[m] = "run", ~Reading(m)
             PROVE  m \in flag <=> SlotOf(m) # {}
  BY DEF FlagMatchesList
<1>1. m \in flag <=> HasSlot(m)
  BY DEF SlotsInv, Sound, Flags
<1>2. ASSUME NEW s \in DOMAIN owner \ freed, owner[s] = m PROVE s \in hashed
  <2>1. s \notin hashed => pc \in Freeing /\ cur = s
    BY <1>2 DEF SlotsInv, Sound, Limbo
  <2>2. pc \in Freeing /\ cur = s => pc = "ufree"
    BY <1>2 DEF Freeing, Reading
  <2>3. pc = "ufree" => ksm_test_exit(owner[cur])
    BY DEF SlotsInv, Sound, Unneeded
  <2>4. QED
    BY <1>2, <2>1, <2>2, <2>3 DEF ksm_test_exit
<1>3. hashed \subseteq DOMAIN owner \ freed
  BY DEF SlotsInv, Sound, Alloc
<1>4. QED
  BY <1>1, <1>2, <1>3 DEF HasSlot, SlotOf

\* MMF_VM_MERGEABLE says of every running process whether it is on the list, whenever
\* ksm_madvise can read it.
THEOREM FlagTheorem == Spec => []FlagMatchesList
BY SlotsInvariant, SlotsInvFlag, PTL

=============================================================================
