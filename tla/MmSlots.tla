------------------------------ MODULE MmSlots ------------------------------
(***************************************************************************)
(* The list of address spaces ksmd walks (ksm_mm_head, mm_slots_hash and   *)
(* the cursor ksm_scan.mm_slot): how processes put their mm on it and take *)
(* it off, and the three walks that ksm_thread_mutex keeps apart: the one  *)
(* of the local scan (scan_get_next_rmap_item), the one that unmerges      *)
(* (unmerge_and_remove_all_rmap_items) and the one that prepares an        *)
(* offloaded iteration (prepare_metadata).                                 *)
(*                                                                         *)
(* A section under ksm_mmlist_lock is one step.  prepare_metadata changes  *)
(* the list outside the lock, so its list_del is two steps.  A freed slot  *)
(* is never handed out again, so that every use of it shows.               *)
(***************************************************************************)
EXTENDS Integers, FiniteSets

CONSTANTS
    Mms,       \* address spaces
    MaxSlots   \* bound: slots allocated in a behaviour

ASSUME SlotsAssumption == IsFiniteSet(Mms) /\ MaxSlots \in Nat

Slots == 1 .. MaxSlots
Head == 0
Poison == -1
Nodes == Slots \cup {Head}

VARIABLES
    nxt, prv,   \* mm_node of each slot and of ksm_mm_head
    hashed,     \* slots of mm_slots_hash
    freed,      \* slots given back to mm_slot_cache
    owner,      \* the mm of each slot that was allocated, in order
    rmap,       \* slots whose rmap_list is not empty
    cursor,     \* ksm_scan.mm_slot
    proc,       \* where the process of an mm is
    flag,       \* mms with MMF_VM_MERGEABLE
    refs,       \* mmgrab minus mmdrop of this file, per mm
    area,       \* VM_MERGEABLE areas of an mm: none, absent (no page in them), present
    ksm_run,    \* what was last written to /sys/kernel/mm/ksm/run
    offloading, \* is_ksm_offload()
    pc,         \* where ksmd, or the writer of run, is in its walk
    cur, next,  \* its local slot pointers
    pos,        \* ksm_scan.address and rmap_list: start, areas (not 0), items (past one)
    raced       \* history: a process met one of the windows prepare_metadata leaves

listVars == <<nxt, prv, hashed, freed, owner, rmap>>
procVars == <<proc, flag, refs, area>>
runVars == <<ksm_run, offloading>>
ksmdVars == <<pc, cur, next, pos>>
vars == <<listVars, procVars, runVars, ksmdVars, cursor, raced>>

\* Every variable has its type: list nodes point to slots, the head or poison.
SlotsTypeOK ==
    /\ nxt \in [Nodes -> Nodes \cup {Poison}] /\ prv \in [Nodes -> Nodes \cup {Poison}]
    /\ hashed \subseteq Slots /\ freed \subseteq Slots /\ rmap \subseteq Slots
    /\ DOMAIN owner \subseteq Slots /\ \A s \in DOMAIN owner : owner[s] \in Mms
    /\ cursor \in Nodes /\ cur \in Nodes /\ next \in Nodes
    /\ proc \in [Mms -> {"run", "grab", "exit", "free", "sync", "gone"}]
    /\ flag \subseteq Mms
    /\ refs \in [Mms -> Int]
    /\ area \in [Mms -> {"none", "absent", "present"}]
    /\ ksm_run \in {"merge", "unmerge", "stop"} /\ offloading \in BOOLEAN
    /\ pc \in {"idle", "lock", "walk", "done", "free", "ulock", "uwalk", "unext", "ufree",
               "oenter", "olock", "owalk", "otrail", "odel1", "odel2", "ofree", "onext", "oend"}
    /\ pos \in {"start", "areas", "items"}
    /\ raced \in BOOLEAN

-----------------------------------------------------------------------------
(* The list.                                                               *)

\* list_del(s): both stores at once.
Unlinked(s) ==
    /\ nxt' = [nxt EXCEPT ![prv[s]] = nxt[s], ![s] = Poison]
    /\ prv' = [prv EXCEPT ![nxt[s]] = prv[s], ![s] = Poison]

\* list_add_tail(s, at): s becomes the one before at.
AddedBefore(s, at) ==
    /\ nxt' = [nxt EXCEPT ![prv[at]] = s, ![s] = at]
    /\ prv' = [prv EXCEPT ![at] = s, ![s] = prv[at]]

\* list_move(s, at): s is taken out and becomes the one after at.
MovedBehind(s, at) ==
    LET n1 == [nxt EXCEPT ![prv[s]] = nxt[s]]
        p1 == [prv EXCEPT ![nxt[s]] = prv[s]]
    IN  /\ nxt' = [n1 EXCEPT ![at] = s, ![s] = n1[at]]
        /\ prv' = [p1 EXCEPT ![n1[at]] = s, ![s] = at]

SlotOf(m) == {s \in hashed : owner[s] = m}

\* ksm_test_exit: the last user of the mm is gone.
ksm_test_exit(m) == proc[m] \in {"exit", "free", "sync", "gone"}

\* ksmd, or the writer of run, holds mmap_read_lock of the mm.
Reading(m) ==
    /\ pc \in {"walk", "done", "free", "uwalk", "owalk", "otrail", "odel1", "odel2", "ofree"}
    /\ owner[cur] = m

\* Mutant: madvise holds the lock for reading only.
Writing_NotExcluded(m) == FALSE

\* The process holds mmap_write_lock: it is inside ksm_madvise.
Writing(m) == proc[m] = "grab"

\* The windows of prepare_metadata: the cursor's slot is being taken off or was freed,
\* or the cursor is still the slot of the round before.
CursorDangles == pc \in {"odel2", "ofree"} \/ cursor \in freed
HeldAside(s) == (pc = "oenter" /\ s = cur)
                \/ (pc \in {"oenter", "olock", "owalk", "otrail", "odel1", "odel2", "ofree", "onext"}
                    /\ s = next)

-----------------------------------------------------------------------------
(* Processes.                                                              *)

\* MADV_MERGEABLE on an area, the part of __ksm_enter under ksm_mmlist_lock included.
ksm_madvise(m) ==
    /\ proc[m] = "run" /\ area[m] = "none" /\ ~Reading(m)
    /\ \/ /\ m \in flag
          /\ area' = [area EXCEPT ![m] = "absent"]
          /\ UNCHANGED <<nxt, prv, hashed, owner, proc, raced>>
       \/ /\ m \notin flag
          /\ Cardinality(DOMAIN owner) < MaxSlots
          /\ LET s == Cardinality(DOMAIN owner) + 1
             IN  /\ owner' = [t \in 1 .. s |-> IF t = s THEN m ELSE owner[t]]
                 /\ hashed' = hashed \cup {s}
                 /\ AddedBefore(s, IF ksm_run = "unmerge" THEN Head ELSE cursor)
          /\ proc' = [proc EXCEPT ![m] = "grab"]
          /\ raced' = CursorDangles
          /\ UNCHANGED area
    /\ UNCHANGED <<freed, rmap, flag, refs, runVars, ksmdVars, cursor>>

\* The rest of __ksm_enter, and the area's VM_MERGEABLE.
EnterGrab(m) ==
    /\ proc[m] = "grab"
    /\ flag' = flag \cup {m}
    /\ refs' = [refs EXCEPT ![m] = @ + 1]
    /\ area' = [area EXCEPT ![m] = "absent"]
    /\ proc' = [proc EXCEPT ![m] = "run"]
    /\ UNCHANGED <<listVars, runVars, ksmdVars, cursor, raced>>

\* The process writes to the area, gives its pages back, or unmaps it.
UseArea(m) ==
    /\ proc[m] = "run"
    /\ \/ area[m] = "absent" /\ area' = [area EXCEPT ![m] = "present"]
       \/ area[m] = "present" /\ area' = [area EXCEPT ![m] = "absent"]
       \/ area[m] # "none" /\ ~Reading(m) /\ area' = [area EXCEPT ![m] = "none"]
    /\ UNCHANGED <<listVars, proc, flag, refs, runVars, ksmdVars, cursor, raced>>

\* The last user of the mm goes.
Exit(m) ==
    /\ proc[m] = "run"
    /\ proc' = [proc EXCEPT ![m] = "exit"]
    /\ UNCHANGED <<listVars, flag, refs, area, runVars, ksmdVars, cursor, raced>>

\* A slot that is neither at the cursor nor has rmap items is taken off at once.
EasyToFree(s) == s # cursor /\ s \notin rmap

\* The page tables are freed.
Gone(m) ==
    /\ proc' = [proc EXCEPT ![m] = "gone"]
    /\ area' = [area EXCEPT ![m] = "none"]

\* ksm_exit: the part of __ksm_exit under ksm_mmlist_lock.
__ksm_exit(m) ==
    /\ proc[m] = "exit"
    /\ \/ /\ m \notin flag \/ SlotOf(m) = {}
          /\ Gone(m)
          /\ UNCHANGED <<nxt, prv, hashed, raced>>
       \/ /\ m \in flag
          /\ \E s \in SlotOf(m) :
                \/ /\ EasyToFree(s)
                   /\ hashed' = hashed \ {s}
                   /\ Unlinked(s)
                   /\ proc' = [proc EXCEPT ![m] = "free"] /\ UNCHANGED area
                   /\ raced' = (HeldAside(s) \/ pc = "odel2")
                \/ /\ s # cursor /\ ~EasyToFree(s)
                   /\ MovedBehind(s, cursor)
                   /\ proc' = [proc EXCEPT ![m] = "sync"] /\ UNCHANGED area
                   /\ raced' = CursorDangles
                   /\ UNCHANGED hashed
                \/ /\ s = cursor /\ ~EasyToFree(s)
                   /\ proc' = [proc EXCEPT ![m] = "sync"] /\ UNCHANGED area
                   /\ UNCHANGED <<nxt, prv, hashed, raced>>
    /\ UNCHANGED <<freed, owner, rmap, flag, refs, runVars, ksmdVars, cursor>>

\* Mutant: clear_bit(MMF_VM_MERGEABLE) is left out.
SlotFreed_FlagKept(s) ==
    /\ freed' = freed \cup {s}
    /\ refs' = [refs EXCEPT ![owner[s]] = @ - 1]
    /\ UNCHANGED flag

\* mm_slot_free, the flags and mmdrop, of the slot s of the mm.
SlotFreed(s) ==
    /\ freed' = freed \cup {s}
    /\ flag' = flag \ {owner[s]}
    /\ refs' = [refs EXCEPT ![owner[s]] = @ - 1]

ExitFree(m) ==
    /\ proc[m] = "free"
    /\ SlotFreed(CHOOSE s \in DOMAIN owner :
                    owner[s] = m /\ \A t \in DOMAIN owner : owner[t] = m => t <= s)
    /\ Gone(m)
    /\ UNCHANGED <<nxt, prv, hashed, owner, rmap, runVars, ksmdVars, cursor, raced>>

\* Mutant: the lock is not taken.
ExitSync_NoWait(m) ==
    /\ proc[m] = "sync"
    /\ Gone(m)
    /\ UNCHANGED <<listVars, flag, refs, runVars, ksmdVars, cursor, raced>>

\* mmap_write_lock and unlock; then the page tables are freed.
ExitSync(m) ==
    /\ proc[m] = "sync" /\ ~Reading(m)
    /\ Gone(m)
    /\ UNCHANGED <<listVars, flag, refs, runVars, ksmdVars, cursor, raced>>

-----------------------------------------------------------------------------
(* The local scan: scan_get_next_rmap_item, called by ksmd once per page.  *)

Loop(at) == IF at = Head THEN "idle" ELSE "lock"

\* A call with the cursor at the head starts a round; any other one goes on where it was.
ScanStart ==
    /\ pc = "idle" /\ ksm_run = "merge" /\ ~offloading /\ nxt[Head] # Head
    /\ IF cursor = Head
         THEN cursor' = nxt[Head] /\ pos' = "start"
         ELSE UNCHANGED <<cursor, pos>>
    /\ pc' = Loop(cursor')
    /\ UNCHANGED <<listVars, procVars, runVars, cur, next, raced>>

\* mmap_read_lock, and the test for an exit, which sets the address back to 0.
ScanLock ==
    /\ pc = "lock" /\ ~Writing(owner[cursor])
    /\ cur' = cursor
    /\ IF ksm_test_exit(owner[cursor])
         THEN pc' = "done" /\ pos' = "start"
         ELSE pc' = "walk" /\ UNCHANGED pos
    /\ UNCHANGED <<listVars, procVars, runVars, next, cursor, raced>>

\* A page was found: its rmap item is returned, and the lock with it.
ScanItem ==
    /\ pc = "walk" /\ area[owner[cur]] = "present" /\ pos # "items"
    /\ ~ksm_test_exit(owner[cur])
    /\ rmap' = rmap \cup {cur}
    /\ pos' = "items" /\ pc' = "idle" /\ cur' = Head
    /\ UNCHANGED <<nxt, prv, hashed, freed, owner, procVars, runVars, next, cursor, raced>>

\* The walk ran past the last area, or broke off because the mm is exiting; a last test
\* for an exit sets the address back to 0.
ScanPast ==
    /\ pc = "walk"
    /\ area[owner[cur]] = "present" => pos = "items" \/ ksm_test_exit(owner[cur])
    /\ pos' = CASE ksm_test_exit(owner[cur]) -> "start"
                [] ~ksm_test_exit(owner[cur]) /\ pos = "start" /\ area[owner[cur]] # "none" -> "areas"
                [] OTHER -> pos
    /\ pc' = "done"
    /\ UNCHANGED <<listVars, procVars, runVars, cur, next, cursor, raced>>

\* Mutant: no page was found, instead of no area.
NothingMergeable_Present == pos # "items"

\* ksm_scan.address == 0 at the end of the walk.
NothingMergeable == pos = "start"

\* Mutant: the cursor stays on a slot that is taken off.
CursorAdvanced_Late == cursor' = IF NothingMergeable THEN cursor ELSE nxt[cur]

\* The cursor moves on before the slot is taken off, under one lock.
CursorAdvanced == cursor' = nxt[cur]

\* remove_trailing_rmap_items, and the locked part: an mm with nothing to merge is taken off.
\* An exit since the last test is not seen.
ScanDone ==
    /\ pc = "done"
    /\ rmap' = IF pos # "items" THEN rmap \ {cur} ELSE rmap
    /\ CursorAdvanced
    /\ pos' = "start"
    /\ IF NothingMergeable
         THEN hashed' = hashed \ {cur} /\ Unlinked(cur) /\ pc' = "free" /\ UNCHANGED cur
         ELSE UNCHANGED <<hashed, nxt, prv>> /\ pc' = Loop(cursor') /\ cur' = Head
    /\ UNCHANGED <<freed, owner, procVars, runVars, next, raced>>

ScanFree ==
    /\ pc = "free"
    /\ SlotFreed(cur)
    /\ pc' = Loop(cursor) /\ cur' = Head
    /\ UNCHANGED <<nxt, prv, hashed, owner, rmap, proc, area, runVars, next, pos, cursor, raced>>

-----------------------------------------------------------------------------
(* Writing run: unmerge_and_remove_all_rmap_items.                         *)

ULoop(at) == IF at = Head THEN "idle" ELSE "ulock"

\* Writing 1 starts ksmd, 0 stops it where it is, 2 stops it and unmerges.
run_store ==
    /\ pc = "idle"
    /\ \/ /\ ksm_run' \in {"merge", "stop"} \ {ksm_run}
          /\ UNCHANGED <<cursor, pc>>
       \/ /\ ksm_run # "unmerge" /\ ksm_run' = "unmerge"
          /\ cursor' = nxt[Head]
          /\ pc' = ULoop(cursor')
    /\ UNCHANGED <<listVars, procVars, offloading, cur, next, pos, raced>>

UnmergeLock ==
    /\ pc = "ulock" /\ ~Writing(owner[cursor])
    /\ cur' = cursor
    /\ pc' = IF ksm_test_exit(owner[cursor]) THEN "unext" ELSE "uwalk"
    /\ UNCHANGED <<listVars, procVars, runVars, next, pos, cursor, raced>>

\* unmerge_ksm_pages may fail, and ends the walk.
UnmergeWalk ==
    /\ pc = "uwalk"
    /\ \/ /\ pc' = "unext"
          /\ UNCHANGED <<ksm_run, cursor, cur>>
       \/ /\ area[owner[cur]] = "present"
          /\ ksm_run' = "stop" /\ cursor' = Head /\ pc' = "idle" /\ cur' = Head
    /\ UNCHANGED <<listVars, procVars, offloading, next, pos, raced>>

UnmergeNext ==
    /\ pc = "unext"
    /\ rmap' = rmap \ {cur}
    /\ CursorAdvanced
    /\ IF ksm_test_exit(owner[cur])
         THEN hashed' = hashed \ {cur} /\ Unlinked(cur) /\ pc' = "ufree" /\ UNCHANGED cur
         ELSE UNCHANGED <<hashed, nxt, prv>> /\ pc' = ULoop(cursor') /\ cur' = Head
    /\ UNCHANGED <<freed, owner, procVars, runVars, next, pos, raced>>

UnmergeFree ==
    /\ pc = "ufree"
    /\ SlotFreed(cur)
    /\ pc' = ULoop(cursor) /\ cur' = Head
    /\ UNCHANGED <<nxt, prv, hashed, owner, rmap, proc, area, runVars, next, pos, cursor, raced>>

-----------------------------------------------------------------------------
(* An offloaded iteration: the loop of prepare_metadata.                   *)

OffloadStart ==
    /\ pc = "idle" /\ ksm_run = "merge" /\ offloading /\ nxt[Head] # Head
    /\ cur' = nxt[Head] /\ next' = nxt[cur']
    /\ pc' = "oenter"
    /\ UNCHANGED <<listVars, procVars, runVars, pos, cursor, raced>>

\* The lock is dropped before the cursor is stored.
OffloadEnter ==
    /\ pc = "oenter"
    /\ cursor' = cur /\ pos' = "start"
    /\ pc' = "olock"
    /\ UNCHANGED <<listVars, procVars, runVars, cur, next, raced>>

OffloadLock ==
    /\ pc = "olock" /\ ~Writing(owner[cur])
    /\ pc' = IF ksm_test_exit(owner[cur]) THEN "otrail" ELSE "owalk"
    /\ UNCHANGED <<listVars, procVars, runVars, cur, next, pos, cursor, raced>>

\* init_shadow_for_mm: an mm with a page is registered; ksm_scan.address only moves
\* when a page is met.
OffloadWalk ==
    /\ pc = "owalk"
    /\ IF area[owner[cur]] = "present"
         THEN rmap' = rmap \cup {cur} /\ pc' = "onext"
         ELSE pc' = "otrail" /\ UNCHANGED rmap
    /\ UNCHANGED <<nxt, prv, hashed, freed, owner, procVars, runVars, cur, next, pos, cursor, raced>>

\* Mutant: the slot of an exited mm stays.
OffloadTrail_Kept ==
    /\ pc = "otrail"
    /\ pc' = IF ksm_test_exit(owner[cur]) THEN "onext" ELSE "odel1"
    /\ UNCHANGED <<listVars, procVars, runVars, cur, next, pos, cursor, raced>>

\* remove_trailing_rmap_items, from the start of the list.
OffloadTrail ==
    /\ pc = "otrail"
    /\ rmap' = rmap \ {cur}
    /\ pc' = "odel1"
    /\ UNCHANGED <<nxt, prv, hashed, freed, owner, procVars, runVars, cur, next, pos, cursor, raced>>

\* Mutant: hash_del is missing.
OffloadDel1_StillHashed ==
    /\ pc = "odel1"
    /\ prv' = [prv EXCEPT ![nxt[cur]] = prv[cur]]
    /\ pc' = "odel2"
    /\ UNCHANGED <<nxt, hashed, freed, owner, rmap, procVars, runVars, cur, next, pos, cursor, raced>>

\* hash_del, and the first store of list_del, without the lock.
OffloadDel1 ==
    /\ pc = "odel1"
    /\ hashed' = hashed \ {cur}
    /\ prv' = [prv EXCEPT ![nxt[cur]] = prv[cur]]
    /\ pc' = "odel2"
    /\ UNCHANGED <<nxt, freed, owner, rmap, procVars, runVars, cur, next, pos, cursor, raced>>

\* Its second store, and the poison.
OffloadDel2 ==
    /\ pc = "odel2"
    /\ nxt' = [nxt EXCEPT ![prv[cur]] = nxt[cur], ![cur] = Poison]
    /\ prv' = [prv EXCEPT ![cur] = Poison]
    /\ pc' = "ofree"
    /\ UNCHANGED <<hashed, freed, owner, rmap, procVars, runVars, cur, next, pos, cursor, raced>>

OffloadFree ==
    /\ pc = "ofree"
    /\ SlotFreed(cur)
    /\ pc' = "onext"
    /\ UNCHANGED <<nxt, prv, hashed, owner, rmap, proc, area, runVars, cur, next, pos, cursor, raced>>

\* The lock again, and the saved next.
OffloadNext ==
    /\ pc = "onext"
    /\ IF next = Head
         THEN pc' = "oend" /\ cur' = Head /\ UNCHANGED next
         ELSE pc' = "oenter" /\ cur' = next /\ next' = nxt[next]
    /\ UNCHANGED <<listVars, procVars, runVars, pos, cursor, raced>>

\* The cursor goes back to the head; the iteration may lose the server, and ksmd
\* then scans on its own.
OffloadEnd ==
    /\ pc = "oend"
    /\ cursor' = Head
    /\ pc' = "idle" /\ pos' = "start"
    /\ offloading' \in BOOLEAN
    /\ UNCHANGED <<listVars, procVars, ksm_run, cur, next, raced>>

-----------------------------------------------------------------------------
Init ==
    /\ nxt = [s \in Nodes |-> IF s = Head THEN Head ELSE Poison]
    /\ prv = [s \in Nodes |-> IF s = Head THEN Head ELSE Poison]
    /\ hashed = {} /\ freed = {} /\ rmap = {} /\ owner = <<>>
    /\ cursor = Head /\ cur = Head /\ next = Head
    /\ proc = [m \in Mms |-> "run"] /\ area = [m \in Mms |-> "none"]
    /\ flag = {} /\ refs = [m \in Mms |-> 0]
    /\ ksm_run = "merge" /\ offloading \in BOOLEAN
    /\ pc = "idle" /\ pos = "start"
    /\ raced = FALSE

Ksmd ==
    \/ ScanStart \/ ScanLock \/ ScanItem \/ ScanPast \/ ScanDone \/ ScanFree
    \/ OffloadStart \/ OffloadEnter \/ OffloadLock \/ OffloadWalk \/ OffloadTrail
    \/ OffloadDel1 \/ OffloadDel2 \/ OffloadFree \/ OffloadNext \/ OffloadEnd

Unmerge == UnmergeLock \/ UnmergeWalk \/ UnmergeNext \/ UnmergeFree

Process(m) == ksm_madvise(m) \/ EnterGrab(m) \/ UseArea(m) \/ Exit(m)
              \/ __ksm_exit(m) \/ ExitFree(m) \/ ExitSync(m)

\* After a race the list is undefined: the behaviour ends.
Next == ~raced /\ (Ksmd \/ run_store \/ Unmerge \/ \E m \in Mms : Process(m))

Spec == Init /\ [][Next]_vars

\* ksmd and the writer of run do not stop in the middle of a walk, nor a process inside
\* ksm_madvise or ksm_exit; processes start to exit, use and map areas as they like.
Fairness ==
    /\ WF_vars(~raced /\ Ksmd)
    /\ WF_vars(~raced /\ Unmerge)
    /\ \A m \in Mms : WF_vars(~raced /\ (EnterGrab(m) \/ __ksm_exit(m) \/ ExitFree(m) \/ ExitSync(m)))

FairSpec == Spec /\ Fairness

-----------------------------------------------------------------------------
(* Properties.  Those that mention raced hold up to the first time a       *)
(* process meets one of the windows CursorDangles and HeldAside describe.  *)

\* The list from ksm_mm_head is a ring of exactly the hashed slots, in both directions,
\* whatever __ksm_enter, __ksm_exit and the three walks did to it, except between the
\* two stores of prepare_metadata's list_del; and no pointer in use is poison.  All of
\* it is one ring: what holds the head and is closed under nxt holds every slot.
ListIntact ==
    LET On == hashed \cup {Head}
    IN  /\ SlotsTypeOK
        /\ ~raced /\ pc # "odel2" =>
             /\ \A s \in On : nxt[s] \in On /\ prv[nxt[s]] = s
             /\ \A T \in SUBSET On : (Head \in T /\ \A s \in T : nxt[s] \in T) => T = On

\* The local scan and the unmerge walk never hold a pointer to a slot that was freed or
\* taken off when they come to use it, neither the cursor nor the slot in hand, whatever
\* prepare_metadata did to the list in the rounds before.  No premise on raced: a race
\* takes place, and ends the behaviour, inside prepare_metadata.
LocalSlotsAllocated ==
    /\ pc \in {"lock", "ulock"} => cursor \in hashed
    /\ pc \in {"idle", "walk", "done", "free", "uwalk", "unext", "ufree"} =>
           cursor \in hashed \cup {Head}
    /\ pc \in {"walk", "done", "uwalk", "unext"} => cur \in hashed

\* "if it's at the cursor [...] leave the mm_slot on the list for ksmd to free" (__ksm_exit,
\* ksm.c:3237): the slot a walk has in hand, and the next one prepare_metadata saved, are
\* not freed or taken off by the exiting process before the walk uses them.  Violated:
\* prepare_metadata drops the lock before it stores the cursor, and keeps next across it.
HeldSlotsAllocated ==
    /\ LocalSlotsAllocated
    /\ pc \in {"oenter", "olock", "owalk", "otrail", "odel1"} => cur \in hashed
    /\ pc \in {"oenter", "olock", "owalk", "otrail", "odel1", "odel2", "ofree", "onext"} =>
           next \in hashed \cup {Head}

\* The mm_struct is held once for each slot that is not freed: whoever frees the slot,
\* ksmd or the exiting process, drops the mm, exactly once, and never before
\* __ksm_enter took its reference.
ReferenceExact ==
    ~raced =>
        \A m \in Mms :
            /\ refs[m] >= 0
            /\ refs[m] = Cardinality({s \in DOMAIN owner : owner[s] = m /\ s \notin freed})
                           - (IF proc[m] = "grab" THEN 1 ELSE 0)

\* "ksmd, and unmerge_and_remove_all_rmap_items(), must not touch an mm's page tables
\* after it has passed through ksm_exit()" (ksm.c:684).
WalkedTablesExist ==
    ~raced /\ pc \in {"walk", "uwalk", "owalk"} => proc[owner[cur]] # "gone"

\* "We've completed a full scan of all vmas, holding mmap_lock throughout, and found no
\* VM_MERGEABLE" (scan_get_next_rmap_item): a slot the local scan frees is that of an mm
\* that is exiting or has no VM_MERGEABLE area, also when the area was mapped, filled or
\* unmapped between two calls; one the unmerge walk frees is that of an exiting mm.
\* prepare_metadata frees slots of mms with an area no page of which is there.
LocalDropsUnneeded ==
    /\ pc = "free" => ksm_test_exit(owner[cur]) \/ area[owner[cur]] = "none"
    /\ pc = "ufree" => ksm_test_exit(owner[cur])

\* MMF_VM_MERGEABLE tells whether the mm is on the list, whenever its process can read it
\* in ksm_madvise: a process that a walk took off, also prepare_metadata's while the area
\* had no page, enters again with its next MADV_MERGEABLE and one that is on the list
\* does not enter twice.
FlagMatchesList ==
    ~raced =>
        \A m \in Mms :
            proc[m] = "run" /\ ~Reading(m) => (m \in flag <=> SlotOf(m) # {})

\* "leave the mm_slot on the list for ksmd to free" (__ksm_exit): it does, while run is 1.
ExitedSlotFreed ==
    \A m \in Mms :
        (proc[m] = "gone" /\ SlotOf(m) # {}) ~> (SlotOf(m) = {} \/ raced \/ ksm_run # "merge")

=============================================================================
