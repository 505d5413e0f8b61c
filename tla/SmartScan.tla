----------------------------- MODULE SmartScan ------------------------------
(***************************************************************************)
(* The smart scan of the SmartNIC server (codes/bask/server.h              *)
(* skip_volatile and should_skip_item, and the scores cmp_and_merge_one    *)
(* keeps): a page that changes often is skipped for 1, 2, 4 or 8           *)
(* iterations, depending on its volatility score and its age.  The module  *)
(* follows one rmap item from its creation; module BaskServer leaves the   *)
(* decision open (its action VolatileSkipped).                             *)
(*                                                                         *)
(* lookup_rmap_item sets neither volatility_score nor skip_cnt of a new    *)
(* item, so both start with any value of an unsigned short.  The widths    *)
(* are kept: the score and the skip count are unsigned short, the age is a *)
(* short, and skip_volatile takes the score as a short.                    *)
(***************************************************************************)
EXTENDS Integers

CONSTANTS
    Contents,    \* hash pairs of the contents of the page
    NullHash,    \* null_hash
    ShortRange   \* number of values of a short (2^16 in the build)

ASSUME SmartScanAssumption ==
    /\ NullHash \notin Contents
    /\ ShortRange \in Nat /\ ShortRange >= 16 /\ ShortRange % 2 = 0

VARIABLES
    state,             \* "Volatile" or "Stable", as the next scan finds it
    old_hash,
    volatility_score,
    skip_cnt,
    age,
    content,           \* what the page holds now
    moved,             \* the page is mapped to another frame than its node
    looked,            \* history: the item has been looked at before
    quiet,             \* history: visits since the page last changed, capped
    offered            \* history: found unchanged since it last changed

vars == <<state, old_hash, volatility_score, skip_cnt, age, content, moved, looked, quiet, offered>>

UShort == 0..ShortRange - 1

\* Conversion of an int to a short.
ToShort(n) == ((n + (ShortRange \div 2)) % ShortRange) - (ShortRange \div 2)

\* The longest pause skip_volatile gives, and the visits after which a page
\* must have been looked at twice.
MaxSkip == 8
QuietBound == 2 * (MaxSkip + 1)

-----------------------------------------------------------------------------
\* Mutant: the pause of a volatile page doubles once more.
skip_volatile_Longer(score, a) == IF score > 0 THEN 16 ELSE 0

skip_volatile(score, a) ==
    CASE score <= 0                    -> 0
      [] score > 0 /\ score + a < 3    -> 1
      [] score > 0 /\ score + a = 3    -> 2
      [] score > 0 /\ score + a = 4    -> 4
      [] score > 0 /\ score + a > 4    -> 8

\* One more change of the page, in the width of the score.
Raised(score) == (score + 1) % ShortRange

\* The visit is counted, up to the bound.
CountVisit == quiet' = IF quiet < QuietBound THEN quiet + 1 ELSE quiet

\* A volatile item is skipped: should_skip_item counts down.
SkipLeft == skip_cnt - 1

Skip(score) ==
    /\ skip_cnt > 0
    /\ skip_cnt' = SkipLeft
    /\ volatility_score' = score
    /\ state' = "Volatile"
    /\ UNCHANGED <<looked, offered>>

\* A volatile item is looked at: should_skip_item sets the next pause, from
\* the score before this look changes it.
LookAt(score, h, a) ==
    /\ skip_cnt = 0
    /\ skip_cnt' = skip_volatile(ToShort(score), a)
    /\ looked' = TRUE
    /\ old_hash' = content
    /\ IF h = content
       THEN /\ volatility_score' = IF score > 0 THEN score - 1 ELSE score
            /\ offered' = TRUE
            /\ state' \in {"Volatile", "Stable"}
       ELSE /\ volatility_score' = IF h = NullHash THEN score ELSE Raised(score)
            /\ state' = "Volatile"
            /\ UNCHANGED offered

\* The volatile branch of cmp_and_merge_one, for an item with this score and
\* hash (the ones a Stable item has been reset to, when it has moved).
VolatileVisit(score, h) ==
    /\ age' = ToShort(age + 1)
    /\ \/ Skip(score) /\ old_hash' = h /\ CountVisit
       \/ /\ LookAt(score, h, age')
          /\ IF looked THEN CountVisit ELSE quiet' = 0
    /\ moved' = FALSE
    /\ UNCHANGED content

VisitVolatile ==
    /\ state = "Volatile"
    /\ VolatileVisit(volatility_score, old_hash)

\* A Stable item that has kept its frame; a changed content is adopted.
VisitStable ==
    /\ state = "Stable" /\ ~moved
    /\ old_hash' = content
    /\ volatility_score' = IF volatility_score > 0 THEN volatility_score - 1
                                                   ELSE volatility_score
    /\ offered' = TRUE
    /\ CountVisit
    /\ UNCHANGED <<state, skip_cnt, age, content, moved, looked>>

\* A Stable item that is mapped to another frame: its score rises, and the
\* switch is entered again with a volatile item that has no hash.
VisitMoved ==
    /\ state = "Stable" /\ moved
    /\ VolatileVisit(Raised(volatility_score), NullHash)

\* The guest writes to the page between two scans.  A page the host has merged
\* is copied to another frame; one it has not merged yet stays where it is.
Write ==
    /\ \E c \in Contents \ {content} : content' = c
    /\ moved' = (moved \/ state = "Stable")
    /\ offered' = FALSE
    /\ quiet' = 0
    /\ UNCHANGED <<state, old_hash, volatility_score, skip_cnt, age, looked>>

WriteBeforeMerge ==
    /\ state = "Stable" /\ ~moved
    /\ \E c \in Contents \ {content} : content' = c
    /\ offered' = FALSE
    /\ quiet' = 0
    /\ UNCHANGED <<state, old_hash, volatility_score, skip_cnt, age, moved, looked>>

\* The host could not do the merge: do_handle_error resets the item and raises
\* its score, for a failed stable merge (MERGE_ONE_FAILED) itself and for a
\* failed unstable one (MERGE_TWO_FAILED) in reset_each_item_state.
MergeUndone ==
    /\ state = "Stable"
    /\ state' = "Volatile"
    /\ old_hash' = NullHash
    /\ volatility_score' = Raised(volatility_score)
    /\ moved' = FALSE
    /\ UNCHANGED <<skip_cnt, age, content, looked, quiet, offered>>

\* lookup_rmap_item has just made the item.
Init ==
    /\ state = "Volatile"
    /\ old_hash = NullHash
    /\ volatility_score \in UShort
    /\ skip_cnt \in UShort
    /\ age = 0
    /\ content \in Contents
    /\ moved = FALSE
    /\ looked = FALSE
    /\ quiet = 0
    /\ offered = FALSE

Next == VisitVolatile \/ VisitStable \/ VisitMoved \/ Write \/ WriteBeforeMerge \/ MergeUndone

Spec == Init /\ [][Next]_vars

-----------------------------------------------------------------------------
\* Every variable has its type; no score leaves its width.
TypeOK ==
    /\ state \in {"Volatile", "Stable"}
    /\ old_hash \in Contents \cup {NullHash}
    /\ volatility_score \in UShort
    /\ skip_cnt \in UShort
    /\ age \in (-(ShortRange \div 2))..((ShortRange \div 2) - 1)
    /\ content \in Contents
    /\ moved \in BOOLEAN
    /\ looked \in BOOLEAN
    /\ quiet \in 0..QuietBound
    /\ offered \in BOOLEAN

\* A page that has settled is not starved: whatever its score and age became,
\* wrapped around or not, once it has been looked at for the first time it
\* takes at most QuietBound visits without a change until cmp_and_merge_one
\* finds it unchanged and offers it for merging.
SettledIsOffered == (looked /\ quiet = QuietBound) => offered

\* Why: after the first look a pause is at most MaxSkip long; the first look
\* after a change comes when the pause of that time is over, and the second
\* one, which finds the page unchanged, one more pause later.
SettleInv ==
    /\ TypeOK
    /\ state = "Stable" => looked
    /\ looked => skip_cnt <= MaxSkip
    /\ (state = "Stable" /\ ~offered) => quiet = 0
    /\ (looked /\ ~offered) => quiet + skip_cnt <= QuietBound - 1
    /\ (looked /\ ~offered /\ old_hash # content) => quiet + skip_cnt <= MaxSkip
=============================================================================
