-------------------------- MODULE SmartScan_proofs --------------------------
(***************************************************************************)
(* The smart scan starves no settled page, for every width of a short.     *)
(***************************************************************************)
EXTENDS SmartScan, TLAPS

\* A raised score keeps its width.
LEMMA RaisedType ==
  ASSUME NEW score \in UShort
  PROVE  Raised(score) \in UShort
<1>1. ShortRange \in Nat /\ ShortRange >= 16 /\ score + 1 \in Nat
  BY SmartScanAssumption DEF UShort
<1>2. (score + 1) % ShortRange \in 0..ShortRange - 1
  BY <1>1
<1>3. QED
  BY <1>2 DEF Raised, UShort

\* An int converted to a short is in the range of a short.
LEMMA ToShortType ==
  ASSUME NEW n \in Int
  PROVE  /\ ToShort(n) \in Int
         /\ ToShort(n) \in (-(ShortRange \div 2))..((ShortRange \div 2) - 1)
<1> DEFINE H == ShortRange \div 2
<1>1. ShortRange \in Nat /\ ShortRange >= 16 /\ ShortRange % 2 = 0
  BY SmartScanAssumption
<1>2. H \in Nat /\ ShortRange = 2 * H
  BY <1>1
<1>3. (n + H) % ShortRange \in 0..ShortRange - 1
  BY <1>1, <1>2
<1>4. ((n + H) % ShortRange) - H \in (-H)..(H - 1)
  <2> DEFINE q == (n + H) % ShortRange
  <2>1. q \in Int /\ 0 <= q /\ q <= 2 * H - 1
    BY <1>1, <1>2, <1>3
  <2> HIDE DEF q, H
  <2>2. q - H \in (-H)..(H - 1)
    BY <1>2, <2>1
  <2>3. QED
    BY <2>2 DEF q
<1>5. ((n + H) % ShortRange) - H \in Int
  BY <1>2, <1>3
<1>6. QED
  BY <1>4, <1>5 DEF ToShort

\* A pause is at most MaxSkip visits long.
LEMMA PauseBound ==
  ASSUME NEW score \in Int, NEW a \in Int
  PROVE  skip_volatile(score, a) \in 0..MaxSkip
  BY DEF skip_volatile, MaxSkip

\* The visits until a look and the pause after it.
LEMMA TwoPauses ==
  /\ \A q, s \in Int : (q <= 9 /\ s <= 8) => q + s <= 17
  /\ \A q \in Int : q <= 8 => (IF q < 18 THEN q + 1 ELSE q) \in Int
                             /\ (IF q < 18 THEN q + 1 ELSE q) <= 9
  /\ 0 \in Int /\ 0 <= 9
  OBVIOUS

\* A visit of a volatile item keeps the invariant.
LEMMA VolatileVisitInv ==
  ASSUME SettleInv, NEW score \in UShort, NEW h \in Contents \cup {NullHash},
         VolatileVisit(score, h),
         \/ state = "Volatile" /\ h = old_hash
         \/ state = "Stable" /\ h = NullHash
  PROVE  SettleInv'
<1>1. score \in Int /\ skip_cnt \in Int /\ quiet \in 0..18 /\ skip_cnt >= 0
  BY SmartScanAssumption DEF SettleInv, TypeOK, UShort, QuietBound, MaxSkip
<1>2. age' \in Int /\ age' \in (-(ShortRange \div 2))..((ShortRange \div 2) - 1)
  <2>1. age + 1 \in Int
    BY SmartScanAssumption DEF SettleInv, TypeOK
  <2>2. QED
    BY <2>1, ToShortType DEF VolatileVisit
<1>3. ShortRange \in Nat /\ ShortRange >= 16
  BY SmartScanAssumption
<1>4. CASE Skip(score) /\ old_hash' = h /\ CountVisit
  <2>1. /\ skip_cnt > 0 /\ skip_cnt' = skip_cnt - 1 /\ volatility_score' = score
        /\ state' = "Volatile" /\ looked' = looked /\ offered' = offered
        /\ old_hash' = h /\ content' = content /\ moved' = FALSE
        /\ quiet' = IF quiet < 18 THEN quiet + 1 ELSE quiet
    BY <1>4 DEF Skip, SkipLeft, CountVisit, VolatileVisit, QuietBound, MaxSkip
  <2>2. TypeOK'
    <3>1. skip_cnt' \in UShort
      BY <2>1, <1>1, <1>3 DEF SettleInv, TypeOK, UShort
    <3>2. quiet' \in 0..QuietBound
      BY <2>1, <1>1 DEF QuietBound, MaxSkip
    <3>3. QED
      BY <2>1, <3>1, <3>2, <1>2, Zenon DEF SettleInv, TypeOK
  <2>3. looked' => skip_cnt' <= MaxSkip
    BY <2>1, <1>1 DEF SettleInv, MaxSkip
  <2>4. (looked' /\ ~offered') => quiet' + skip_cnt' <= QuietBound - 1
    BY <2>1, <1>1 DEF SettleInv, MaxSkip, QuietBound
  <2>5. (looked' /\ ~offered' /\ old_hash' # content') => quiet' + skip_cnt' <= MaxSkip
    BY <2>1, <1>1 DEF SettleInv, MaxSkip
  <2>6. QED
    BY <2>1, <2>2, <2>3, <2>4, <2>5 DEF SettleInv
<1>5. CASE LookAt(score, h, age') /\ IF looked THEN CountVisit ELSE quiet' = 0
  <2>1. ToShort(score) \in Int
    BY <1>1, ToShortType
  <2>2. skip_cnt = 0 /\ skip_cnt' \in 0..8
    BY <1>2, <1>5, <2>1, PauseBound DEF LookAt, MaxSkip
  <2>3. volatility_score' \in UShort
    BY <1>3, <1>5, RaisedType DEF LookAt, UShort
  <2>4. /\ looked' /\ looked' \in BOOLEAN
        /\ old_hash' = content /\ content' = content /\ moved' = FALSE
        /\ state' \in {"Volatile", "Stable"}
        /\ h = content => offered' /\ offered' \in BOOLEAN
        /\ h # content => offered' = offered /\ state' = "Volatile"
    BY <1>5, Zenon DEF LookAt, VolatileVisit
  <2>q. quiet' = IF looked THEN (IF quiet < 18 THEN quiet + 1 ELSE quiet) ELSE 0
    BY <1>5 DEF CountVisit, QuietBound, MaxSkip
  <2>5. TypeOK'
    <3>1. skip_cnt' \in UShort
      BY <2>2, <1>3 DEF UShort
    <3>2. quiet' \in 0..QuietBound
      BY <2>q, <1>1 DEF QuietBound, MaxSkip
    <3>3. offered' \in BOOLEAN
      BY <2>4, Zenon DEF SettleInv, TypeOK
    <3>4. content \in Contents
      BY DEF SettleInv, TypeOK
    <3>5. QED
      BY <2>3, <2>4, <3>1, <3>2, <3>3, <3>4, <1>2, Zenon DEF TypeOK
  <2>6. (looked' /\ ~offered') => quiet' + skip_cnt' <= 17
    <3>1. (quiet <= 8 \/ ~looked) => quiet' + skip_cnt' <= 17
      <4>1. skip_cnt' \in Int /\ skip_cnt' <= 8 /\ quiet \in Int
        BY <2>2, <1>1
      <4>2. CASE ~looked
        <5>1. quiet' = 0
          BY <4>2, <2>q, Zenon
        <5>2. quiet' + skip_cnt' <= 17
          BY <4>1, <5>1, TwoPauses, Zenon
        <5>3. QED
          BY <5>2, Zenon
      <4>3. CASE looked /\ quiet <= 8
        <5>1. quiet' = IF quiet < 18 THEN quiet + 1 ELSE quiet
          BY <4>3, <2>q, Zenon
        <5>2. quiet <= 8
          BY <4>3, Zenon
        <5>3. quiet' + skip_cnt' <= 17
          BY <4>1, <5>1, <5>2, TwoPauses, Zenon
        <5>4. QED
          BY <5>3, Zenon
      <4>4. QED
        BY <4>2, <4>3, Zenon
    <3>2. ~offered' => (quiet <= 8 \/ ~looked)
      <4> SUFFICES ASSUME ~offered', looked
                   PROVE  quiet <= 8
        BY Zenon
      <4>1. h # content
        BY <2>4, Zenon
      <4>2. ~offered
        BY <4>1, <1>5 DEF LookAt
      <4>3. CASE state = "Volatile" /\ h = old_hash
        <5>1. quiet + skip_cnt <= 8 /\ quiet + 0 = quiet
          BY <4>1, <4>2, <4>3, <1>1 DEF SettleInv, MaxSkip
        <5>2. QED
          BY <5>1, <2>2, Zenon
      <4>4. CASE state = "Stable"
        <5>1. quiet = 0 /\ 0 <= 8
          BY <4>2, <4>4 DEF SettleInv
        <5>2. QED
          BY <5>1, Zenon
      <4>5. QED
        BY <4>3, <4>4
    <3>3. QED
      BY <3>1, <3>2, Zenon
  <2>7. skip_cnt' <= MaxSkip /\ QuietBound - 1 = 17
    BY <2>2 DEF MaxSkip, QuietBound
  <2>8. state' = "Stable" => offered'
    BY <2>4
  <2>9. QED
    BY <2>4, <2>5, <2>6, <2>7, <2>8, Zenon DEF SettleInv
<1>6. QED
  BY <1>4, <1>5 DEF VolatileVisit

\* The scores of a new item are anything; nothing has been looked at.
LEMMA InitSettle == Init => SettleInv
<1>1. 0 \in 0..QuietBound /\ 0 \in (-(ShortRange \div 2))..((ShortRange \div 2) - 1)
  <2>1. ShortRange \in Nat /\ ShortRange >= 16
    BY SmartScanAssumption
  <2>2. ShortRange \div 2 \in Nat /\ ShortRange \div 2 >= 1
    BY <2>1
  <2>3. QED
    BY <2>2 DEF QuietBound, MaxSkip
<1>2. Init => TypeOK
  BY <1>1, Zenon DEF Init, TypeOK
<1>3. QED
  BY <1>2 DEF Init, SettleInv

\* No step breaks the invariant.
LEMMA NextSettle == SettleInv /\ [Next]_vars => SettleInv'
<1> SUFFICES ASSUME SettleInv, [Next]_vars
             PROVE  SettleInv'
  OBVIOUS
<1>1. CASE VisitVolatile
  <2>1. /\ volatility_score \in UShort /\ old_hash \in Contents \cup {NullHash}
        /\ VolatileVisit(volatility_score, old_hash) /\ state = "Volatile"
    BY <1>1 DEF VisitVolatile, SettleInv, TypeOK
  <2>2. QED
    BY <2>1, VolatileVisitInv
<1>2. CASE VisitMoved
  <2>1. volatility_score \in UShort
    BY DEF SettleInv, TypeOK
  <2>2. /\ Raised(volatility_score) \in UShort
        /\ VolatileVisit(Raised(volatility_score), NullHash) /\ state = "Stable"
    BY <1>2, <2>1, RaisedType DEF VisitMoved
  <2>3. QED
    BY <2>2, VolatileVisitInv
<1>3. CASE VisitStable
  <2>1. TypeOK'
    BY <1>3, SmartScanAssumption
    DEF VisitStable, SettleInv, TypeOK, UShort, CountVisit, QuietBound, MaxSkip
  <2>2. QED
    BY <1>3, <2>1 DEF VisitStable, SettleInv
<1>4. CASE Write
  <2>1. TypeOK'
    <3>1. 0 \in 0..QuietBound
      BY DEF QuietBound, MaxSkip
    <3>2. QED
      BY <1>4, <3>1, Zenon DEF Write, SettleInv, TypeOK
  <2>2. skip_cnt \in Int /\ quiet' = 0
    BY <1>4, SmartScanAssumption DEF Write, SettleInv, TypeOK, UShort
  <2>3. QED
    BY <1>4, <2>1, <2>2 DEF Write, SettleInv, QuietBound, MaxSkip
<1>5. CASE WriteBeforeMerge
  <2>1. TypeOK'
    <3>1. 0 \in 0..QuietBound
      BY DEF QuietBound, MaxSkip
    <3>2. QED
      BY <1>5, <3>1, Zenon DEF WriteBeforeMerge, SettleInv, TypeOK
  <2>2. skip_cnt \in Int /\ quiet' = 0
    BY <1>5, SmartScanAssumption DEF WriteBeforeMerge, SettleInv, TypeOK, UShort
  <2>3. QED
    BY <1>5, <2>1, <2>2 DEF WriteBeforeMerge, SettleInv, QuietBound, MaxSkip
<1>6. CASE MergeUndone
  <2>1. TypeOK'
    <3>1. volatility_score' \in UShort
      BY <1>6, RaisedType DEF MergeUndone, SettleInv, TypeOK
    <3>2. QED
      BY <1>6, <3>1, Zenon DEF MergeUndone, SettleInv, TypeOK
  <2>2. skip_cnt \in Int
    BY SmartScanAssumption DEF SettleInv, TypeOK, UShort
  <2>3. QED
    BY <1>6, <2>1, <2>2 DEF MergeUndone, SettleInv, QuietBound, MaxSkip
<1>7. CASE UNCHANGED vars
  BY <1>7 DEF vars, SettleInv, TypeOK
<1>8. QED
  BY <1>1, <1>2, <1>3, <1>4, <1>5, <1>6, <1>7 DEF Next

\* Whatever values the uninitialised scores of a new item have and however
\* often score and age wrap around, a page that has been looked at once and
\* stays unchanged is offered for merging within QuietBound visits.
THEOREM SettledCorrect == Spec => []SettledIsOffered
<1>1. SettleInv => SettledIsOffered
  BY SmartScanAssumption DEF SettleInv, SettledIsOffered, TypeOK, UShort, QuietBound, MaxSkip
<1>2. QED
  BY <1>1, InitSettle, NextSettle, PTL DEF Spec

\* The scores stay in their widths and a pause never exceeds MaxSkip.
THEOREM SettleInvariant == Spec => []SettleInv
  BY InitSettle, NextSettle, PTL DEF Spec

\* volatility_score, skip_cnt and age keep the width of their C
\* types, whatever an uninitialised item starts with.
THEOREM WidthsKept == Spec => []TypeOK
<1>1. SettleInv => TypeOK
  BY DEF SettleInv
<1>2. QED
  BY <1>1, InitSettle, NextSettle, PTL DEF Spec
=============================================================================
