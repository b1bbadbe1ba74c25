----------------------------- MODULE BuddyProofs ----------------------------
(***************************************************************************)
(* The frame allocator's and the buddy allocator's invariants, for any     *)
(* number of orders, any reserve and every memory map the boot protocol    *)
(* allows.                                                                 *)
(*                                                                         *)
(* PmmInv adds to the properties of Pmm what they need of each other: no   *)
(* zero bit lies below the hint, frame 0 is never free, and the geometry   *)
(* pmm_init computed is right.                                             *)
(*                                                                         *)
(* A frame f lies in exactly one aligned block of each order o, the one    *)
(* that begins at Floor(f, o); the block of a larger order contains the    *)
(* block of a smaller one.  Everything about splitting and merging rests   *)
(* on these two facts.                                                     *)
(*                                                                         *)
(* Linked says that the nodes of BuddyList are doubly linked lists of the  *)
(* blocks Buddy's sets hold.  list_push and list_remove keep it, so the    *)
(* loops that split and merge do on the links what Buddy does on the sets. *)
(***************************************************************************)
EXTENDS BuddyList, NatLemmas

-----------------------------------------------------------------------------
\* The frame allocator

\* Before pmm_init has run.
Idle ==
  /\ bitmap = {} /\ total_frames = 0 /\ next_hint = 0 /\ free_frames = 0
  /\ lent = {} /\ claimed = {}

\* What pmm_init worked out and nothing changes afterwards.
Geometry ==
  /\ UsableFrames \subseteq AllFrames \ {0}
  /\ BitmapFrames \subseteq UsableFrames
  /\ usable_frames = Cardinality(UsableFrames)

HintIsLow == \A f \in AllFrames : f < next_hint => f \in bitmap

PmmInv ==
  /\ PmmTypeOK
  /\ OwnersPartitionUsed
  /\ free_frames = Cardinality(FreeFrames)
  /\ HintIsLow
  /\ ~PmmUp => Idle
  /\ PmmUp => Geometry

-----------------------------------------------------------------------------

\* The bitmap spans finitely many frames.
LEMMA FreeFramesFinite ==
  ASSUME PmmTypeOK
  PROVE  IsFiniteSet(FreeFrames) /\ IsFiniteSet(AllFrames)
<1>1. IsFiniteSet(AllFrames)
  BY FS_Interval DEF AllFrames, PmmTypeOK
<1> QED BY <1>1, FS_Difference DEF FreeFrames

\* What the scan of pmm_alloc_frame finds.
LEMMA ScanFindsLowest ==
  ASSUME PmmInv
  PROVE  /\ AllocFindsLowest
         /\ ScanResult # 0 => /\ ScanResult \in FreeFrames
                              /\ \A f \in FreeFrames : ScanResult <= f
<1>1. FreeFrames \in SUBSET Nat
  BY DEF PmmInv, PmmTypeOK, FreeFrames, AllFrames
<1>2. 0 \notin FreeFrames
  <2>1. CASE PmmUp
    BY <2>1 DEF PmmInv, Geometry, OwnersPartitionUsed, FreeFrames
  <2>2. CASE ~PmmUp
    BY <2>2 DEF PmmInv, Idle, FreeFrames, AllFrames
  <2> QED BY <2>1, <2>2
<1>3. Clear(next_hint, total_frames) = FreeFrames
  BY DEF PmmInv, PmmTypeOK, HintIsLow, Clear, FreeFrames, AllFrames
<1>4. free_frames = 0 <=> FreeFrames = {}
  BY FreeFramesFinite, FS_EmptySet DEF PmmInv
<1>5. CASE FreeFrames = {}
  <2>1. ScanResult = 0
    BY <1>4, <1>5 DEF ScanResult
  <2> QED BY <2>1, <1>5 DEF AllocFindsLowest
<1>6. CASE FreeFrames # {}
  <2>1. ScanResult = Min(FreeFrames)
    BY <1>3, <1>4, <1>6 DEF ScanResult
  <2> QED BY <2>1, <1>1, <1>6, MinNat DEF AllocFindsLowest
<1> QED BY <1>5, <1>6

\* Nothing but phase and the history of claims changes what these sets are.
LEMMA FramesStay ==
  ASSUME UNCHANGED <<memmap, counters>>
  PROVE  /\ UsableFrames' = UsableFrames
         /\ BitmapFrames' = BitmapFrames
         /\ AllFrames' = AllFrames
BY DEF UsableFrames, UsableEntries, BitmapFrames, BitmapCount, AllFrames, counters, FramesOf

-----------------------------------------------------------------------------
\* One lemma per operation

\* The zeroed statics of a kernel that has just been loaded satisfy the invariant.
LEMMA InitPmmInv == PmmInit => PmmInv
<1> SUFFICES ASSUME PmmInit PROVE PmmInv
  OBVIOUS
<1>1. AllFrames = {} /\ FreeFrames = {}
  BY DEF PmmInit, AllFrames, FreeFrames
<1>2. PmmTypeOK
  BY <1>1 DEF PmmInit, PmmTypeOK, Phases
<1>3. free_frames = Cardinality(FreeFrames)
  BY <1>1, FS_EmptySet DEF PmmInit
<1>4. ~PmmUp
  BY DEF PmmInit, PmmUp
<1> QED BY <1>1, <1>2, <1>3, <1>4 DEF PmmInit, PmmInv, OwnersPartitionUsed, HintIsLow, Idle

\* pmm_alloc_frame preserves the invariant: bit, count, hint and owner move together.
LEMMA AllocPmmInv ==
  ASSUME PmmInv, PmmUp, pmm_alloc_frame
  PROVE  PmmInv'
<1> DEFINE r == ScanResult
<1>1. /\ r \in FreeFrames
      /\ \A f \in FreeFrames : r <= f
  BY ScanFindsLowest DEF pmm_alloc_frame
<1>2. /\ UsableFrames' = UsableFrames /\ BitmapFrames' = BitmapFrames
      /\ AllFrames' = AllFrames
  BY FramesStay DEF pmm_alloc_frame
<1>3. /\ bitmap' = bitmap \cup {r} /\ free_frames' = free_frames - 1
      /\ next_hint' = r + 1 /\ lent' = lent \cup {r}
      /\ UNCHANGED <<memmap, phase, counters, claimed>>
  BY DEF pmm_alloc_frame
<1> HIDE DEF r
<1>4. FreeFrames' = FreeFrames \ {r}
  BY <1>2, <1>3 DEF FreeFrames
<1>5. free_frames' = Cardinality(FreeFrames')
  BY <1>1, <1>3, <1>4, FreeFramesFinite, FS_RemoveElement DEF PmmInv
<1>6. PmmTypeOK'
  <2>1. r \in AllFrames /\ total_frames \in Nat
    BY <1>1 DEF FreeFrames, PmmInv, PmmTypeOK
  <2>2. r + 1 \in 0 .. total_frames
    BY <2>1 DEF AllFrames
  <2> QED BY <1>2, <1>3, <2>1, <2>2 DEF PmmInv, PmmTypeOK, counters
<1>7. OwnersPartitionUsed'
  <2>1. r \in UsableFrames /\ r \notin BitmapFrames /\ r \notin claimed
    BY <1>1 DEF PmmInv, OwnersPartitionUsed, FreeFrames
  <2> QED BY <1>2, <1>3, <2>1 DEF PmmInv, OwnersPartitionUsed, PmmUp
<1>8. HintIsLow'
  <2> SUFFICES ASSUME NEW f \in AllFrames, f < r + 1 PROVE f \in bitmap \cup {r}
    BY <1>2, <1>3 DEF HintIsLow
  <2>1. f \in Nat /\ r \in Nat
    BY <1>1 DEF FreeFrames, AllFrames, PmmInv, PmmTypeOK
  <2> QED BY <1>1, <2>1 DEF FreeFrames
<1>9. PmmUp' /\ Geometry'
  BY <1>2, <1>3 DEF PmmInv, Geometry, PmmUp, counters
<1> QED BY <1>5, <1>6, <1>7, <1>8, <1>9 DEF PmmInv

\* pmm_free_frame preserves the invariant; a second free of the same frame is a no-op.
LEMMA FreePmmInv ==
  ASSUME PmmInv, PmmUp, NEW f \in AllFrames, pmm_free_frame(f)
  PROVE  PmmInv'
<1>1. CASE UNCHANGED pmmVars
  BY <1>1 DEF PmmInv, PmmTypeOK, OwnersPartitionUsed, HintIsLow, Idle, Geometry, PmmUp,
       UsableFrames, UsableEntries, BitmapFrames, BitmapCount, AllFrames, FreeFrames,
       FramesOf, pmmVars, counters
<1>2. CASE /\ f \in lent /\ f \in bitmap
           /\ bitmap' = bitmap \ {f}
           /\ free_frames' = free_frames + 1
           /\ next_hint' = IF f < next_hint THEN f ELSE next_hint
           /\ lent' = lent \ {f}
           /\ UNCHANGED <<memmap, phase, counters, claimed>>
  <2>2. /\ UsableFrames' = UsableFrames /\ BitmapFrames' = BitmapFrames
        /\ AllFrames' = AllFrames
    BY <1>2, FramesStay
  <2>4. FreeFrames' = FreeFrames \cup {f} /\ f \notin FreeFrames
    BY <1>2, <2>2 DEF FreeFrames
  <2>5. free_frames' = Cardinality(FreeFrames')
    BY <1>2, <2>4, FreeFramesFinite, FS_AddElement DEF PmmInv
  <2>6. PmmTypeOK'
    BY <1>2, <2>2 DEF PmmInv, PmmTypeOK, counters, AllFrames
  <2>7. OwnersPartitionUsed'
    BY <1>2, <2>2 DEF PmmInv, OwnersPartitionUsed, PmmUp
  <2>8. HintIsLow'
    <3> SUFFICES ASSUME NEW g \in AllFrames, g < next_hint' PROVE g \in bitmap \ {f}
      BY <1>2, <2>2 DEF HintIsLow
    <3>1. f \in Nat /\ g \in Nat /\ next_hint \in Nat
      BY DEF AllFrames, PmmInv, PmmTypeOK
    <3> QED BY <1>2, <3>1 DEF PmmInv, HintIsLow
  <2>9. PmmUp' /\ Geometry'
    BY <1>2, <2>2 DEF PmmInv, Geometry, PmmUp, counters
  <2> QED BY <2>5, <2>6, <2>7, <2>8, <2>9 DEF PmmInv
<1> QED BY <1>1, <1>2 DEF pmm_free_frame

\* pmm_claim_frame preserves the invariant, although it leaves the hint where it is.
LEMMA ClaimPmmInv ==
  ASSUME PmmInv, PmmUp, PmmUp', phase' \in Phases, NEW f \in Nat, pmm_claim_frame(f)
  PROVE  PmmInv'
<1>1. /\ f \in FreeFrames
      /\ bitmap' = bitmap \cup {f} /\ free_frames' = free_frames - 1
      /\ claimed' = claimed \cup {f}
      /\ UNCHANGED <<memmap, counters, next_hint, lent>>
  BY DEF pmm_claim_frame, Claimable, FreeFrames, AllFrames, PmmInv, PmmTypeOK
<1>2. /\ UsableFrames' = UsableFrames /\ BitmapFrames' = BitmapFrames
      /\ AllFrames' = AllFrames
  BY <1>1, FramesStay
<1>3. FreeFrames' = FreeFrames \ {f}
  BY <1>1, <1>2 DEF FreeFrames
<1>4. free_frames' = Cardinality(FreeFrames')
  BY <1>1, <1>3, FreeFramesFinite, FS_RemoveElement DEF PmmInv
<1>5. PmmTypeOK'
  BY <1>1, <1>2 DEF PmmInv, PmmTypeOK, counters, FreeFrames
<1>6. OwnersPartitionUsed'
  <2>1. f \in UsableFrames /\ f \notin BitmapFrames /\ f \notin lent
    BY <1>1 DEF PmmInv, OwnersPartitionUsed, FreeFrames
  <2> QED BY <1>1, <1>2, <2>1 DEF PmmInv, OwnersPartitionUsed
<1>7. HintIsLow'
  BY <1>1, <1>2 DEF PmmInv, HintIsLow
<1>8. Geometry'
  BY <1>1, <1>2 DEF PmmInv, Geometry, counters
<1> QED BY <1>4, <1>5, <1>6, <1>7, <1>8 DEF PmmInv

-----------------------------------------------------------------------------
\* pmm_init

\* Pass 1 is right: every usable frame lies below Highest.
LEMMA HighestBounds ==
  ASSUME memmap \in Memmaps
  PROVE  /\ Highest \in Nat
         /\ UsableEntries \subseteq 1 .. Len(memmap)
         /\ \A i \in UsableEntries : /\ memmap[i].base \in Nat \ {0}
                                     /\ memmap[i].length \in Nat
                                     /\ memmap[i].base + memmap[i].length <= Highest
<1> DEFINE n == Len(memmap)
           g == [i \in 1 .. n |-> memmap[i].base + memmap[i].length]
           T == {0} \cup {memmap[i].base + memmap[i].length : i \in UsableEntries}
<1>1. memmap \in Seq(Entry)
  BY MemmapsAssumption
<1>2. n \in Nat /\ DOMAIN memmap = 1 .. n
  BY <1>1
<1>3. \A i \in 1 .. n : memmap[i].base \in Nat /\ memmap[i].length \in Nat
  <2> SUFFICES ASSUME NEW i \in 1 .. n
               PROVE  memmap[i].base \in Nat /\ memmap[i].length \in Nat
    OBVIOUS
  <2>1. memmap[i] \in Entry
    BY <1>1, <1>2
  <2> QED BY <2>1 DEF Entry
<1>4. UsableEntries \subseteq 1 .. n
  BY <1>2 DEF UsableEntries
<1>5. g \in [1 .. n -> Nat]
  BY <1>3
<1>6. PICK b \in Nat : \A i \in 1 .. n : g[i] <= b
  <2> HIDE DEF n, g
  <2> QED BY <1>2, <1>5, FiniteFamilyBounded
<1>7. T \in SUBSET Nat /\ T # {} /\ \A m \in T : m <= b
  BY <1>3, <1>4, <1>6
<1>8. Max(T) \in T /\ \A m \in T : m <= Max(T)
  <2> HIDE DEF T
  <2> QED BY <1>7, MaxNat
<1>9. Highest = Max(T)
  BY DEF Highest
<1>10. \A i \in UsableEntries : memmap[i].base > 0
  BY MemmapsAssumption DEF UsableEntries
<1>11. ASSUME NEW i \in UsableEntries
       PROVE  /\ memmap[i].base \in Nat \ {0} /\ memmap[i].length \in Nat
              /\ memmap[i].base + memmap[i].length <= Highest
  <2>1. memmap[i].base + memmap[i].length \in T
    OBVIOUS
  <2> HIDE DEF T
  <2>2. memmap[i].base + memmap[i].length <= Highest
    BY <1>8, <1>9, <2>1
  <2>3. memmap[i].base \in Nat /\ memmap[i].length \in Nat
    BY <1>3, <1>4
  <2> QED BY <1>10, <2>2, <2>3
<1> HIDE DEF T
<1>12. Highest \in Nat
  BY <1>7, <1>8, <1>9
<1> QED BY <1>4, <1>11, <1>12

\* The bitmap takes a whole number of frames (rounded up in pmm_init).
LEMMA BitmapCountNat ==
  ASSUME NEW total \in Nat
  PROVE  BitmapCount(total) \in Nat
BY FrameBitsAssumption DEF BitmapCount

\* Every frame pmm_init frees can be described by the bitmap, and none is frame 0.
LEMMA UsableBelowHighest ==
  ASSUME memmap \in Memmaps
  PROVE  UsableFrames \subseteq 1 .. (Highest - 1)
BY HighestBounds DEF UsableFrames, FramesOf

\* Pass 2 is right: the bitmap lies in usable memory.
LEMMA BitmapInUsable ==
  ASSUME memmap \in Memmaps, BitmapHome # 0
  PROVE  /\ BitmapHome \in Nat
         /\ (BitmapHome .. BitmapHome + BitmapCount(Highest) - 1) \subseteq UsableFrames
<1>1. BitmapHomes # {} /\ BitmapHome = memmap[Min(BitmapHomes)].base
  BY DEF BitmapHome
<1>2. BitmapHomes \in SUBSET Nat
  BY HighestBounds DEF BitmapHomes
<1>3. Min(BitmapHomes) \in BitmapHomes
  BY <1>1, <1>2, MinNat
<1>4. PICK i \in UsableEntries : /\ memmap[i].length >= BitmapCount(Highest)
                                /\ BitmapHome = memmap[i].base
  BY <1>1, <1>3 DEF BitmapHomes
<1>5. (BitmapHome .. BitmapHome + BitmapCount(Highest) - 1) \subseteq FramesOf(memmap[i])
  <2>1. /\ BitmapCount(Highest) \in Nat
        /\ memmap[i].base \in Nat /\ memmap[i].length \in Nat
    BY HighestBounds, BitmapCountNat
  <2> QED BY <1>4, <2>1 DEF FramesOf
<1> QED BY <1>4, <1>5, HighestBounds DEF UsableFrames

\* Pass 3 is right: regions do not overlap, so its count is the number of frames.
LEMMA UsableCounted ==
  ASSUME memmap \in Memmaps
  PROVE  UsableCount = Cardinality(UsableFrames) /\ IsFiniteSet(UsableFrames)
<1> DEFINE S == {x \in UsableEntries \X (0 .. Highest) : x[2] \in FramesOf(memmap[x[1]])}
           h == [x \in S |-> x[2]]
<1>1. IsFiniteSet(UsableFrames)
  <2>1. Highest - 1 \in Int
    BY HighestBounds
  <2>2. IsFiniteSet(1 .. (Highest - 1))
    BY <2>1, FS_Interval
  <2> QED BY <2>2, UsableBelowHighest, FS_Subset
<1>2. h \in [S -> UsableFrames]
  BY DEF UsableFrames
<1>3. ASSUME NEW x \in S, NEW y \in S, h[x] = h[y] PROVE x = y
  <2>1. x[2] = y[2] /\ x[2] \in FramesOf(memmap[x[1]]) \cap FramesOf(memmap[y[1]])
    BY <1>3
  <2>2. x[1] = y[1]
    BY <2>1, MemmapsAssumption DEF UsableEntries
  <2> QED BY <2>1, <2>2
<1>4. ASSUME NEW f \in UsableFrames PROVE \E x \in S : h[x] = f
  <2>1. PICK i \in UsableEntries : f \in FramesOf(memmap[i])
    BY DEF UsableFrames
  <2>2. f \in 0 .. Highest
    BY UsableBelowHighest, HighestBounds
  <2>3. <<i, f>> \in S
    BY <2>1, <2>2
  <2> QED BY <2>3
<1>5. h \in Injection(S, UsableFrames) /\ h \in Surjection(S, UsableFrames)
  BY <1>2, <1>3, <1>4 DEF Injection, Surjection, IsInjective
<1>6. Cardinality(S) = Cardinality(UsableFrames)
  <2> HIDE DEF S, h
  <2> QED BY <1>1, <1>5, FS_Injection
<1> QED BY <1>1, <1>6 DEF UsableCount

\* pmm_init establishes the invariant.
LEMMA InitStepPmmInv ==
  ASSUME PmmInv, pmm_init
  PROVE  PmmInv'
<1> DEFINE home == BitmapHome .. BitmapHome + BitmapCount(Highest) - 1
<1>1. memmap \in Memmaps /\ lent = {} /\ claimed = {}
  BY DEF PmmInv, PmmTypeOK, Idle, pmm_init, PmmUp
<1>2. /\ bitmap_first' = BitmapHome /\ total_frames' = Highest
      /\ usable_frames' = UsableCount
      /\ bitmap' = ((0 .. Highest - 1) \ UsableFrames) \cup home
      /\ free_frames' = UsableCount - BitmapCount(Highest)
      /\ next_hint' = 0 /\ phase' = "pmm"
      /\ memmap' = memmap /\ lent' = {} /\ claimed' = {}
  BY <1>1 DEF pmm_init
<1>3. /\ Highest \in Nat /\ BitmapCount(Highest) \in Nat
      /\ UsableFrames \subseteq 1 .. (Highest - 1)
      /\ BitmapHome \in Nat /\ home \subseteq UsableFrames
  BY <1>1, HighestBounds, BitmapCountNat, UsableBelowHighest, BitmapInUsable DEF pmm_init
<1>4. UsableFrames' = UsableFrames
  BY <1>2 DEF UsableFrames, UsableEntries
<1>5. BitmapFrames' = home
  BY <1>2 DEF BitmapFrames, BitmapCount
<1>6. AllFrames' = 0 .. (Highest - 1)
  BY <1>2 DEF AllFrames
<1>7. FreeFrames' = UsableFrames \ home
  <2>1. FreeFrames' = (0 .. (Highest - 1)) \ bitmap'
    BY <1>6 DEF FreeFrames
  <2>2. UsableFrames \subseteq 0 .. (Highest - 1)
    BY <1>3
  <2> HIDE DEF home
  <2> QED BY <1>2, <1>3, <2>1, <2>2
<1>8. IsFiniteSet(home) /\ Cardinality(home) = BitmapCount(Highest)
  <2> DEFINE last == BitmapHome + BitmapCount(Highest) - 1
  <2>1. BitmapHome \in Int /\ last \in Int
    BY <1>3
  <2>2. /\ IsFiniteSet(BitmapHome .. last)
        /\ Cardinality(BitmapHome .. last) = IF BitmapHome > last THEN 0 ELSE last - BitmapHome + 1
    <3> HIDE DEF last
    <3> QED BY <2>1, FS_Interval
  <2> QED BY <1>3, <2>2
<1> HIDE DEF home
<1>9. free_frames' = Cardinality(FreeFrames')
  <2>1. home = UsableFrames \cap home
    BY <1>3
  <2>2. UsableCount = Cardinality(UsableFrames) /\ IsFiniteSet(UsableFrames)
    BY <1>1, UsableCounted
  <2>3. Cardinality(UsableFrames \ home) = Cardinality(UsableFrames) - Cardinality(home)
    <3>1. Cardinality(UsableFrames \ home) = Cardinality(UsableFrames) - Cardinality(UsableFrames \cap home)
      BY <2>2, FS_Difference, Zenon
    <3> QED BY <2>1, <3>1, Zenon
  <2> QED BY <1>2, <1>7, <1>8, <2>2, <2>3
<1>10. PmmTypeOK'
  <2>1. UsableCount \in Nat
    BY <1>1, UsableCounted, FS_CardinalityType
  <2>2. free_frames' \in Int
    BY <1>2, <1>3, <2>1
  <2>3. bitmap' \in SUBSET (0 .. (Highest - 1))
    BY <1>2, <1>3
  <2> QED BY <1>1, <1>2, <1>3, <1>6, <2>1, <2>2, <2>3 DEF PmmTypeOK, Phases
<1>11. OwnersPartitionUsed'
  BY <1>2, <1>4, <1>5, <1>6 DEF OwnersPartitionUsed
<1>12. HintIsLow'
  BY <1>2, <1>3, <1>6 DEF HintIsLow
<1>13. PmmUp' /\ Geometry'
  BY <1>1, <1>2, <1>3, <1>4, <1>5, <1>6, UsableCounted DEF PmmUp, Geometry
<1> QED BY <1>9, <1>10, <1>11, <1>12, <1>13 DEF PmmInv

-----------------------------------------------------------------------------
\* The theorems

\* A step that leaves the allocator's state alone, but for the phase.
LEMMA StutterPmmInv ==
  ASSUME PmmInv, UNCHANGED <<memmap, bitmap, counters, free_frames, next_hint, lent, claimed>>,
         PmmUp' = PmmUp, phase' \in Phases
  PROVE  PmmInv'
<1>1. /\ UsableFrames' = UsableFrames /\ BitmapFrames' = BitmapFrames
      /\ AllFrames' = AllFrames
  BY FramesStay
<1>2. FreeFrames' = FreeFrames
  BY <1>1 DEF FreeFrames
<1>3. PmmTypeOK'
  BY <1>1 DEF PmmInv, PmmTypeOK, counters
<1>4. OwnersPartitionUsed' /\ HintIsLow'
  BY <1>1 DEF PmmInv, OwnersPartitionUsed, HintIsLow
<1>5. (~PmmUp => Idle)' /\ (PmmUp => Geometry)'
  BY <1>1 DEF PmmInv, Idle, Geometry, counters
<1> QED BY <1>2, <1>3, <1>4, <1>5 DEF PmmInv

\* Every step of the frame allocator preserves the inductive invariant.
LEMMA NextPmmInv ==
  ASSUME PmmInv, [PmmNext]_pmmVars
  PROVE  PmmInv'
<1>0. phase \in Phases /\ total_frames \in Nat
  BY DEF PmmInv, PmmTypeOK
<1>1. CASE pmm_init
  BY <1>1, InitStepPmmInv
<1>2. CASE pmm_init_halts
  BY <1>2, StutterPmmInv DEF pmm_init_halts, PmmUp, Phases
<1>3. CASE UNCHANGED pmmVars
  BY <1>0, <1>3, StutterPmmInv DEF pmmVars, PmmUp
<1>4. CASE phase = "pmm" /\ pmm_alloc_frame
  BY <1>4, AllocPmmInv DEF PmmUp
<1>5. CASE phase = "pmm" /\ \E f \in AllFrames : pmm_free_frame(f)
  BY <1>5, FreePmmInv DEF PmmUp
<1>6. CASE phase = "pmm" /\ \E f \in 0 .. total_frames : pmm_claim_frame(f) /\ UNCHANGED phase
  <2>1. PICK f \in 0 .. total_frames : pmm_claim_frame(f) /\ UNCHANGED phase
    BY <1>6
  <2>2. f \in Nat
    BY <1>0
  <2>3. PmmUp /\ PmmUp' /\ phase' \in Phases
    BY <1>0, <1>6, <2>1 DEF PmmUp
  <2> QED BY <2>1, <2>2, <2>3, ClaimPmmInv
<1> QED BY <1>1, <1>2, <1>3, <1>4, <1>5, <1>6
        DEF PmmNext, Halted, pmm_alloc_fails, pmm_claim_fails

\* The inductive invariant holds in every reachable state.
THEOREM PmmInductive == PmmSpec => []PmmInv
<1> QED BY InitPmmInv, NextPmmInv, PTL DEF PmmSpec

\* Type correctness: the hint never passes the end of the bitmap, so the scan of
\* pmm_alloc_frame tests no bit outside it.
THEOREM PmmTypeCorrect == PmmSpec => []PmmTypeOK
<1>1. PmmInv => PmmTypeOK
  BY DEF PmmInv
<1> QED BY <1>1, PmmInductive, PTL

\* No frame has two owners and no used frame is without one: pmm.c never hands out
\* a frame somebody holds, a frame that is no RAM, or its own bitmap.
THEOREM FramesHaveOneOwner == PmmSpec => []OwnersPartitionUsed
<1>1. PmmInv => OwnersPartitionUsed
  BY DEF PmmInv
<1> QED BY <1>1, PmmInductive, PTL

\* "free_frames said there was room but the scan found none" never happens, and the
\* scan finds the lowest free frame whatever the hint is.
THEOREM ScanNeverLies == PmmSpec => []AllocFindsLowest
<1>1. PmmInv => AllocFindsLowest
  BY ScanFindsLowest
<1> QED BY <1>1, PmmInductive, PTL

\* pmm_get_stats reports exactly what is free and what is in use.
THEOREM StatsAreExact == PmmSpec => []StatsExact
<1>1. PmmInv => StatsExact
  <2> SUFFICES ASSUME PmmInv, PmmUp PROVE StatsUsed = Cardinality(BitmapFrames \cup lent \cup claimed)
    BY DEF PmmInv, StatsExact
  <2> DEFINE held == BitmapFrames \cup lent \cup claimed
  <2>1. FreeFrames = UsableFrames \ held /\ held \subseteq UsableFrames
    BY DEF PmmInv, OwnersPartitionUsed, Geometry, FreeFrames
  <2>2. IsFiniteSet(UsableFrames) /\ usable_frames = Cardinality(UsableFrames)
    BY FreeFramesFinite, FS_Subset DEF PmmInv, Geometry
  <2>3. UsableFrames \cap held = held /\ IsFiniteSet(held)
    BY <2>1, <2>2, FS_Subset
  <2> HIDE DEF held
  <2>4. Cardinality(FreeFrames) = Cardinality(UsableFrames) - Cardinality(held)
    <3>1. Cardinality(UsableFrames \ held)
            = Cardinality(UsableFrames) - Cardinality(UsableFrames \cap held)
      BY <2>2, FS_Difference
    <3>2. Cardinality(UsableFrames \cap held) = Cardinality(held)
      BY <2>3
    <3>3. Cardinality(UsableFrames \ held) = Cardinality(FreeFrames)
      BY <2>1
    <3> QED BY <3>1, <3>2, <3>3
  <2>5. Cardinality(UsableFrames) \in Nat /\ Cardinality(held) \in Nat
    BY <2>2, <2>3, FS_CardinalityType
  <2>6. StatsUsed = Cardinality(held)
    BY <2>2, <2>4, <2>5 DEF StatsUsed, PmmInv
  <2> QED BY <2>6 DEF held
<1> QED BY <1>1, PmmInductive, PTL

-----------------------------------------------------------------------------
\* Where the aligned block of order o that holds frame f begins.
Floor(f, o) == (f \div BlockFrames[o]) * BlockFrames[o]

-----------------------------------------------------------------------------
\* Blocks

\* Block sizes are positive, double from order to order, and divide one another.
LEMMA BlockSizes ==
  /\ \A o \in Orders : BlockFrames[o] \in Nat \ {0} /\ o \in Nat
  /\ \A k, o \in Orders : k <= o => \E m \in Nat \ {0} : BlockFrames[o] = m * BlockFrames[k]
<1> DEFINE Div(k, o) == \E m \in Nat \ {0} : BlockFrames[o] = m * BlockFrames[k]
<1>1. \A o \in Orders : BlockFrames[o] \in Nat /\ o \in Nat
  BY BuddyAssumption DEF Orders
<1>2. ASSUME NEW k \in Orders, NEW o \in Orders, k <= o PROVE Div(k, o)
  <2> DEFINE T == {j \in Orders : k <= j /\ ~Div(k, j)}
  <2>1. T \in SUBSET Nat
    BY <1>1
  <2>2. ASSUME T # {} PROVE FALSE
    <3>1. PICK j \in T : \A i \in T : j <= i
      <4> HIDE DEF T
      <4> QED BY <2>1, <2>2, LeastNat
    <3>2. Div(k, k)
      <4>1. BlockFrames[k] = 1 * BlockFrames[k]
        BY <1>1
      <4> QED BY <4>1
    <3> HIDE DEF Div
    <3>3. j # k /\ j \in Orders /\ k < j
      BY <1>1, <3>1, <3>2
    <3>4. j - 1 \in Orders \ {BUDDY_MAX_ORDER} /\ k <= j - 1 /\ j - 1 < j /\ (j - 1) + 1 = j
      BY <3>3, BuddyAssumption DEF Orders
    <3>5. Div(k, j - 1)
      <4> SUFFICES ASSUME ~Div(k, j - 1) PROVE FALSE
        OBVIOUS
      <4>1. j - 1 \in T
        BY <3>4
      <4>2. j <= j - 1 /\ j \in Nat
        BY <1>1, <3>1, <3>3, <4>1
      <4> QED BY <4>2
    <3>6. PICK m \in Nat \ {0} : BlockFrames[j - 1] = m * BlockFrames[k]
      BY <3>5 DEF Div
    <3>7. BlockFrames[j] = 2 * BlockFrames[j - 1]
      BY <3>4, BuddyAssumption
    <3>8. BlockFrames[j] = (2 * m) * BlockFrames[k] /\ 2 * m \in Nat \ {0}
      BY <1>1, <3>6, <3>7
    <3> QED BY <3>1, <3>8 DEF Div
  <2> QED BY <1>2, <2>2
<1>3. ASSUME NEW o \in Orders PROVE BlockFrames[o] # 0
  <2>1. 0 \in Orders /\ 0 <= o
    BY BuddyAssumption DEF Orders
  <2>2. PICK m \in Nat \ {0} : BlockFrames[o] = m * BlockFrames[0]
    BY <1>2, <2>1
  <2> QED BY <2>2, BuddyAssumption
<1> QED BY <1>1, <1>2, <1>3

\* The block of order o around f.
LEMMA FloorFacts ==
  ASSUME NEW f \in Nat, NEW o \in Orders
  PROVE  /\ Floor(f, o) \in Nat /\ Aligned(Floor(f, o), o)
         /\ Floor(f, o) <= f /\ f < Floor(f, o) + BlockFrames[o]
         /\ f \in Frames(<<Floor(f, o), o>>)
<1> DEFINE s == BlockFrames[o]
           q == f \div s
<1>1. s \in Nat /\ s > 0
  BY BlockSizes
<1> HIDE DEF s
<1>2. q \in Nat /\ q * s <= f /\ f < q * s + s
  BY <1>1, SMTT(30)
<1> HIDE DEF q
<1>3. q * s \in Nat /\ (q * s) % s = 0
  BY <1>1, <1>2
<1>4. Floor(f, o) = q * s
  BY DEF Floor, q, s
<1> QED BY <1>1, <1>2, <1>3, <1>4 DEF Aligned, Frames, s

\* An aligned block is the one around each of its frames.
LEMMA AlignedIsFloor ==
  ASSUME NEW x \in Nat, NEW o \in Orders, Aligned(x, o), NEW f \in Frames(<<x, o>>)
  PROVE  f \in Nat /\ Floor(f, o) = x
<1> DEFINE s == BlockFrames[o]
           q == x \div s
<1>1. s \in Nat /\ s > 0
  BY BlockSizes
<1>2. f \in Nat /\ x <= f /\ f < x + s
  BY <1>1 DEF Frames
<1>3. x % s = 0
  BY DEF Aligned
<1> HIDE DEF s
<1>4. q \in Nat /\ x = q * s
  BY <1>1, <1>3
<1> HIDE DEF q
<1>5. f \div s = q
  <2>1. q * s <= f /\ f < (q + 1) * s
    BY <1>1, <1>2, <1>4
  <2> QED BY <1>1, <1>2, <1>4, <2>1
<1> QED BY <1>2, <1>4, <1>5 DEF Floor, s

\* Larger blocks contain smaller ones.
LEMMA FloorNests ==
  ASSUME NEW f \in Nat, NEW k \in Orders, NEW o \in Orders, k <= o
  PROVE  /\ Frames(<<Floor(f, k), k>>) \subseteq Frames(<<Floor(f, o), o>>)
         /\ Aligned(Floor(f, o), k)
<1> DEFINE s == BlockFrames[k]
           t == BlockFrames[o]
           a == f \div s
           b == f \div t
<1>1. s \in Nat \ {0} /\ t \in Nat \ {0}
  BY BlockSizes
<1>2. PICK m \in Nat \ {0} : t = m * s
  BY BlockSizes
<1>3. Floor(f, k) = a * s /\ Floor(f, o) = b * t
  BY DEF Floor
<1>4. /\ Floor(f, k) \in Nat /\ Floor(f, k) <= f /\ f < Floor(f, k) + s
      /\ Floor(f, o) \in Nat /\ Floor(f, o) <= f /\ f < Floor(f, o) + t
  BY FloorFacts
<1>4a. a \in Nat /\ b \in Nat
  BY <1>1
<1> HIDE DEF s, t, a, b
<1>5. b * t = (b * m) * s /\ b * m \in Nat /\ m * s \in Nat
  BY <1>1, <1>2, <1>4a
<1>6. b * m <= a
  <2> SUFFICES ASSUME a + 1 <= b * m PROVE FALSE
    BY <1>4a, <1>5
  <2>1. (a + 1) * s <= (b * m) * s
    BY <1>1, <1>4a, <1>5
  <2>2. (a + 1) * s = a * s + s
    BY <1>1, <1>4a
  <2> QED BY <1>1, <1>3, <1>4, <1>5, <2>1, <2>2
<1>7. a + 1 <= b * m + m
  <2> SUFFICES ASSUME b * m + m <= a PROVE FALSE
    BY <1>2, <1>4a, <1>5
  <2>1. (b * m + m) * s <= a * s
    BY <1>1, <1>2, <1>4a, <1>5
  <2>2. (b * m + m) * s = (b * m) * s + m * s
    BY <1>1, <1>2, <1>5
  <2> QED BY <1>1, <1>2, <1>3, <1>4, <1>5, <2>1, <2>2
<1>8. b * t <= a * s /\ a * s + s <= b * t + t
  <2>1. (b * m) * s <= a * s
    BY <1>1, <1>4a, <1>5, <1>6
  <2>2. (a + 1) * s <= (b * m + m) * s
    BY <1>1, <1>2, <1>4a, <1>5, <1>7
  <2>3. (a + 1) * s = a * s + s /\ (b * m + m) * s = (b * m) * s + m * s
    BY <1>1, <1>2, <1>4a, <1>5
  <2> QED BY <1>2, <1>5, <2>1, <2>2, <2>3
<1>9. Frames(<<Floor(f, k), k>>) \subseteq Frames(<<Floor(f, o), o>>)
  <2>1. a * s \in Nat /\ b * t \in Nat
    BY <1>3, <1>4
  <2> QED BY <1>1, <1>3, <1>8, <2>1 DEF Frames, s, t
<1>10. Aligned(Floor(f, o), k)
  <2> DEFINE c == b * m
  <2>1. (c * s) % s = 0
    <3>1. c \in Nat
      BY <1>5
    <3> HIDE DEF c
    <3> QED BY <1>1, <3>1
  <2> QED BY <1>3, <1>5, <2>1 DEF Aligned, s
<1> QED BY <1>9, <1>10

\* A block and its buddy are the two halves of the block around them.
LEMMA BuddyHalves ==
  ASSUME NEW x \in Nat, NEW k \in Orders \ {BUDDY_MAX_ORDER}, Aligned(x, k)
  PROVE  /\ k + 1 \in Orders
         /\ BuddyOf(x, k) \in Nat /\ Aligned(BuddyOf(x, k), k)
         /\ BuddyOf(BuddyOf(x, k), k) = x
         /\ Floor(BuddyOf(x, k), k + 1) = Floor(x, k + 1)
         /\ Frames(<<x, k>>) \cap Frames(<<BuddyOf(x, k), k>>) = {}
         /\ Frames(<<Floor(x, k + 1), k + 1>>)
              = Frames(<<x, k>>) \cup Frames(<<BuddyOf(x, k), k>>)
         /\ Floor(x, k + 1) = IF BuddyOf(x, k) < x THEN BuddyOf(x, k) ELSE x
<1> DEFINE s == BlockFrames[k]
           q == x \div s
           y == BuddyOf(x, k)
<1>1. s \in Nat /\ s > 0 /\ k \in Nat /\ k + 1 \in Orders /\ BlockFrames[k + 1] = 2 * s
  <2>1. BlockFrames[k] \in Nat \ {0} /\ k \in Nat
    BY BlockSizes
  <2>2. k + 1 \in Orders
    BY <2>1, BuddyAssumption DEF Orders
  <2>3. BlockFrames[k + 1] = 2 * BlockFrames[k]
    BY BuddyAssumption
  <2> QED BY <2>1, <2>2, <2>3
<1>2. x % s = 0
  BY DEF Aligned
<1>3. y = IF q % 2 = 0 THEN x + s ELSE x - s
  BY DEF BuddyOf
<1>4. Floor(x, k + 1) = (x \div (2 * s)) * (2 * s)
  BY <1>1 DEF Floor
<1>5. q \in Nat /\ x = q * s
  <2> HIDE DEF s
  <2> QED BY <1>1, <1>2
<1>5a. /\ q % 2 = 0 => (x \div (2 * s)) * (2 * s) = q * s
       /\ q % 2 # 0 => (x \div (2 * s)) * (2 * s) = q * s - s
  <2>1. s \in Nat /\ s > 0
    BY <1>1
  <2> HIDE DEF s
  <2> QED BY <2>1, Dyadic
<1>6. q % 2 = 0 => Floor(x, k + 1) = x
  <2> HIDE DEF s, q
  <2> QED BY <1>4, <1>5, <1>5a
<1>7. q % 2 # 0 => Floor(x, k + 1) = x - s
  <2> HIDE DEF s, q
  <2> QED BY <1>4, <1>5, <1>5a
<1>8. q % 2 # 0 => x - s \in Nat
  <2> HIDE DEF s, q
  <2> QED BY <1>1, <1>5
<1> HIDE DEF s, y
<1>9. y \in Nat
  BY <1>1, <1>3, <1>8
<1>10. y % s = 0 /\ y \div s = IF q % 2 = 0 THEN q + 1 ELSE q - 1
  <2> HIDE DEF q
  <2> DEFINE r == IF q % 2 = 0 THEN q + 1 ELSE q - 1
  <2>1. r \in Nat /\ y = r * s
    <3>1. CASE q % 2 = 0
      <4>1. (q + 1) * s = q * s + s
        BY <1>1, <1>5
      <4> QED BY <1>3, <1>5, <3>1, <4>1
    <3>2. CASE q % 2 # 0
      <4>1. q - 1 \in Nat
        BY <1>5, <3>2
      <4>2. (q - 1) * s = q * s - s
        BY <1>1, <1>5
      <4> QED BY <1>3, <1>5, <3>2, <4>1, <4>2
    <3> QED BY <3>1, <3>2
  <2> HIDE DEF r
  <2>2. (r * s) % s = 0 /\ (r * s) \div s = r
    BY <1>1, <2>1
  <2> QED BY <2>1, <2>2 DEF r
<1>11. BuddyOf(y, k) = x
  <2>1. BuddyOf(y, k) = IF (y \div s) % 2 = 0 THEN y + s ELSE y - s
    BY DEF BuddyOf, s
  <2> HIDE DEF q
  <2>2. CASE q % 2 = 0
    <3>1. (q + 1) % 2 # 0
      BY <1>5, <2>2
    <3> QED BY <1>1, <1>3, <1>10, <2>1, <2>2, <3>1
  <2>3. CASE q % 2 # 0
    <3>1. (q - 1) % 2 = 0
      BY <1>5, <2>3
    <3> QED BY <1>1, <1>3, <1>10, <2>1, <2>3, <3>1
  <2> QED BY <2>2, <2>3
<1> HIDE DEF q
<1>12. /\ Frames(<<x, k>>) = x .. (x + s - 1) /\ Frames(<<y, k>>) = y .. (y + s - 1)
       /\ Frames(<<Floor(x, k + 1), k + 1>>)
             = Floor(x, k + 1) .. (Floor(x, k + 1) + 2 * s - 1)
  BY <1>1 DEF Frames, s
<1>13. Floor(x, k + 1) = IF y < x THEN y ELSE x
  BY <1>1, <1>3, <1>6, <1>7
<1>14. /\ Frames(<<x, k>>) \cap Frames(<<y, k>>) = {}
       /\ Frames(<<Floor(x, k + 1), k + 1>>) = Frames(<<x, k>>) \cup Frames(<<y, k>>)
  <2>1. CASE q % 2 = 0
    <3>1. y = x + s /\ Floor(x, k + 1) = x
      BY <1>3, <1>6, <2>1
    <3> QED BY <1>1, <1>12, <3>1
  <2>2. CASE q % 2 # 0
    <3>1. y = x - s /\ Floor(x, k + 1) = x - s
      BY <1>3, <1>7, <2>2
    <3> QED BY <1>1, <1>9, <1>12, <3>1
  <2> QED BY <2>1, <2>2
<1>15. Floor(y, k + 1) = Floor(x, k + 1)
  <2>1. y \in Frames(<<Floor(x, k + 1), k + 1>>)
    <3>1. y \in Frames(<<y, k>>)
      BY <1>1, <1>9, <1>12
    <3> QED BY <1>14, <3>1
  <2>2. Floor(x, k + 1) \in Nat /\ Aligned(Floor(x, k + 1), k + 1)
    BY <1>1, FloorFacts
  <2> QED BY <1>1, <2>1, <2>2, AlignedIsFloor
<1>16. Aligned(y, k)
  BY <1>10 DEF Aligned, s
<1> QED BY <1>1, <1>9, <1>11, <1>13, <1>14, <1>15, <1>16 DEF y

\* Sizes grow with the order.
LEMMA SizesGrow ==
  ASSUME NEW k \in Orders, NEW o \in Orders, k <= o
  PROVE  BlockFrames[k] <= BlockFrames[o]
<1>1. PICK m \in Nat \ {0} : BlockFrames[o] = m * BlockFrames[k]
  BY BlockSizes
<1>2. BlockFrames[k] \in Nat
  BY BlockSizes
<1> DEFINE s == BlockFrames[k]
<1> HIDE DEF s
<1>3. m * s >= s
  <2>1. s \in Nat /\ m - 1 \in Nat
    BY <1>2 DEF s
  <2>2. m * s = (m - 1) * s + s /\ (m - 1) * s \in Nat
    BY <2>1
  <2> QED BY <2>1, <2>2
<1> QED BY <1>1, <1>3 DEF s

\* The block of an aligned base is its own floor.
LEMMA FloorOfAligned ==
  ASSUME NEW x \in Nat, NEW o \in Orders, Aligned(x, o)
  PROVE  Floor(x, o) = x /\ x \in Frames(<<x, o>>)
<1>1. x \in Frames(<<x, o>>)
  BY BlockSizes DEF Frames
<1> QED BY <1>1, AlignedIsFloor

\* The floors of a frame, taken one after the other.
LEMMA FloorOfFloor ==
  ASSUME NEW f \in Nat, NEW k \in Orders, NEW o \in Orders, k <= o
  PROVE  Floor(Floor(f, k), o) = Floor(f, o)
<1>1. Floor(f, k) \in Nat /\ Aligned(Floor(f, k), k)
  BY FloorFacts
<1>2. Floor(f, k) \in Frames(<<Floor(f, k), k>>)
  BY <1>1, FloorOfAligned
<1>3. Floor(f, k) \in Frames(<<Floor(f, o), o>>)
  BY <1>2, FloorNests
<1> QED BY <1>3, FloorFacts, AlignedIsFloor

\* One turn of buddy_free's loop: the block around p and its buddy make the block
\* of the next order.
LEMMA MergeStep ==
  ASSUME NEW p \in Nat, NEW order \in Orders, Aligned(p, order),
         NEW k \in Orders, order <= k
  PROVE  /\ MergedBase(p, order, k) = Floor(p, k)
         /\ MergeBuddy(p, order, k) = BuddyOf(Floor(p, k), k)
         /\ k # BUDDY_MAX_ORDER =>
              Frames(<<Floor(p, k + 1), k + 1>>)
                = Frames(<<Floor(p, k), k>>) \cup Frames(<<MergeBuddy(p, order, k), k>>)
<1>1. Floor(p, k) \in Nat /\ Aligned(Floor(p, k), k)
  BY FloorFacts
<1>2. MergedBase(p, order, k) = Floor(p, k)
  <2>1. MergedBase(p, order, k) = Floor(p, k) + 0
    BY DEF MergedBase, Floor, Aligned
  <2> QED BY <1>1, <2>1
<1>3. MergeBuddy(p, order, k) = BuddyOf(Floor(p, k), k)
  BY <1>2 DEF MergeBuddy
<1>4. ASSUME k # BUDDY_MAX_ORDER
      PROVE  Frames(<<Floor(p, k + 1), k + 1>>)
               = Frames(<<Floor(p, k), k>>) \cup Frames(<<MergeBuddy(p, order, k), k>>)
  <2>1. k + 1 \in Orders /\ k <= k + 1
    BY <1>4, BuddyAssumption DEF Orders
  <2>2. Floor(Floor(p, k), k + 1) = Floor(p, k + 1)
    BY <2>1, FloorOfFloor
  <2> QED BY <1>1, <1>3, <1>4, <2>2, BuddyHalves
<1> QED BY <1>2, <1>3, <1>4

\* What buddy_free takes off the lists and the block it was given make up the block
\* it puts on.
LEMMA MergeCover ==
  ASSUME NEW p \in Nat, NEW order \in Orders, Aligned(p, order),
         NEW stop \in Orders, order <= stop
  PROVE  \A f : f \in Frames(<<Floor(p, stop), stop>>) <=>
                  \/ f \in Frames(<<p, order>>)
                  \/ \E j \in order .. stop - 1 : f \in Frames(<<MergeBuddy(p, order, j), j>>)
<1> DEFINE Parts(k) == {f \in Int : \/ f \in Frames(<<p, order>>)
                                    \/ \E j \in order .. k - 1 :
                                         f \in Frames(<<MergeBuddy(p, order, j), j>>)}
           Whole(k) == Frames(<<Floor(p, k), k>>)
           T == {k \in Orders : order <= k /\ Whole(k) # Parts(k)}
<1>0. \A b : Frames(b) \subseteq Int
  BY DEF Frames
<1>1. T \in SUBSET Nat /\ order \in Nat
  BY BlockSizes
<1>2. Whole(order) = Parts(order)
  <2>1. Whole(order) = Frames(<<p, order>>)
    BY FloorOfAligned
  <2>2. order .. order - 1 = {}
    BY <1>1
  <2> QED BY <1>0, <2>1, <2>2
<1>3. ASSUME NEW k \in Orders, k + 1 \in Orders, order <= k, Whole(k) = Parts(k)
      PROVE  Whole(k + 1) = Parts(k + 1)
  <2>1. k \in Nat /\ k # BUDDY_MAX_ORDER
    BY <1>3, BuddyAssumption DEF Orders
  <2>2. Whole(k + 1) = Whole(k) \cup Frames(<<MergeBuddy(p, order, k), k>>)
    BY <1>3, <2>1, MergeStep
  <2>3. order .. (k + 1) - 1 = (order .. k - 1) \cup {k}
    BY <1>1, <1>3, <2>1
  <2>4. Parts(k + 1) = Parts(k) \cup Frames(<<MergeBuddy(p, order, k), k>>)
    BY <1>0, <2>3
  <2> HIDE DEF Whole, Parts
  <2> QED BY <1>3, <2>2, <2>4
<1> HIDE DEF Whole, Parts
<1>4. ASSUME T # {} PROVE FALSE
  <2>1. PICK k \in T : \A i \in T : k <= i
    <3> HIDE DEF T
    <3> QED BY <1>1, <1>4, LeastNat
  <2>2. k # order /\ k \in Orders /\ order <= k /\ k \in Nat
    BY <1>1, <1>2, <2>1
  <2>3. k - 1 \in Orders /\ (k - 1) + 1 = k /\ order <= k - 1 /\ k - 1 < k
    BY <1>1, <2>2, BuddyAssumption DEF Orders
  <2>4. Whole(k - 1) = Parts(k - 1)
    <3> SUFFICES ASSUME k - 1 \in T PROVE FALSE
      BY <2>3
    <3> QED BY <2>1, <2>2, <2>3
  <2>5. Whole(k) = Parts(k)
    BY <1>3, <2>2, <2>3, <2>4
  <2> QED BY <2>1, <2>5
<1>5. Whole(stop) = Parts(stop)
  BY <1>4
<1> QED BY <1>0, <1>5 DEF Whole, Parts

\* One turn of buddy_alloc's loop: the upper half of an aligned block.
LEMMA SplitStep ==
  ASSUME NEW p \in Nat, NEW o \in Orders, Aligned(p, o), NEW j \in Orders, j < o
  PROVE  /\ Aligned(p, j) /\ p + BlockFrames[j] \in Nat /\ Aligned(p + BlockFrames[j], j)
         /\ BuddyOf(p + BlockFrames[j], j) = p
         /\ Frames(<<p, j + 1>>) = Frames(<<p, j>>) \cup Frames(<<p + BlockFrames[j], j>>)
         /\ j + 1 \in Orders /\ j + 1 <= o /\ BlockFrames[j + 1] = 2 * BlockFrames[j]
<1>1. j + 1 \in Orders /\ j + 1 <= o /\ j <= o /\ j \in Orders \ {BUDDY_MAX_ORDER}
  BY BuddyAssumption DEF Orders
<1>2. Floor(p, o) = p
  BY FloorOfAligned
<1>3. Aligned(p, j) /\ Aligned(p, j + 1)
  BY <1>1, <1>2, FloorNests
<1>4. Floor(p, j + 1) = p
  BY <1>1, <1>3, FloorOfAligned
<1>5. ~(BuddyOf(p, j) < p)
  <2>1. Floor(p, j + 1) = IF BuddyOf(p, j) < p THEN BuddyOf(p, j) ELSE p
    BY <1>1, <1>3, BuddyHalves
  <2> QED BY <1>4, <2>1
<1>6. BuddyOf(p, j) = p + BlockFrames[j]
  BY <1>5, BlockSizes DEF BuddyOf
<1>7. BlockFrames[j + 1] = 2 * BlockFrames[j]
  BY <1>1, BuddyAssumption
<1> QED BY <1>1, <1>3, <1>4, <1>6, <1>7, BuddyHalves

\* What buddy_alloc puts on the lists and the block it returns are disjoint and make
\* up the block it took off.
LEMMA SplitCover ==
  ASSUME NEW p \in Nat, NEW o \in Orders, Aligned(p, o), NEW order \in Orders, order <= o
  PROVE  /\ \A f : f \in Frames(<<p, o>>) <=>
                     \/ f \in Frames(<<p, order>>)
                     \/ \E j \in order .. o - 1 : f \in Frames(<<p + BlockFrames[j], j>>)
         /\ \A j \in order .. o - 1 :
              Frames(<<p, order>>) \cap Frames(<<p + BlockFrames[j], j>>) = {}
         /\ \A i, j \in order .. o - 1 : i # j =>
              Frames(<<p + BlockFrames[i], i>>) \cap Frames(<<p + BlockFrames[j], j>>) = {}
<1> DEFINE Half(j) == Frames(<<p + BlockFrames[j], j>>)
           Parts(k) == {f \in Int : \/ f \in Frames(<<p, order>>)
                                    \/ \E j \in order .. k - 1 : f \in Half(j)}
           T == {k \in Orders : order <= k /\ k <= o /\ Frames(<<p, k>>) # Parts(k)}
<1>0. \A b : Frames(b) \subseteq Int
  BY DEF Frames
<1>1. T \in SUBSET Nat /\ order \in Nat /\ o \in Nat
  BY BlockSizes
<1>2. Frames(<<p, order>>) = Parts(order)
  <2>1. order .. order - 1 = {}
    BY <1>1
  <2> QED BY <1>0, <2>1
<1>3. ASSUME NEW k \in Orders, order <= k, k < o, Frames(<<p, k>>) = Parts(k)
      PROVE  Frames(<<p, k + 1>>) = Parts(k + 1)
  <2>1. Frames(<<p, k + 1>>) = Frames(<<p, k>>) \cup Half(k)
    BY <1>3, SplitStep
  <2>2. order .. (k + 1) - 1 = (order .. k - 1) \cup {k}
    BY <1>1, <1>3 DEF Orders
  <2> HIDE DEF Half
  <2>3. Parts(k + 1) = Parts(k) \cup Half(k)
    BY <1>0, <2>2 DEF Half
  <2> QED BY <1>3, <2>1, <2>3
<1> HIDE DEF Parts
<1>4. ASSUME T # {} PROVE FALSE
  <2>1. PICK k \in T : \A i \in T : k <= i
    <3> HIDE DEF T
    <3> QED BY <1>1, <1>4, LeastNat
  <2>2. k # order /\ k \in Orders /\ order <= k /\ k <= o /\ k \in Nat
    BY <1>1, <1>2, <2>1
  <2>3. k - 1 \in Orders /\ (k - 1) + 1 = k /\ order <= k - 1 /\ k - 1 < k /\ k - 1 < o
    BY <1>1, <2>2, BuddyAssumption DEF Orders
  <2>4. Frames(<<p, k - 1>>) = Parts(k - 1)
    <3> SUFFICES ASSUME k - 1 \in T PROVE FALSE
      BY <1>1, <2>3
    <3> QED BY <2>1, <2>2, <2>3
  <2>5. Frames(<<p, k>>) = Parts(k)
    BY <1>3, <2>2, <2>3, <2>4
  <2> QED BY <2>1, <2>5
<1>5. Frames(<<p, o>>) = Parts(o)
  BY <1>1, <1>4
<1>6. ASSUME NEW j \in order .. o - 1
      PROVE  /\ j \in Orders /\ j < o /\ BlockFrames[j] \in Nat
             /\ Half(j) = (p + BlockFrames[j]) .. (p + 2 * BlockFrames[j] - 1)
  <2>1. j \in Orders /\ j < o
    BY <1>1, BuddyAssumption DEF Orders
  <2>2. BlockFrames[j] \in Nat
    BY <2>1, BlockSizes
  <2>3. Half(j) = (p + BlockFrames[j]) .. ((p + BlockFrames[j]) + (BlockFrames[j] - 1))
    BY DEF Frames
  <2>4. (p + BlockFrames[j]) + (BlockFrames[j] - 1) = p + 2 * BlockFrames[j] - 1
    BY <2>2
  <2> HIDE DEF Half
  <2> QED BY <2>1, <2>2, <2>3, <2>4
<1>7. ASSUME NEW j \in order .. o - 1 PROVE Frames(<<p, order>>) \cap Half(j) = {}
  <2>0. order <= j /\ j \in Orders /\ BlockFrames[order] \in Nat
    <3>1. order <= j
      BY <1>1
    <3> HIDE DEF Half
    <3> QED BY <1>6, <3>1, BlockSizes
  <2>1. BlockFrames[order] <= BlockFrames[j] /\ BlockFrames[order] \in Nat
    BY <2>0, SizesGrow
  <2>2. Frames(<<p, order>>) = p .. (p + BlockFrames[order] - 1)
    BY DEF Frames
  <2> HIDE DEF Half
  <2>3. /\ BlockFrames[j] \in Nat
        /\ Half(j) = (p + BlockFrames[j]) .. (p + 2 * BlockFrames[j] - 1)
    BY <1>6
  <2> QED BY <2>1, <2>2, <2>3
<1>8. ASSUME NEW i \in order .. o - 1, NEW j \in order .. o - 1, i < j
      PROVE  Half(i) \cap Half(j) = {}
  <2>1. i + 1 <= j /\ i + 1 \in Orders /\ BlockFrames[i + 1] = 2 * BlockFrames[i]
    BY <1>1, <1>6, <1>8, SplitStep
  <2>2. 2 * BlockFrames[i] <= BlockFrames[j]
    BY <1>6, <2>1, SizesGrow
  <2> HIDE DEF Half
  <2>3. BlockFrames[i] \in Nat /\ BlockFrames[j] \in Nat
    BY <1>6
  <2>4. /\ Half(i) = (p + BlockFrames[i]) .. (p + 2 * BlockFrames[i] - 1)
        /\ Half(j) = (p + BlockFrames[j]) .. (p + 2 * BlockFrames[j] - 1)
    BY <1>6
  <2>5. \A f \in Half(i) : f \in Int /\ f <= p + 2 * BlockFrames[i] - 1
    BY <2>3, <2>4
  <2>6. \A f \in Half(j) : f \in Int /\ p + BlockFrames[j] <= f
    BY <2>3, <2>4
  <2> QED BY <2>2, <2>3, <2>5, <2>6
<1>9. \A i, j \in order .. o - 1 : i # j => Half(i) \cap Half(j) = {}
  <2> SUFFICES ASSUME NEW i \in order .. o - 1, NEW j \in order .. o - 1, i # j
               PROVE  Half(i) \cap Half(j) = {}
    OBVIOUS
  <2> HIDE DEF Half
  <2>1. i < j \/ j < i
    BY <1>1
  <2> QED BY <1>8, <2>1
<1> QED BY <1>0, <1>5, <1>7, <1>9 DEF Parts

-----------------------------------------------------------------------------
\* Sets of blocks

\* Aligned blocks, no two of which share a frame.
Tiling(F) ==
  /\ F \in SUBSET Block
  /\ \A b \in F : Aligned(b[1], b[2])
  /\ \A b, c \in F : b # c => Frames(b) \cap Frames(c) = {}

\* No two of them could be merged.
NoBuddies(F) ==
  \A b \in F : b[2] # BUDDY_MAX_ORDER => <<BuddyOf(b[1], b[2]), b[2]>> \notin F

\* A block of an aligned tiling is known by any of its frames and its order.
LEMMA BlockOfFrame ==
  ASSUME NEW F, Tiling(F), NEW b \in F, NEW f \in Frames(b)
  PROVE  /\ b[1] \in Nat /\ b[2] \in Orders /\ b = <<b[1], b[2]>> /\ f \in Nat
         /\ b[1] = Floor(f, b[2]) /\ b = <<Floor(f, b[2]), b[2]>>
<1>1. b[1] \in Nat /\ b[2] \in Orders /\ b = <<b[1], b[2]>> /\ Aligned(b[1], b[2])
  BY DEF Tiling, Block
<1>2. f \in Frames(<<b[1], b[2]>>)
  BY <1>1
<1> QED BY <1>1, <1>2, AlignedIsFloor

\* Where no merge is possible every block is as large as it can be: the block of the
\* next order around it is not all covered.
LEMMA Maximal ==
  ASSUME NEW F, Tiling(F), NoBuddies(F), NEW b \in F, NEW o \in Orders, b[2] < o,
         Frames(<<Floor(b[1], o), o>>) \subseteq Covered(F)
  PROVE  FALSE
<1> DEFINE P == <<Floor(b[1], o), o>>
           D == {j \in Orders : \E c \in F : c[2] = j /\ Frames(c) \subseteq Frames(P)}
<1>1. b[1] \in Nat /\ b[2] \in Orders /\ b = <<b[1], b[2]>> /\ Aligned(b[1], b[2])
  BY DEF Tiling, Block
<1>2. \A k \in Orders : k \in Nat
  BY BlockSizes
<1>3. b[2] <= o
  BY <1>1, <1>2
<1>4. Frames(b) \subseteq Frames(P)
  <2>1. Floor(b[1], b[2]) = b[1]
    BY <1>1, FloorOfAligned
  <2>2. Frames(<<Floor(b[1], b[2]), b[2]>>) \subseteq Frames(P)
    BY <1>1, <1>3, FloorNests
  <2> QED BY <1>1, <2>1, <2>2
<1>5. PICK j \in D : \A i \in D : j <= i
  <2>1. D \in SUBSET Nat /\ b[2] \in D
    BY <1>1, <1>2, <1>4
  <2> HIDE DEF D
  <2> QED BY <2>1, LeastNat
<1>6. PICK c \in F : c[2] = j /\ Frames(c) \subseteq Frames(P)
  BY <1>5
<1>7. c[1] \in Nat /\ j \in Orders /\ c = <<c[1], j>> /\ Aligned(c[1], j)
  BY <1>6 DEF Tiling, Block
<1>8. j < o /\ j <= b[2]
  <2>1. j <= b[2]
    BY <1>1, <1>4, <1>5
  <2> QED BY <1>1, <1>2, <1>7, <2>1
<1>9. j # BUDDY_MAX_ORDER /\ j + 1 \in Orders /\ j + 1 <= o
  BY <1>2, <1>7, <1>8, BuddyAssumption DEF Orders
<1> DEFINE y == BuddyOf(c[1], j)
<1>10. /\ y \in Nat /\ Aligned(y, j)
       /\ Frames(<<Floor(c[1], j + 1), j + 1>>) = Frames(<<c[1], j>>) \cup Frames(<<y, j>>)
       /\ Floor(y, j + 1) = Floor(c[1], j + 1)
  BY <1>7, <1>9, BuddyHalves
<1> HIDE DEF y
<1>11. y \in Frames(<<y, j>>) /\ c[1] \in Frames(<<c[1], j>>)
  BY <1>7, <1>10, FloorOfAligned
<1>12. Frames(<<y, j>>) \subseteq Frames(P)
  <2>1. Floor(c[1], o) = Floor(b[1], o)
    <3>1. c[1] \in Frames(P)
      BY <1>6, <1>7, <1>11
    <3>2. Floor(b[1], o) \in Nat /\ Aligned(Floor(b[1], o), o)
      BY <1>1, FloorFacts
    <3> QED BY <3>1, <3>2, AlignedIsFloor
  <2>2. Frames(<<Floor(c[1], j + 1), j + 1>>) \subseteq Frames(<<Floor(c[1], o), o>>)
    BY <1>7, <1>9, FloorNests
  <2> QED BY <1>10, <2>1, <2>2
<1>13. PICK d \in F : y \in Frames(d)
  BY <1>11, <1>12 DEF Covered
<1>14. d[2] \in Orders /\ d = <<Floor(y, d[2]), d[2]>> /\ d[2] \in Nat /\ j \in Nat
  BY <1>2, <1>7, <1>13, BlockOfFrame
<1>15. CASE d[2] = j
  <2>1. d = <<y, j>>
    BY <1>7, <1>10, <1>14, <1>15, FloorOfAligned
  <2>2. <<y, j>> \notin F
    BY <1>6, <1>7, <1>9 DEF NoBuddies, y
  <2> QED BY <1>13, <2>1, <2>2
<1>16. CASE d[2] < j
  <2>1. Frames(d) \subseteq Frames(<<Floor(y, j), j>>)
    BY <1>7, <1>10, <1>14, <1>16, FloorNests
  <2>2. Floor(y, j) = y
    BY <1>7, <1>10, FloorOfAligned
  <2>3. d[2] \in D
    BY <1>12, <1>13, <1>14, <2>1, <2>2
  <2>4. j <= d[2]
    BY <1>5, <2>3
  <2> QED BY <1>14, <1>16, <2>4
<1>17. CASE d[2] > j
  <2>1. j + 1 <= d[2]
    BY <1>14, <1>17
  <2>2. Frames(<<Floor(y, j + 1), j + 1>>) \subseteq Frames(d)
    BY <1>9, <1>10, <1>14, <2>1, FloorNests
  <2>3. c[1] \in Frames(d) /\ c[1] \in Frames(c)
    BY <1>7, <1>10, <1>11, <2>2
  <2>4. c # d
    BY <1>6, <1>14, <1>17
  <2> QED BY <1>6, <1>13, <2>3, <2>4 DEF Tiling
<1> QED BY <1>14, <1>15, <1>16, <1>17

\* Two tilings of the same frames in which no merge is possible are the same.
LEMMA TilingsUnique ==
  ASSUME NEW F, NEW G, Tiling(F), Tiling(G), NoBuddies(F), NoBuddies(G),
         Covered(F) = Covered(G)
  PROVE  F \subseteq G
<1> SUFFICES ASSUME NEW b \in F PROVE b \in G
  OBVIOUS
<1>1. b[1] \in Nat /\ b[2] \in Orders /\ b = <<b[1], b[2]>> /\ Aligned(b[1], b[2])
  BY DEF Tiling, Block
<1>2. b[1] \in Frames(b)
  BY <1>1, FloorOfAligned
<1>3. PICK c \in G : b[1] \in Frames(c)
  BY <1>2 DEF Covered
<1>4. /\ c[1] \in Nat /\ c[2] \in Orders /\ c = <<c[1], c[2]>> /\ c[1] = Floor(b[1], c[2])
      /\ Aligned(c[1], c[2])
  <2>1. Aligned(c[1], c[2])
    BY <1>3 DEF Tiling
  <2> QED BY <1>3, <2>1, BlockOfFrame
<1>5. b[2] \in Nat /\ c[2] \in Nat
  BY <1>1, <1>4, BlockSizes
<1>6. CASE b[2] = c[2]
  <2>1. Floor(b[1], b[2]) = b[1]
    BY <1>1, FloorOfAligned
  <2>2. c = b
    BY <1>1, <1>4, <1>6, <2>1
  <2> QED BY <1>3, <2>2
<1>7. CASE b[2] < c[2]
  <2>1. Frames(<<Floor(b[1], c[2]), c[2]>>) \subseteq Covered(F)
    BY <1>3, <1>4 DEF Covered
  <2> QED BY <1>4, <1>7, <2>1, Maximal
<1>8. CASE c[2] < b[2]
  <2>1. Floor(c[1], b[2]) = b[1]
    <3>1. Floor(c[1], b[2]) = Floor(b[1], b[2])
      BY <1>1, <1>4, <1>5, <1>8, FloorOfFloor
    <3> QED BY <1>1, <3>1, FloorOfAligned
  <2>2. Frames(<<Floor(c[1], b[2]), b[2]>>) \subseteq Covered(G)
    BY <1>1, <2>1 DEF Covered
  <2> QED BY <1>1, <1>3, <1>8, <2>2, Maximal
<1> QED BY <1>5, <1>6, <1>7, <1>8

-----------------------------------------------------------------------------
\* The inductive invariant

\* Before buddy_init nothing is on a list, lent or claimed.
IdleInv ==
  phase \in {"boot", "halted", "pmm"} =>
    /\ free_list = [o \in Orders |-> {}] /\ allocated = {} /\ seeded = {} /\ claimed = {}
    /\ walk = 0 /\ run_start = 0

\* Where buddy_init's walk is: in the region of its entry, whose frames from f on are
\* not claimed yet, as none are of later entries; a run never leaves its region.
WalkInv ==
  /\ PmmUp => UsableEntries # {}
  /\ phase = "buddy_init" =>
       /\ entry \in 1 .. Len(memmap) /\ RegionFirst(entry) <= walk
       /\ \A f \in claimed : \E i \in UsableEntries :
            f \in FramesOf(memmap[i]) /\ i <= entry /\ (i = entry => f < walk)
       /\ \A f \in Run : entry \in UsableEntries /\ f \in FramesOf(memmap[entry])

\* The seeded blocks tile what the lists and the callers have between them.
SeedInv ==
  /\ Tiling(seeded)
  /\ Covered(seeded) = Covered(Blocks)
  /\ phase = "buddy_init" => FreeBlocks = seeded /\ allocated = {}

\* The counts are the lists' lengths.
CountInv == \A o \in Orders : IsFiniteSet(free_list[o]) /\ free_count[o] = Cardinality(free_list[o])

\* A block that ends where the run begins is of the same run, which is over: it was
\* seeded with the largest order that fits.
GreedyInv ==
  phase = "buddy_init" =>
    \A b \in seeded : b[1] + BlockFrames[b[2]] = run_start =>
      /\ ~(InRegion /\ Claimable(walk))
      /\ b[2] # BUDDY_MAX_ORDER /\ Aligned(b[1], b[2] + 1) =>
           b[1] + 2 * BlockFrames[b[2]] > walk

\* Everything that can merge has merged.
MergedInv == RegionsApart => NoBuddies(FreeBlocks) /\ NoBuddies(seeded) /\ GreedyInv

BuddyInv ==
  /\ BuddyTypeOK /\ PmmInv /\ BlocksPartitionClaimed
  /\ IdleInv /\ WalkInv /\ SeedInv /\ CountInv /\ MergedInv

\* The free blocks of the lists fl.
ListBlocks(fl) == UNION {fl[o] \X {o} : o \in Orders}

\* A free block is one on the list of its order.
LEMMA OnList ==
  ASSUME NEW fl
  PROVE  /\ \A x, o : <<x, o>> \in ListBlocks(fl) <=> o \in Orders /\ x \in fl[o]
         /\ \A b \in ListBlocks(fl) : b = <<b[1], b[2]>> /\ b[2] \in Orders /\ b[1] \in fl[b[2]]
BY DEF ListBlocks

\* The invariant makes tilings of the free blocks and of all blocks.
LEMMA BlocksTile ==
  ASSUME BuddyInv
  PROVE  /\ FreeBlocks = ListBlocks(free_list)
         /\ Tiling(Blocks) /\ Tiling(FreeBlocks)
         /\ \A b \in Blocks : /\ b[1] \in Nat /\ b[2] \in Orders /\ b = <<b[1], b[2]>>
                              /\ Aligned(b[1], b[2]) /\ b[1] \in Frames(b)
<1>1. FreeBlocks = ListBlocks(free_list)
  BY DEF FreeBlocks, ListBlocks
<1>2. FreeBlocks \in SUBSET Block
  BY <1>1, OnList DEF BuddyInv, BuddyTypeOK, Block
<1>3. Blocks \in SUBSET Block
  BY <1>2 DEF Blocks, BuddyInv, BuddyTypeOK
<1>4. Tiling(Blocks)
  BY <1>3 DEF Tiling, BuddyInv, BlocksPartitionClaimed
<1>5. Tiling(FreeBlocks)
  BY <1>2, <1>4 DEF Tiling, Blocks
<1>6. ASSUME NEW b \in Blocks
      PROVE  /\ b[1] \in Nat /\ b[2] \in Orders /\ b = <<b[1], b[2]>>
             /\ Aligned(b[1], b[2]) /\ b[1] \in Frames(b)
  <2>1. b[1] \in Nat /\ b[2] \in Orders /\ b = <<b[1], b[2]>> /\ Aligned(b[1], b[2])
    BY <1>4 DEF Tiling, Block
  <2>2. b[1] \in Frames(<<b[1], b[2]>>)
    BY <2>1, FloorOfAligned
  <2> QED BY <2>1, <2>2
<1> QED BY <1>1, <1>4, <1>5, <1>6

\* The memory map: every entry is a region of frames.
LEMMA MapFacts ==
  ASSUME PmmTypeOK
  PROVE  /\ Len(memmap) \in Nat /\ DOMAIN memmap = 1 .. Len(memmap)
         /\ \A i \in 1 .. Len(memmap) : /\ memmap[i].base \in Nat /\ memmap[i].length \in Nat
                                        /\ memmap[i].usable \in BOOLEAN
         /\ UsableEntries \subseteq 1 .. Len(memmap)
         /\ \A i, j \in UsableEntries :
              i # j => FramesOf(memmap[i]) \cap FramesOf(memmap[j]) = {}
<1>1. memmap \in Memmaps
  BY DEF PmmTypeOK
<1>2. memmap \in Seq(Entry)
  BY <1>1, MemmapsAssumption
<1>3. Len(memmap) \in Nat /\ DOMAIN memmap = 1 .. Len(memmap)
  BY <1>2
<1>4. \A i \in 1 .. Len(memmap) : memmap[i] \in Entry
  BY <1>2, <1>3
<1>5. \A i, j \in UsableEntries : i # j => FramesOf(memmap[i]) \cap FramesOf(memmap[j]) = {}
  BY <1>1, MemmapsAssumption DEF UsableEntries
<1>6. UsableEntries \subseteq 1 .. Len(memmap)
  BY <1>3 DEF UsableEntries
<1> QED BY <1>3, <1>4, <1>5, <1>6 DEF Entry

\* Steps of the frame allocator outside buddy_init, and buddy_init's return: the
\* blocks and the claimed frames stay as they are.
LEMMA QuietStep ==
  ASSUME BuddyInv, PmmInv', UNCHANGED <<memmap, claimed, buddyVars, initVars>>,
         phase' # "buddy_init",
         phase' \in {"boot", "halted", "pmm"} => phase \in {"boot", "halted", "pmm"},
         PmmUp' => UsableEntries # {}
  PROVE  BuddyInv'
<1>1. /\ free_list' = free_list /\ free_count' = free_count /\ allocated' = allocated
      /\ seeded' = seeded /\ memmap' = memmap /\ claimed' = claimed
      /\ entry' = entry /\ walk' = walk /\ run_start' = run_start /\ taken' = taken
      /\ budget' = budget
  BY DEF buddyVars, initVars
<1>2. FreeBlocks' = FreeBlocks /\ Blocks' = Blocks /\ Run' = Run /\ UsableEntries' = UsableEntries
  BY <1>1 DEF FreeBlocks, Blocks, Run, UsableEntries
<1>3. BuddyTypeOK'
  BY <1>1 DEF BuddyInv, BuddyTypeOK, PmmInv
<1>4. BlocksPartitionClaimed' /\ CountInv'
  BY <1>1, <1>2 DEF BuddyInv, BlocksPartitionClaimed, CountInv
<1>5. IdleInv'
  BY <1>1 DEF BuddyInv, IdleInv
<1>6. WalkInv' /\ SeedInv'
  BY <1>1, <1>2 DEF BuddyInv, WalkInv, SeedInv
<1>7. MergedInv'
  <2>1. RegionsApart' = RegionsApart
    BY <1>1, <1>2 DEF RegionsApart
  <2>2. GreedyInv'
    BY DEF GreedyInv
  <2> QED BY <1>1, <1>2, <2>1, <2>2 DEF BuddyInv, MergedInv
<1> QED BY <1>3, <1>4, <1>5, <1>6, <1>7 DEF BuddyInv

\* A step in which nothing happens.
LEMMA StutterInv ==
  ASSUME BuddyInv, UNCHANGED vars
  PROVE  BuddyInv'
<1>1. /\ free_list' = free_list /\ free_count' = free_count /\ allocated' = allocated
      /\ seeded' = seeded /\ entry' = entry /\ walk' = walk /\ run_start' = run_start
      /\ taken' = taken /\ budget' = budget
  BY DEF vars, buddyVars, initVars
<1>2. /\ memmap' = memmap /\ phase' = phase /\ bitmap' = bitmap /\ total_frames' = total_frames
      /\ claimed' = claimed /\ UNCHANGED <<memmap, bitmap, counters, free_frames, next_hint, lent, claimed>>
  BY DEF vars, pmmVars, counters
<1>3. PmmInv'
  BY <1>2, StutterPmmInv DEF BuddyInv, PmmInv, PmmTypeOK, PmmUp
<1>4. CASE phase # "buddy_init"
  BY <1>1, <1>2, <1>3, <1>4, QuietStep DEF buddyVars, initVars, BuddyInv, WalkInv, PmmUp
<1>5. CASE phase = "buddy_init"
  <2>2. FreeBlocks' = FreeBlocks /\ Blocks' = Blocks /\ Run' = Run /\ UsableEntries' = UsableEntries
    BY <1>1, <1>2 DEF FreeBlocks, Blocks, Run, UsableEntries
  <2>3. BuddyTypeOK'
    BY <1>1, <1>3 DEF BuddyInv, BuddyTypeOK, PmmInv
  <2>4. BlocksPartitionClaimed' /\ CountInv' /\ IdleInv'
    BY <1>1, <1>2, <2>2 DEF BuddyInv, BlocksPartitionClaimed, CountInv, IdleInv
  <2>5. WalkInv' /\ SeedInv'
    BY <1>1, <1>2, <2>2 DEF BuddyInv, WalkInv, SeedInv, RegionFirst, PmmUp
  <2>6. RegionsApart' = RegionsApart /\ InRegion' = InRegion /\ Claimable(walk)' = Claimable(walk)
    BY <1>1, <1>2, <2>2 DEF RegionsApart, InRegion, Claimable, RegionEnd
  <2>7. MergedInv'
    BY <1>1, <1>2, <2>2, <2>6 DEF BuddyInv, MergedInv, GreedyInv
  <2> QED BY <1>3, <2>3, <2>4, <2>5, <2>7 DEF BuddyInv
<1> QED BY <1>4, <1>5

\* The frame allocator's steps before and after buddy_init.
LEMMA PmmStepInv ==
  ASSUME BuddyInv, PmmStep
  PROVE  BuddyInv'
<1>1. UNCHANGED <<buddyVars, initVars>>
  BY DEF PmmStep
<1>2. phase \in Phases /\ PmmInv
  BY DEF BuddyInv, PmmInv, PmmTypeOK
<1>3. CASE pmm_init
  <2>1. PmmInv'
    BY <1>2, <1>3, InitStepPmmInv
  <2>2. memmap' = memmap /\ claimed' = claimed /\ phase = "boot" /\ phase' = "pmm" /\ BitmapHome # 0
    BY <1>3 DEF pmm_init
  <2>3. UsableEntries # {}
    BY <2>2 DEF BitmapHome, BitmapHomes
  <2> QED BY <1>1, <2>1, <2>2, <2>3, QuietStep
<1>4. CASE pmm_init_halts
  <2>1. PmmInv'
    BY <1>2, <1>4, StutterPmmInv DEF pmm_init_halts, PmmUp, Phases
  <2>2. memmap' = memmap /\ claimed' = claimed /\ phase = "boot" /\ phase' = "halted"
    BY <1>4 DEF pmm_init_halts
  <2> QED BY <1>1, <2>1, <2>2, QuietStep DEF PmmUp
<1>5. CASE phase \in {"pmm", "up"} /\ pmm_alloc_frame
  <2>1. PmmInv'
    BY <1>2, <1>5, AllocPmmInv DEF PmmUp
  <2>2. memmap' = memmap /\ claimed' = claimed /\ phase' = phase
    BY <1>5 DEF pmm_alloc_frame
  <2>3. PmmUp' => UsableEntries # {}
    BY <2>2 DEF BuddyInv, WalkInv, PmmUp
  <2> QED BY <1>1, <1>5, <2>1, <2>2, <2>3, QuietStep
<1>6. CASE UNCHANGED pmmVars
  BY <1>1, <1>6, StutterInv DEF vars
<1> QED BY <1>3, <1>4, <1>5, <1>6 DEF PmmStep, pmm_alloc_fails, Halted

-----------------------------------------------------------------------------
\* buddy_init

\* Nothing is covered by no blocks.
LEMMA NothingCovered == Covered({}) = {} /\ Tiling({}) /\ NoBuddies({})
BY DEF Covered, Tiling, NoBuddies

\* Its entry: the lists are empty and the walk begins in a region.
LEMMA BeginInv ==
  ASSUME BuddyInv, buddy_init_begin
  PROVE  BuddyInv'
<1>1. /\ phase = "pmm" /\ phase' = "buddy_init"
      /\ free_list' = [o \in Orders |-> {}] /\ free_count' = [o \in Orders |-> 0]
      /\ budget' = IF free_frames > RESERVE_FRAMES THEN free_frames - RESERVE_FRAMES ELSE 0
      /\ taken' = 0 /\ entry' = 1 /\ walk' = memmap[1].base /\ run_start' = memmap[1].base
      /\ UNCHANGED <<memmap, bitmap, counters, free_frames, next_hint, lent, claimed,
                     allocated, seeded>>
  BY DEF buddy_init_begin, RegionFirst
<1>2. allocated = {} /\ seeded = {} /\ claimed = {}
  BY <1>1 DEF BuddyInv, IdleInv
<1>3. PmmInv'
  BY <1>1, StutterPmmInv DEF BuddyInv, PmmUp, Phases
<1>4. Len(memmap) \in Nat /\ 1 \in 1 .. Len(memmap) /\ memmap[1].base \in Nat
  <2>1. UsableEntries # {} /\ UsableEntries \subseteq 1 .. Len(memmap) /\ Len(memmap) \in Nat
    BY <1>1, MapFacts DEF BuddyInv, WalkInv, PmmUp, PmmInv
  <2>2. PICK i : i \in UsableEntries
    BY <2>1
  <2>3. i \in 1 .. Len(memmap)
    BY <2>1, <2>2
  <2>4. 1 \in 1 .. Len(memmap)
    BY <2>1, <2>3
  <2> QED BY <2>1, <2>4, MapFacts DEF BuddyInv, PmmInv
<1>5. BuddyTypeOK'
  <2>1. free_list' \in [Orders -> SUBSET Nat] /\ free_count' \in [Orders -> Int]
    BY <1>1
  <2>2. budget' \in Nat
    BY <1>1, BuddyAssumption DEF BuddyInv, PmmInv, PmmTypeOK
  <2> QED BY <1>1, <1>2, <1>3, <1>4, <2>1, <2>2 DEF BuddyTypeOK, PmmInv
<1>6. FreeBlocks' = {} /\ Blocks' = {} /\ Run' = {}
  <2>1. FreeBlocks' = {}
    BY <1>1 DEF FreeBlocks
  <2>2. Run' = {}
    BY <1>1, <1>4 DEF Run
  <2> QED BY <1>1, <1>2, <2>1, <2>2 DEF Blocks
<1>7. BlocksPartitionClaimed'
  BY <1>1, <1>2, <1>6, NothingCovered DEF BlocksPartitionClaimed
<1>8. IdleInv'
  BY <1>1 DEF IdleInv
<1>9. WalkInv'
  <2>1. UsableEntries' = UsableEntries
    BY <1>1 DEF UsableEntries
  <2>2. UsableEntries # {}
    BY <1>1 DEF BuddyInv, WalkInv, PmmUp
  <2> QED BY <1>1, <1>2, <1>4, <1>6, <2>1, <2>2 DEF WalkInv, RegionFirst
<1>10. SeedInv'
  BY <1>1, <1>2, <1>6, NothingCovered DEF SeedInv
<1>11. CountInv'
  BY <1>1, FS_EmptySet DEF CountInv
<1>12. MergedInv'
  <2>1. GreedyInv'
    BY <1>1, <1>2 DEF GreedyInv
  <2> QED BY <1>1, <1>2, <1>6, <2>1, NothingCovered DEF MergedInv
<1> QED BY <1>3, <1>5, <1>7, <1>8, <1>9, <1>10, <1>11, <1>12 DEF BuddyInv

\* Where the walk is when its loop goes on.
LEMMA InRegionFacts ==
  ASSUME BuddyInv, phase = "buddy_init", InRegion
  PROVE  /\ entry \in UsableEntries /\ walk \in FramesOf(memmap[entry])
         /\ walk \notin claimed
<1>1. /\ entry \in 1 .. Len(memmap) /\ RegionFirst(entry) <= walk /\ walk \in Nat
      /\ entry \in Nat
  BY DEF BuddyInv, WalkInv, BuddyTypeOK
<1>2. memmap[entry].base \in Nat /\ memmap[entry].length \in Nat /\ entry \in DOMAIN memmap
  BY <1>1, MapFacts DEF BuddyInv, PmmInv
<1>3. memmap[entry].usable
  BY <1>1, <1>2 DEF InRegion, RegionEnd, RegionFirst
<1>4. entry \in UsableEntries /\ walk \in FramesOf(memmap[entry])
  BY <1>1, <1>2, <1>3 DEF UsableEntries, FramesOf, InRegion, RegionEnd, RegionFirst
<1>5. ASSUME walk \in claimed PROVE FALSE
  <2>1. PICK i \in UsableEntries : walk \in FramesOf(memmap[i]) /\ i <= entry /\ (i = entry => walk < walk)
    BY <1>5 DEF BuddyInv, WalkInv
  <2>2. i # entry
    BY <1>1, <2>1
  <2> QED BY <1>4, <2>1, <2>2, MapFacts DEF BuddyInv, PmmInv
<1> QED BY <1>4, <1>5

\* A frame is claimed: the run grows.
LEMMA ClaimInv ==
  ASSUME BuddyInv, buddy_init_claim
  PROVE  BuddyInv'
<1>1. /\ phase = "buddy_init" /\ phase' = phase /\ InRegion /\ pmm_claim_frame(walk)
      /\ Claimable(walk)
      /\ walk' = walk + 1 /\ taken' = taken + 1 /\ claimed' = claimed \cup {walk}
      /\ memmap' = memmap /\ entry' = entry /\ run_start' = run_start /\ budget' = budget
      /\ free_list' = free_list /\ free_count' = free_count /\ allocated' = allocated
      /\ seeded' = seeded
  BY DEF buddy_init_claim, pmm_claim_frame, buddyVars
<1>2. walk \in Nat /\ run_start \in Nat /\ run_start <= walk /\ taken \in Nat
  BY DEF BuddyInv, BuddyTypeOK
<1>3. PmmInv'
  BY <1>1, <1>2, ClaimPmmInv DEF BuddyInv, PmmUp, Phases
<1>4. /\ entry \in UsableEntries /\ walk \in FramesOf(memmap[entry]) /\ walk \notin claimed
  BY <1>1, InRegionFacts
<1>5. FreeBlocks' = FreeBlocks /\ Blocks' = Blocks /\ UsableEntries' = UsableEntries
  BY <1>1 DEF FreeBlocks, Blocks, UsableEntries
<1>6. Run' = Run \cup {walk}
  BY <1>1, <1>2 DEF Run
<1>7. BuddyTypeOK'
  BY <1>1, <1>2, <1>3 DEF BuddyInv, BuddyTypeOK, PmmInv
<1>8. BlocksPartitionClaimed'
  <2>1. walk \notin Covered(Blocks)
    BY <1>4 DEF BuddyInv, BlocksPartitionClaimed
  <2> QED BY <1>1, <1>5, <1>6, <2>1 DEF BuddyInv, BlocksPartitionClaimed
<1>9. IdleInv'
  BY <1>1 DEF IdleInv
<1>10. WalkInv'
  <2>1. PmmUp' => UsableEntries' # {}
    BY <1>4, <1>5
  <2>2. entry' \in 1 .. Len(memmap') /\ RegionFirst(entry)' <= walk'
    <3>1. memmap[entry].base \in Nat
      BY <1>4, MapFacts DEF BuddyInv, PmmInv
    <3> QED BY <1>1, <1>2, <3>1 DEF BuddyInv, WalkInv, RegionFirst
  <2>3. ASSUME NEW f \in claimed'
        PROVE  \E i \in UsableEntries :
                 f \in FramesOf(memmap[i]) /\ i <= entry /\ (i = entry => f < walk + 1)
    <3>1. CASE f = walk
      <4>1. entry <= entry /\ walk < walk + 1
        BY <1>2 DEF BuddyInv, BuddyTypeOK
      <4> QED BY <1>4, <3>1, <4>1
    <3>2. CASE f \in claimed
      <4>1. PICK i \in UsableEntries :
              f \in FramesOf(memmap[i]) /\ i <= entry /\ (i = entry => f < walk)
        BY <1>1, <3>2 DEF BuddyInv, WalkInv
      <4>2. f \in Int
        BY <4>1, MapFacts DEF FramesOf, BuddyInv, PmmInv
      <4>3. i = entry => f < walk + 1
        BY <1>2, <4>1, <4>2
      <4> QED BY <4>1, <4>3
    <3> QED BY <1>1, <3>1, <3>2
  <2>4. \A f \in Run' : entry \in UsableEntries /\ f \in FramesOf(memmap[entry])
    BY <1>1, <1>4, <1>6 DEF BuddyInv, WalkInv
  <2> QED BY <1>1, <1>5, <2>1, <2>2, <2>3, <2>4 DEF WalkInv
<1>11. SeedInv' /\ CountInv'
  BY <1>1, <1>5 DEF BuddyInv, SeedInv, CountInv
<1>12. MergedInv'
  <2>1. RegionsApart' = RegionsApart
    BY <1>1, <1>5 DEF RegionsApart
  <2>2. RegionsApart => GreedyInv'
    <3>1. RegionsApart => \A b \in seeded : b[1] + BlockFrames[b[2]] # run_start
      BY <1>1 DEF BuddyInv, MergedInv, GreedyInv
    <3> QED BY <1>1, <3>1 DEF GreedyInv
  <2> QED BY <1>1, <1>5, <2>1, <2>2 DEF BuddyInv, MergedInv
<1> QED BY <1>3, <1>7, <1>8, <1>9, <1>10, <1>11, <1>12 DEF BuddyInv

\* The frames of a seeded block are claimed, its last one too.
LEMMA SeedEnd ==
  ASSUME BuddyInv, phase = "buddy_init", NEW b \in seeded
  PROVE  LET e == b[1] + BlockFrames[b[2]] IN
         /\ b[1] \in Nat /\ b[2] \in Orders /\ b = <<b[1], b[2]>> /\ BlockFrames[b[2]] \in Nat \ {0}
         /\ e \in Nat \ {0} /\ e - 1 \in Frames(b) /\ Frames(b) \subseteq claimed
         /\ \E i \in UsableEntries :
              e - 1 \in FramesOf(memmap[i]) /\ i <= entry /\ (i = entry => e - 1 < walk)
<1>1. b \in Blocks
  BY DEF BuddyInv, SeedInv, Blocks
<1>2. b[1] \in Nat /\ b[2] \in Orders /\ b = <<b[1], b[2]>>
  BY <1>1, BlocksTile
<1>3. BlockFrames[b[2]] \in Nat \ {0}
  BY <1>2, BlockSizes
<1> DEFINE e == b[1] + BlockFrames[b[2]]
<1>4. e \in Nat \ {0} /\ e - 1 \in Frames(b)
  BY <1>2, <1>3 DEF Frames
<1>5. Frames(b) \subseteq claimed
  BY <1>1 DEF BuddyInv, BlocksPartitionClaimed, Covered
<1> HIDE DEF e
<1>6. \E i \in UsableEntries :
        e - 1 \in FramesOf(memmap[i]) /\ i <= entry /\ (i = entry => e - 1 < walk)
  BY <1>4, <1>5 DEF BuddyInv, WalkInv
<1> QED BY <1>2, <1>3, <1>4, <1>5, <1>6 DEF e

\* The walk goes on to where no run is yet: another frame or another region.
LEMMA MoveInv ==
  ASSUME BuddyInv, PmmInv', phase = "buddy_init", phase' = "buddy_init", RunEmpty,
         UNCHANGED <<memmap, claimed, buddyVars, taken, budget>>,
         run_start' = walk', walk' \in Nat, WalkInv',
         RegionsApart /\ (InRegion /\ Claimable(walk))' =>
            \A b \in seeded : b[1] + BlockFrames[b[2]] # walk'
  PROVE  BuddyInv'
<1>1. /\ free_list' = free_list /\ free_count' = free_count /\ allocated' = allocated
      /\ seeded' = seeded
  BY DEF buddyVars
<1>2. FreeBlocks' = FreeBlocks /\ Blocks' = Blocks /\ UsableEntries' = UsableEntries
  BY <1>1 DEF FreeBlocks, Blocks, UsableEntries
<1>3. Run = {} /\ Run' = {}
  <2>1. run_start = walk /\ walk \in Nat
    BY DEF RunEmpty, BuddyInv, BuddyTypeOK
  <2>2. Run = {}
    BY <2>1 DEF Run
  <2>3. Run' = walk' .. (walk' - 1)
    BY DEF Run
  <2>4. \A w \in Nat : w .. (w - 1) = {}
    OBVIOUS
  <2> QED BY <2>2, <2>3, <2>4, Zenon
<1>4. BuddyTypeOK'
  <2>1. run_start' \in 0 .. walk'
    OBVIOUS
  <2>2. entry' \in Nat
    BY DEF WalkInv
  <2> QED BY <1>1, <2>1, <2>2 DEF BuddyInv, BuddyTypeOK, PmmInv
<1>5. BlocksPartitionClaimed' /\ CountInv' /\ SeedInv' /\ IdleInv'
  BY <1>1, <1>2, <1>3 DEF BuddyInv, BlocksPartitionClaimed, CountInv, SeedInv, IdleInv
<1>6. RegionsApart' = RegionsApart
  BY <1>2 DEF RegionsApart
<1>7. RegionsApart => GreedyInv'
  <2> SUFFICES ASSUME RegionsApart, NEW b \in seeded, b[1] + BlockFrames[b[2]] = walk'
               PROVE  /\ ~(InRegion /\ Claimable(walk))'
                      /\ b[1] + 2 * BlockFrames[b[2]] > walk'
    BY <1>1 DEF GreedyInv
  <2>1. b[1] \in Nat /\ BlockFrames[b[2]] \in Nat \ {0}
    BY SeedEnd
  <2> QED BY <2>1
<1>8. MergedInv'
  BY <1>1, <1>2, <1>6, <1>7 DEF BuddyInv, MergedInv
<1> QED BY <1>4, <1>5, <1>8 DEF BuddyInv

\* A frame that cannot be claimed is skipped.
LEMMA SkipInv ==
  ASSUME BuddyInv, buddy_init_skip
  PROVE  BuddyInv'
<1>1. /\ phase = "buddy_init" /\ RunEmpty /\ InRegion
      /\ walk' = walk + 1 /\ run_start' = walk + 1
      /\ UNCHANGED <<pmmVars, buddyVars, entry, taken, budget>>
  BY DEF buddy_init_skip
<1>2. /\ phase' = phase /\ memmap' = memmap /\ claimed' = claimed /\ walk \in Nat
      /\ UNCHANGED <<memmap, bitmap, counters, free_frames, next_hint, lent, claimed>>
  BY <1>1 DEF pmmVars, BuddyInv, BuddyTypeOK
<1>3. PmmInv'
  BY <1>1, <1>2, StutterPmmInv DEF BuddyInv, PmmUp, Phases
<1>4. entry \in UsableEntries /\ walk \in FramesOf(memmap[entry]) /\ walk \notin claimed
  BY <1>1, InRegionFacts
<1>5. UsableEntries' = UsableEntries
  BY <1>2 DEF UsableEntries
<1>6. Run' = {}
  BY <1>1, <1>2 DEF Run
<1>7. WalkInv'
  <2>1. entry \in 1 .. Len(memmap) /\ RegionFirst(entry)' <= walk'
    <3>1. memmap[entry].base \in Nat
      BY <1>4, MapFacts DEF BuddyInv, PmmInv
    <3> QED BY <1>1, <1>2, <3>1 DEF BuddyInv, WalkInv, RegionFirst
  <2>2. ASSUME NEW f \in claimed
        PROVE  \E i \in UsableEntries :
                 f \in FramesOf(memmap[i]) /\ i <= entry /\ (i = entry => f < walk + 1)
    <3>1. PICK i \in UsableEntries :
            f \in FramesOf(memmap[i]) /\ i <= entry /\ (i = entry => f < walk)
      BY <1>1 DEF BuddyInv, WalkInv
    <3>2. f \in Int
      BY <3>1, MapFacts DEF FramesOf, BuddyInv, PmmInv
    <3>3. i = entry => f < walk + 1
      BY <1>2, <3>1, <3>2
    <3> QED BY <3>1, <3>3
  <2> QED BY <1>1, <1>2, <1>4, <1>5, <1>6, <2>1, <2>2 DEF WalkInv
<1>8. ASSUME NEW b \in seeded PROVE b[1] + BlockFrames[b[2]] # walk'
  <2> SUFFICES ASSUME b[1] + BlockFrames[b[2]] = walk + 1 PROVE FALSE
    BY <1>1
  <2>1. walk \in claimed
    <3>1. (walk + 1) - 1 \in Frames(b) /\ Frames(b) \subseteq claimed
      BY <1>1, SeedEnd
    <3> QED BY <1>2, <3>1
  <2> QED BY <1>4, <2>1
<1>9. walk' \in Nat /\ run_start' = walk' /\ UNCHANGED <<memmap, claimed, buddyVars, taken, budget>>
  BY <1>1, <1>2
<1> QED BY <1>1, <1>2, <1>3, <1>7, <1>8, <1>9, MoveInv

\* The walk goes on to the next region, or buddy_init returns.
LEMMA NextRegionInv ==
  ASSUME BuddyInv, buddy_init_next
  PROVE  BuddyInv'
<1>1. /\ phase = "buddy_init" /\ RunEmpty /\ ~InRegion
      /\ UNCHANGED <<memmap, bitmap, counters, free_frames, next_hint, lent, claimed,
                     buddyVars, taken, budget>>
      /\ memmap' = memmap /\ claimed' = claimed
  BY DEF buddy_init_next
<1>2. entry \in 1 .. Len(memmap) /\ UsableEntries # {} /\ Len(memmap) \in Nat /\ entry \in Nat
  BY <1>1, MapFacts DEF BuddyInv, WalkInv, PmmUp, PmmInv
<1>3. UsableEntries' = UsableEntries
  BY <1>1 DEF UsableEntries
<1>4. CASE phase' = "up" /\ UNCHANGED <<entry, walk, run_start>>
  <2>1. PmmInv'
    BY <1>1, <1>4, StutterPmmInv DEF BuddyInv, PmmUp, Phases
  <2>2. UNCHANGED <<memmap, claimed, buddyVars, initVars>>
    BY <1>1, <1>4 DEF initVars
  <2> QED BY <1>2, <1>4, <2>1, <2>2, QuietStep
<1>5. CASE /\ entry < Len(memmap)
           /\ entry' = entry + 1
           /\ walk' = RegionFirst(entry + 1)
           /\ run_start' = RegionFirst(entry + 1)
           /\ UNCHANGED phase
  <2> DEFINE n == entry + 1
  <2>1. PmmInv'
    BY <1>1, <1>5, StutterPmmInv DEF BuddyInv, PmmUp, Phases
  <2>2. n \in 1 .. Len(memmap) /\ n \in Nat
    BY <1>2, <1>5
  <2>3. /\ memmap[n].base \in Nat /\ memmap[n].length \in Nat /\ memmap[n].usable \in BOOLEAN
        /\ n \in DOMAIN memmap
    BY <2>2, MapFacts DEF BuddyInv, PmmInv
  <2>4. walk' = memmap[n].base /\ run_start' = walk'
    BY <1>5 DEF RegionFirst
  <2>5. Run' = {}
    <3>1. Run' = walk' .. (walk' - 1)
      BY <2>4 DEF Run
    <3> QED BY <2>3, <2>4, <3>1
  <2>6. ASSUME NEW f \in claimed
        PROVE  \E i \in UsableEntries : f \in FramesOf(memmap[i]) /\ i <= entry /\ i # n
    <3>1. PICK i \in UsableEntries : f \in FramesOf(memmap[i]) /\ i <= entry
      BY <1>1 DEF BuddyInv, WalkInv
    <3>2. i \in Nat /\ i # n
      BY <1>2, <3>1, MapFacts DEF BuddyInv, PmmInv
    <3> QED BY <3>1, <3>2
  <2> HIDE DEF n
  <2>7. WalkInv'
    <3>1. entry' = n /\ RegionFirst(entry)' <= walk'
      BY <1>1, <1>5, <2>3, <2>4 DEF RegionFirst, n
    <3>2. ASSUME NEW f \in claimed
          PROVE  \E i \in UsableEntries : f \in FramesOf(memmap[i]) /\ i <= n /\ i # n
      <4>1. PICK i \in UsableEntries : f \in FramesOf(memmap[i]) /\ i <= entry /\ i # n
        BY <2>6
      <4>2. i \in Nat
        BY <4>1, MapFacts DEF BuddyInv, PmmInv
      <4>3. i <= n
        BY <1>2, <4>1, <4>2 DEF n
      <4> QED BY <4>1, <4>3
    <3> QED BY <1>1, <1>2, <1>3, <2>2, <2>5, <3>1, <3>2 DEF WalkInv
  <2>8. ASSUME RegionsApart, InRegion', NEW b \in seeded, b[1] + BlockFrames[b[2]] = walk'
        PROVE  FALSE
    <3>1. /\ walk' \in Nat \ {0} /\ walk' - 1 \in Frames(b) /\ Frames(b) \subseteq claimed
      BY <1>1, <2>8, SeedEnd
    <3>2. PICK i \in UsableEntries : walk' - 1 \in FramesOf(memmap[i]) /\ i # n
      BY <2>6, <3>1
    <3>3. memmap[i].base \in Nat /\ memmap[i].length \in Nat
      BY <3>2, MapFacts DEF BuddyInv, PmmInv
    <3>4. memmap[n].usable /\ memmap[n].length > 0
      <4>1. walk' < RegionEnd(n)
        BY <1>1, <1>5, <2>8 DEF InRegion, RegionEnd, n
      <4> QED BY <2>3, <2>4, <4>1 DEF RegionEnd
    <3>5. n \in UsableEntries
      BY <2>3, <3>4 DEF UsableEntries
    <3>6. walk' \in FramesOf(memmap[n])
      BY <2>3, <2>4, <3>4 DEF FramesOf
    <3>7. walk' \notin FramesOf(memmap[i])
      BY <3>2, <3>5, <3>6, MapFacts DEF BuddyInv, PmmInv
    <3>8. memmap[i].base + memmap[i].length = walk'
      BY <3>1, <3>2, <3>3, <3>7 DEF FramesOf
    <3> QED BY <2>4, <2>8, <3>2, <3>5, <3>8 DEF RegionsApart
  <2>9. walk' \in Nat /\ run_start' = walk' /\ UNCHANGED <<memmap, claimed, buddyVars, taken, budget>>
        /\ phase' = "buddy_init"
    BY <1>1, <1>5, <2>3, <2>4
  <2> QED BY <1>1, <2>1, <2>7, <2>8, <2>9, MoveInv
<1> QED BY <1>4, <1>5 DEF buddy_init_next

\* seed_run's choice: an order that fits, and no larger one does.
LEMMA SeedOrderFacts ==
  ASSUME BuddyInv, ~RunEmpty
  PROVE  /\ SeedOrder \in Orders /\ Aligned(run_start, SeedOrder)
         /\ run_start + BlockFrames[SeedOrder] <= walk
         /\ \A o \in Orders :
              Aligned(run_start, o) /\ run_start + BlockFrames[o] <= walk => o <= SeedOrder
<1> DEFINE T == {0} \cup {o \in Orders : Aligned(run_start, o) /\ run_start + BlockFrames[o] <= walk}
<1>1. run_start \in Nat /\ walk \in Nat /\ run_start + 1 <= walk
  BY DEF BuddyInv, BuddyTypeOK, RunEmpty
<1>2. BUDDY_MAX_ORDER \in Nat /\ T \in SUBSET Nat /\ T # {} /\ \A o \in T : o <= BUDDY_MAX_ORDER
  BY BuddyAssumption DEF Orders
<1>3. Max(T) \in T /\ \A o \in T : o <= Max(T)
  <2> HIDE DEF T
  <2> QED BY <1>2, MaxNat
<1>4. SeedOrder = Max(T)
  BY DEF SeedOrder
<1>5. 0 \in Orders /\ Aligned(run_start, 0) /\ run_start + BlockFrames[0] <= walk
  BY <1>1, BuddyAssumption DEF Orders, Aligned
<1> QED BY <1>3, <1>4, <1>5

\* A block is seeded: it moves from the run to a list.
LEMMA SeedStepInv ==
  ASSUME BuddyInv, buddy_init_seed
  PROVE  BuddyInv'
<1> DEFINE so == SeedOrder
           sz == BlockFrames[so]
           new == <<run_start, so>>
<1>1. /\ phase = "buddy_init" /\ phase' = phase /\ ~RunEmpty /\ ~(InRegion /\ Claimable(walk))
      /\ free_list' = [free_list EXCEPT ![so] = @ \cup {run_start}]
      /\ free_count' = [free_count EXCEPT ![so] = @ + 1]
      /\ seeded' = seeded \cup {new} /\ run_start' = run_start + sz
      /\ UNCHANGED <<pmmVars, allocated, entry, walk, taken, budget>>
      /\ memmap' = memmap /\ claimed' = claimed /\ allocated' = allocated /\ walk' = walk
      /\ entry' = entry /\ taken' = taken /\ budget' = budget
      /\ bitmap' = bitmap /\ total_frames' = total_frames
      /\ UNCHANGED <<memmap, bitmap, counters, free_frames, next_hint, lent, claimed>>
  BY DEF buddy_init_seed, pmmVars, counters
<1>2. /\ so \in Orders /\ Aligned(run_start, so) /\ run_start + sz <= walk
      /\ \A o \in Orders : Aligned(run_start, o) /\ run_start + BlockFrames[o] <= walk => o <= so
  BY <1>1, SeedOrderFacts
<1>3. sz \in Nat \ {0} /\ run_start \in Nat /\ walk \in Nat /\ so \in Nat
  BY <1>2, BlockSizes DEF BuddyInv, BuddyTypeOK
<1> HIDE DEF so, sz
<1>4. /\ Frames(new) = run_start .. (run_start + sz - 1) /\ run_start \in Frames(new)
      /\ Frames(new) \subseteq Run /\ Run' = Run \ Frames(new)
  <2>1. Frames(new) = run_start .. (run_start + sz - 1)
    BY DEF Frames, sz
  <2>2. Run = run_start .. (walk - 1) /\ Run' = (run_start + sz) .. (walk - 1)
    BY <1>1 DEF Run
  <2> HIDE DEF new
  <2> QED BY <1>2, <1>3, <2>1, <2>2
<1>5. FreeBlocks' = FreeBlocks \cup {new} /\ Blocks' = Blocks \cup {new}
  <2>0. free_list \in [Orders -> SUBSET Nat]
    BY DEF BuddyInv, BuddyTypeOK
  <2>1. FreeBlocks = ListBlocks(free_list) /\ FreeBlocks' = ListBlocks(free_list')
    BY DEF FreeBlocks, ListBlocks
  <2>2. ASSUME NEW b PROVE b \in ListBlocks(free_list') <=> b \in ListBlocks(free_list) \/ b = new
    <3>1. ASSUME b \in ListBlocks(free_list') PROVE b \in ListBlocks(free_list) \/ b = new
      <4>1. b = <<b[1], b[2]>> /\ b[2] \in Orders /\ b[1] \in free_list'[b[2]]
        BY <3>1, OnList
      <4>2. b[1] \in free_list[b[2]] \/ (b[2] = so /\ b[1] = run_start)
        BY <1>1, <2>0, <4>1
      <4> QED BY <4>1, <4>2, OnList
    <3>2. ASSUME b \in ListBlocks(free_list) PROVE b \in ListBlocks(free_list')
      <4>1. b = <<b[1], b[2]>> /\ b[2] \in Orders /\ b[1] \in free_list[b[2]]
        BY <3>2, OnList
      <4>2. b[1] \in free_list'[b[2]]
        BY <1>1, <2>0, <4>1
      <4> QED BY <4>1, <4>2, OnList
    <3>3. new \in ListBlocks(free_list')
      <4>1. run_start \in free_list'[so]
        BY <1>1, <1>2, <2>0
      <4> QED BY <1>2, <4>1, OnList
    <3> QED BY <3>1, <3>2, <3>3
  <2>3. FreeBlocks' = FreeBlocks \cup {new}
    BY <2>1, <2>2
  <2> QED BY <1>1, <2>3 DEF Blocks
<1>6. /\ FreeBlocks = seeded /\ allocated = {} /\ Blocks = seeded /\ Tiling(seeded)
      /\ Covered(seeded) \cap Run = {} /\ Covered(seeded) \cup Run = claimed
  BY <1>1 DEF BuddyInv, SeedInv, BlocksPartitionClaimed, Blocks
<1>7. Covered(seeded') = Covered(seeded) \cup Frames(new)
  BY <1>1 DEF Covered
<1>8. ASSUME NEW b \in seeded PROVE Frames(b) \cap Frames(new) = {} /\ b # new
  <2>1. Frames(b) \cap Frames(new) = {}
    BY <1>4, <1>6 DEF Covered
  <2> QED BY <1>4, <2>1
<1>9. PmmInv'
  BY <1>1, StutterPmmInv DEF BuddyInv, PmmUp, Phases
<1>10. new \in Block
  BY <1>2, <1>3 DEF Block
<1>11. Tiling(seeded')
  <2>1. seeded' \in SUBSET Block /\ \A b \in seeded' : Aligned(b[1], b[2])
    BY <1>1, <1>2, <1>6, <1>10 DEF Tiling
  <2>2. \A b, c \in seeded' : b # c => Frames(b) \cap Frames(c) = {}
    <3> HIDE DEF new
    <3> QED BY <1>1, <1>6, <1>8 DEF Tiling
  <2> QED BY <2>1, <2>2 DEF Tiling
<1>12. BuddyTypeOK'
  <2>1. free_list' \in [Orders -> SUBSET Nat] /\ free_count' \in [Orders -> Int]
    BY <1>1, <1>2, <1>3 DEF BuddyInv, BuddyTypeOK
  <2>2. run_start' \in 0 .. walk
    BY <1>1, <1>2, <1>3
  <2>3. seeded' \in SUBSET Block
    BY <1>11 DEF Tiling
  <2> QED BY <1>1, <1>9, <2>1, <2>2, <2>3 DEF BuddyInv, BuddyTypeOK, PmmInv
<1>13. FreeBlocks' = seeded' /\ Blocks' = seeded'
  BY <1>1, <1>5, <1>6
<1>14. BlocksPartitionClaimed'
  <2>1. Covered(Blocks') \cap Run' = {} /\ Covered(Blocks') \cup Run' = claimed'
    BY <1>1, <1>4, <1>6, <1>7, <1>13
  <2>2. FreeBlocks' \cap allocated' = {}
    BY <1>1, <1>6
  <2> QED BY <1>11, <1>13, <2>1, <2>2 DEF BlocksPartitionClaimed, Tiling
<1>15. IdleInv'
  BY <1>1 DEF IdleInv
<1>16. WalkInv'
  <2>1. UsableEntries' = UsableEntries /\ Run' \subseteq Run /\ RegionFirst(entry)' = RegionFirst(entry)
    BY <1>1, <1>4 DEF UsableEntries, RegionFirst
  <2> QED BY <1>1, <2>1 DEF BuddyInv, WalkInv, PmmUp
<1>17. SeedInv'
  BY <1>1, <1>6, <1>11, <1>13 DEF SeedInv
<1>18. CountInv'
  <2>1. run_start \notin free_list[so]
    <3>1. new \notin FreeBlocks
      BY <1>6, <1>8
    <3> QED BY <1>2, <3>1, OnList DEF FreeBlocks, ListBlocks
  <2>2. IsFiniteSet(free_list[so]) /\ free_count[so] = Cardinality(free_list[so])
    BY <1>2 DEF BuddyInv, CountInv
  <2>3. /\ IsFiniteSet(free_list[so] \cup {run_start})
        /\ Cardinality(free_list[so] \cup {run_start}) = Cardinality(free_list[so]) + 1
    BY <2>1, <2>2, FS_AddElement
  <2>4. ASSUME NEW o \in Orders
        PROVE  IsFiniteSet(free_list'[o]) /\ free_count'[o] = Cardinality(free_list'[o])
    <3>1. CASE o = so
      BY <1>1, <1>2, <2>2, <2>3, <3>1 DEF BuddyInv, BuddyTypeOK
    <3>2. CASE o # so
      BY <1>1, <1>2, <3>2 DEF BuddyInv, BuddyTypeOK, CountInv
    <3> QED BY <3>1, <3>2
  <2> QED BY <2>4 DEF CountInv
<1>19. RegionsApart' = RegionsApart
  BY <1>1 DEF RegionsApart, UsableEntries
<1>20. ASSUME RegionsApart, so # BUDDY_MAX_ORDER PROVE <<BuddyOf(run_start, so), so>> \notin seeded
  <2> DEFINE y == BuddyOf(run_start, so)
  <2>1. /\ y \in Nat /\ Aligned(y, so) /\ so + 1 \in Orders /\ BuddyOf(y, so) = run_start
        /\ Floor(y, so + 1) = Floor(run_start, so + 1)
        /\ Floor(run_start, so + 1) = IF y < run_start THEN y ELSE run_start
    BY <1>2, <1>3, <1>20, BuddyHalves
  <2>2. y = run_start + sz \/ y = run_start - sz
    BY DEF BuddyOf, sz
  <2> HIDE DEF y
  <2> SUFFICES ASSUME <<y, so>> \in seeded PROVE FALSE
    BY DEF y
  <2>3. CASE y = run_start - sz
    <3>1. <<y, so>>[1] + BlockFrames[<<y, so>>[2]] = run_start
      BY <1>3, <2>1, <2>3 DEF sz
    <3>2. Aligned(y, so + 1)
      <4>1. Floor(run_start, so + 1) = y
        BY <1>3, <2>1, <2>3
      <4>2. Aligned(Floor(run_start, so + 1), so + 1)
        BY <1>3, <2>1, FloorFacts
      <4> QED BY <4>1, <4>2
    <3>3. y + 2 * sz > walk
      BY <1>1, <1>20, <3>1, <3>2 DEF BuddyInv, MergedInv, GreedyInv, sz
    <3> QED BY <1>2, <1>3, <2>1, <2>3, <3>3
  <2>4. CASE y = run_start + sz
    <3>1. y \in Frames(<<y, so>>)
      BY <1>2, <2>1, FloorOfAligned
    <3>2. y \in claimed /\ y \notin Run
      BY <1>6, <3>1 DEF Covered
    <3>3. y = walk
      BY <1>2, <1>3, <2>4, <3>2 DEF Run
    <3>4. PICK i \in UsableEntries : walk \in FramesOf(memmap[i]) /\ (i = entry => walk < walk)
      BY <1>1, <3>2, <3>3 DEF BuddyInv, WalkInv
    <3>5. i # entry
      BY <1>3, <3>4
    <3>6. walk - 1 \in Run
      BY <1>2, <1>3 DEF Run
    <3>7. entry \in UsableEntries /\ walk - 1 \in FramesOf(memmap[entry])
      BY <1>1, <3>6 DEF BuddyInv, WalkInv
    <3>8. walk \notin FramesOf(memmap[entry]) /\ walk - 1 \notin FramesOf(memmap[i])
      BY <3>4, <3>5, <3>7, MapFacts DEF BuddyInv, PmmInv
    <3>9. /\ memmap[i].base \in Nat /\ memmap[i].length \in Nat
          /\ memmap[entry].base \in Nat /\ memmap[entry].length \in Nat
      BY <3>4, <3>7, MapFacts DEF BuddyInv, PmmInv
    <3>10. memmap[entry].base + memmap[entry].length = walk /\ memmap[i].base = walk
      BY <1>3, <3>4, <3>7, <3>8, <3>9 DEF FramesOf
    <3> QED BY <1>20, <3>4, <3>7, <3>10 DEF RegionsApart
  <2> QED BY <2>2, <2>3, <2>4
<1>21. ASSUME RegionsApart PROVE NoBuddies(seeded')
  <2> SUFFICES ASSUME NEW b \in seeded', b[2] # BUDDY_MAX_ORDER,
                      <<BuddyOf(b[1], b[2]), b[2]>> \in seeded'
               PROVE  FALSE
    BY DEF NoBuddies
  <2>1. b[1] \in Nat /\ b[2] \in Orders /\ b = <<b[1], b[2]>> /\ Aligned(b[1], b[2])
    BY <1>11 DEF Tiling, Block
  <2>2. /\ BuddyOf(BuddyOf(b[1], b[2]), b[2]) = b[1]
        /\ Frames(<<b[1], b[2]>>) \cap Frames(<<BuddyOf(b[1], b[2]), b[2]>>) = {}
    BY <2>1, BuddyHalves
  <2>3. b[1] \in Frames(b)
    BY <2>1, FloorOfAligned
  <2>4. CASE b = new
    <3>1. b[1] = run_start /\ b[2] = so
      BY <2>4
    <3>2. <<BuddyOf(run_start, so), so>> # new
      BY <2>1, <2>2, <2>3, <3>1
    <3> QED BY <1>1, <1>20, <1>21, <3>1, <3>2
  <2>5. CASE b # new
    <3>1. b \in seeded
      BY <1>1, <2>5
    <3>2. CASE <<BuddyOf(b[1], b[2]), b[2]>> = new
      <4>1. b[2] = so /\ BuddyOf(run_start, so) = b[1]
        BY <2>2, <3>2
      <4> QED BY <1>20, <1>21, <2>1, <3>1, <4>1
    <3>3. CASE <<BuddyOf(b[1], b[2]), b[2]>> \in seeded
      BY <1>21, <3>1, <3>3 DEF BuddyInv, MergedInv, NoBuddies
    <3> QED BY <1>1, <3>2, <3>3
  <2> QED BY <2>4, <2>5
<1>22. ASSUME RegionsApart PROVE GreedyInv'
  <2> SUFFICES ASSUME NEW b \in seeded', b[1] + BlockFrames[b[2]] = run_start'
               PROVE  /\ ~(InRegion /\ Claimable(walk))'
                      /\ b[2] # BUDDY_MAX_ORDER /\ Aligned(b[1], b[2] + 1) =>
                           b[1] + 2 * BlockFrames[b[2]] > walk'
    BY DEF GreedyInv
  <2>1. InRegion' = InRegion /\ Claimable(walk)' = Claimable(walk)
    BY <1>1 DEF InRegion, Claimable, RegionEnd
  <2>2. b = new
    <3> SUFFICES ASSUME b \in seeded PROVE FALSE
      BY <1>1
    <3>1. (run_start + sz) - 1 \in Frames(b)
      <4>1. (b[1] + BlockFrames[b[2]]) - 1 \in Frames(b)
        BY <1>1, SeedEnd
      <4>2. b[1] + BlockFrames[b[2]] = run_start + sz
        BY <1>1
      <4> QED BY <4>1, <4>2
    <3>2. (run_start + sz) - 1 \in Frames(new)
      BY <1>3, <1>4
    <3> QED BY <1>8, <3>1, <3>2
  <2>3. ASSUME so # BUDDY_MAX_ORDER, Aligned(run_start, so + 1), run_start + 2 * sz <= walk
        PROVE  FALSE
    <3>1. so + 1 \in Orders /\ BlockFrames[so + 1] = 2 * sz
      BY <1>2, <2>3, BuddyAssumption DEF Orders, sz
    <3>2. so + 1 <= so
      BY <1>2, <2>3, <3>1
    <3> QED BY <1>3, <3>2
  <2>4. so # BUDDY_MAX_ORDER /\ Aligned(run_start, so + 1) => run_start + 2 * sz > walk
    BY <1>3, <2>3
  <2> QED BY <1>1, <2>1, <2>2, <2>4 DEF sz
<1>23. MergedInv'
  BY <1>13, <1>19, <1>21, <1>22 DEF MergedInv
<1> QED BY <1>9, <1>12, <1>14, <1>15, <1>16, <1>17, <1>18, <1>23 DEF BuddyInv

-----------------------------------------------------------------------------
\* buddy_alloc and buddy_free

\* Blocks R are replaced by blocks N of the same frames.
LEMMA Replaced ==
  ASSUME NEW B, NEW R \in SUBSET B, NEW N, Tiling(B), Tiling(N), Covered(N) = Covered(R)
  PROVE  /\ Tiling((B \ R) \cup N) /\ Covered((B \ R) \cup N) = Covered(B)
         /\ (B \ R) \cap N = {}
<1>1. ASSUME NEW b \in B \ R, NEW n \in N PROVE Frames(b) \cap Frames(n) = {}
  <2> SUFFICES ASSUME NEW f, f \in Frames(b), f \in Frames(n) PROVE FALSE
    OBVIOUS
  <2>1. f \in Covered(R)
    BY DEF Covered
  <2>2. PICK r \in R : f \in Frames(r)
    BY <2>1 DEF Covered
  <2> QED BY <2>2 DEF Tiling
<1>2. ASSUME NEW n \in N PROVE n \notin B \ R
  <2>1. n[1] \in Nat /\ n[2] \in Orders /\ n = <<n[1], n[2]>> /\ Aligned(n[1], n[2])
    BY DEF Tiling, Block
  <2>2. n[1] \in Frames(n)
    BY <2>1, FloorOfAligned
  <2> QED BY <1>1, <2>2
<1>3. Tiling((B \ R) \cup N)
  BY <1>1 DEF Tiling
<1>4. Covered((B \ R) \cup N) = Covered(B)
  <2>1. Covered((B \ R) \cup N) = Covered(B \ R) \cup Covered(R)
    BY DEF Covered
  <2>2. Covered(B) = Covered(B \ R) \cup Covered(R)
    BY DEF Covered
  <2> QED BY <2>1, <2>2
<1> QED BY <1>2, <1>3, <1>4

\* What a step that moves blocks around has to show.
LEMMA UpStepInv ==
  ASSUME BuddyInv, phase = "up", UNCHANGED <<pmmVars, seeded, initVars>>,
         free_list' \in [Orders -> SUBSET Nat], free_count' \in [Orders -> Int],
         allocated' \in SUBSET Block,
         Tiling(Blocks'), Covered(Blocks') = Covered(Blocks), FreeBlocks' \cap allocated' = {},
         CountInv', RegionsApart => NoBuddies(FreeBlocks')
  PROVE  BuddyInv'
<1>1. /\ seeded' = seeded /\ entry' = entry /\ walk' = walk /\ run_start' = run_start
      /\ taken' = taken /\ budget' = budget
  BY DEF initVars
<1>2. /\ memmap' = memmap /\ phase' = phase /\ claimed' = claimed
      /\ UNCHANGED <<memmap, bitmap, counters, free_frames, next_hint, lent, claimed>>
  BY DEF pmmVars
<1>3. PmmInv'
  BY <1>2, StutterPmmInv DEF BuddyInv, PmmUp, Phases
<1>4. BuddyTypeOK'
  BY <1>1, <1>3 DEF BuddyInv, BuddyTypeOK, PmmInv
<1>5. UsableEntries' = UsableEntries /\ Run' = Run
  BY <1>1, <1>2 DEF UsableEntries, Run
<1>6. BlocksPartitionClaimed'
  BY <1>2, <1>5 DEF BuddyInv, BlocksPartitionClaimed, Tiling
<1>7. IdleInv' /\ WalkInv'
  BY <1>2, <1>5 DEF BuddyInv, IdleInv, WalkInv, PmmUp
<1>8. SeedInv'
  BY <1>1, <1>2 DEF BuddyInv, SeedInv
<1>9. MergedInv'
  <2>1. GreedyInv' /\ RegionsApart' = RegionsApart
    BY <1>2, <1>5 DEF GreedyInv, RegionsApart
  <2> QED BY <1>1, <2>1 DEF BuddyInv, MergedInv
<1> QED BY <1>3, <1>4, <1>6, <1>7, <1>8, <1>9 DEF BuddyInv

\* buddy_alloc(order) that took p off the list of order o.
Taken(order, p, o) ==
  /\ o \in Orders /\ order \in Orders /\ order <= o /\ p \in free_list[o]
  /\ free_list' = [k \in Orders |-> (free_list[k] \ (IF k = o THEN {p} ELSE {}))
                                       \cup UpperHalf(p, order, o, k)]
  /\ free_count' = [k \in Orders |-> free_count[k] - (IF k = o THEN 1 ELSE 0)
                                       + (IF order <= k /\ k < o THEN 1 ELSE 0)]
  /\ allocated' = allocated \cup {<<p, order>>}
  /\ UNCHANGED <<pmmVars, seeded, initVars>>

\* The search of buddy_alloc ends at an order that has a block.
LEMMA AllocTaken ==
  ASSUME NEW order \in Nat, NEW p, buddy_alloc(order, p)
  PROVE  \E o \in Orders : Taken(order, p, o)
<1> DEFINE o == Min(Candidates(order))
<1>1. Candidates(order) # {} /\ Candidates(order) \in SUBSET Nat
  BY BlockSizes DEF buddy_alloc, Candidates
<1>2. o \in Candidates(order)
  BY <1>1, MinNat
<1>3. o \in Orders /\ order <= o /\ order \in Orders
  BY <1>2, BuddyAssumption DEF Candidates, Orders
<1>4. Taken(order, p, o)
  BY <1>3 DEF buddy_alloc, Taken
<1> QED BY <1>3, <1>4

\* The upper halves that splitting p from order o down to `order` frees.
Halves(p, order, o) == {<<p + BlockFrames[j], j>> : j \in order .. o - 1}

\* The blocks after buddy_alloc: the one it took is replaced by its parts.
LEMMA TakenBlocks ==
  ASSUME BuddyInv, NEW order, NEW p, NEW o, Taken(order, p, o)
  PROVE  /\ p \in Nat /\ Aligned(p, o) /\ Aligned(p, order)
         /\ <<p, o>> \in FreeBlocks /\ <<p, o>> \notin allocated
         /\ FreeBlocks' = (FreeBlocks \ {<<p, o>>}) \cup Halves(p, order, o)
         /\ Blocks' = (Blocks \ {<<p, o>>}) \cup ({<<p, order>>} \cup Halves(p, order, o))
         /\ Tiling({<<p, order>>} \cup Halves(p, order, o))
         /\ <<p, order>> \notin Halves(p, order, o)
         /\ Covered({<<p, order>>} \cup Halves(p, order, o)) = Covered({<<p, o>>})
<1> DEFINE got == <<p, order>>
           half(j) == <<p + BlockFrames[j], j>>
           halves == {half(j) : j \in order .. o - 1}
<1>1. /\ o \in Orders /\ order \in Orders /\ order <= o /\ p \in free_list[o]
      /\ allocated' = allocated \cup {got}
  BY DEF Taken
<1>2. free_list \in [Orders -> SUBSET Nat]
  BY DEF BuddyInv, BuddyTypeOK
<1>3. p \in Nat /\ order \in Nat /\ o \in Nat
  BY <1>1, <1>2, BlockSizes
<1>4. <<p, o>> \in FreeBlocks
  BY <1>1, OnList, BlocksTile
<1>5. <<p, o>> \in Blocks /\ <<p, o>> \notin allocated /\ Aligned(p, o)
  BY <1>4, BlocksTile DEF Blocks, BuddyInv, BlocksPartitionClaimed
<1>6. Aligned(p, order)
  <2>1. Floor(p, o) = p
    BY <1>1, <1>3, <1>5, FloorOfAligned
  <2> QED BY <1>1, <1>3, <2>1, FloorNests
<1>7. ASSUME NEW j \in order .. o - 1
      PROVE  /\ j \in Orders /\ j < o /\ order <= j /\ p + BlockFrames[j] \in Nat
             /\ Aligned(p + BlockFrames[j], j)
  <2>1. j \in Orders /\ j < o /\ order <= j
    BY <1>1, <1>3, BuddyAssumption DEF Orders
  <2> QED BY <1>1, <1>3, <1>5, <2>1, SplitStep
<1>8. FreeBlocks' = (FreeBlocks \ {<<p, o>>}) \cup halves
  <2>1. FreeBlocks = ListBlocks(free_list) /\ FreeBlocks' = ListBlocks(free_list')
    BY DEF FreeBlocks, ListBlocks
  <2>2. \A k \in Orders : \A x : x \in free_list'[k] <=>
                    \/ x \in free_list[k] /\ ~(k = o /\ x = p)
                    \/ k \in order .. o - 1 /\ x = p + BlockFrames[k]
    BY <1>1, <1>3, BlockSizes DEF Taken, UpperHalf
  <2>3. ASSUME NEW b \in ListBlocks(free_list')
        PROVE  b \in (ListBlocks(free_list) \ {<<p, o>>}) \cup halves
    <3>1. b = <<b[1], b[2]>> /\ b[2] \in Orders /\ b[1] \in free_list'[b[2]]
      BY OnList
    <3>2. CASE b[1] \in free_list[b[2]] /\ ~(b[2] = o /\ b[1] = p)
      <4>1. b \in ListBlocks(free_list)
        BY <3>1, <3>2, OnList
      <4>2. b # <<p, o>>
        BY <3>2
      <4> QED BY <4>1, <4>2
    <3>3. CASE b[2] \in order .. o - 1 /\ b[1] = p + BlockFrames[b[2]]
      BY <3>1, <3>3
    <3> QED BY <2>2, <3>1, <3>2, <3>3
  <2>4. ASSUME NEW b \in ListBlocks(free_list), b # <<p, o>> PROVE b \in ListBlocks(free_list')
    <3>1. b = <<b[1], b[2]>> /\ b[2] \in Orders /\ b[1] \in free_list[b[2]]
      BY OnList
    <3>2. b[1] \in free_list'[b[2]]
      BY <2>2, <2>4, <3>1
    <3> QED BY <3>1, <3>2, OnList
  <2>5. ASSUME NEW j \in order .. o - 1 PROVE half(j) \in ListBlocks(free_list')
    <3>1. j \in Orders /\ p + BlockFrames[j] \in free_list'[j]
      BY <1>7, <2>2
    <3> QED BY <3>1, OnList
  <2> QED BY <2>1, <2>3, <2>4, <2>5
<1>9. Blocks' = (Blocks \ {<<p, o>>}) \cup ({got} \cup halves)
  <2> HIDE DEF got, halves
  <2> QED BY <1>1, <1>5, <1>8 DEF Blocks
<1>10. /\ \A f : f \in Frames(<<p, o>>) <=> f \in Frames(got) \/ \E j \in order .. o - 1 : f \in Frames(half(j))
       /\ \A j \in order .. o - 1 : Frames(got) \cap Frames(half(j)) = {}
       /\ \A i, j \in order .. o - 1 : i # j => Frames(half(i)) \cap Frames(half(j)) = {}
  BY <1>1, <1>3, <1>5, SplitCover
<1>11. Tiling({got} \cup halves)
  <2>1. {got} \cup halves \in SUBSET Block /\ \A b \in {got} \cup halves : Aligned(b[1], b[2])
    BY <1>1, <1>3, <1>6, <1>7 DEF Block
  <2>2. \A b, c \in {got} \cup halves : b # c => Frames(b) \cap Frames(c) = {}
    <3> HIDE DEF got, half
    <3> QED BY <1>10
  <2> QED BY <2>1, <2>2 DEF Tiling
<1>12. Covered({got} \cup halves) = Covered({<<p, o>>})
  <2> HIDE DEF got, half
  <2>1. Covered({<<p, o>>}) = Frames(<<p, o>>)
    BY DEF Covered
  <2>2. \A f : f \in Covered({got} \cup halves) <=> f \in Frames(got) \/ \E j \in order .. o - 1 : f \in Frames(half(j))
    BY DEF Covered
  <2>3. \A f : f \in Frames(<<p, o>>) <=> f \in Frames(got) \/ \E j \in order .. o - 1 : f \in Frames(half(j))
    BY <1>10
  <2> DEFINE C == Covered({got} \cup halves)
             FO == Frames(<<p, o>>)
             In(f) == f \in Frames(got) \/ \E j \in order .. o - 1 : f \in Frames(half(j))
  <2>4. (\A f : f \in C <=> In(f)) /\ (\A f : f \in FO <=> In(f))
    BY <2>2, <2>3
  <2> HIDE DEF C, FO, In
  <2>5. C = FO
    BY <2>4
  <2> USE DEF C, FO
  <2> HIDE DEF halves
  <2> QED BY <2>1, <2>5
<1>13. got \notin halves
  <2>1. p \in Frames(got)
    BY <1>1, <1>3, <1>6, FloorOfAligned
  <2> HIDE DEF got, half
  <2> QED BY <1>10, <2>1
<1>14. halves = Halves(p, order, o)
  BY DEF Halves
<1> HIDE DEF halves
<1> QED BY <1>3, <1>4, <1>5, <1>6, <1>8, <1>9, <1>11, <1>12, <1>13, <1>14

\* buddy_alloc keeps the invariant.
LEMMA AllocInv ==
  ASSUME BuddyInv, phase = "up", NEW order, NEW p, NEW o, Taken(order, p, o)
  PROVE  BuddyInv' /\ Covered(Blocks') = Covered(Blocks)
<1>0. /\ p \in Nat /\ Aligned(p, o) /\ Aligned(p, order)
      /\ <<p, o>> \in FreeBlocks /\ <<p, o>> \notin allocated
      /\ FreeBlocks' = (FreeBlocks \ {<<p, o>>}) \cup Halves(p, order, o)
      /\ Blocks' = (Blocks \ {<<p, o>>}) \cup ({<<p, order>>} \cup Halves(p, order, o))
      /\ Tiling({<<p, order>>} \cup Halves(p, order, o))
      /\ <<p, order>> \notin Halves(p, order, o)
      /\ Covered({<<p, order>>} \cup Halves(p, order, o)) = Covered({<<p, o>>})
  <2> HIDE DEF Taken
  <2> QED BY TakenBlocks, Zenon
<1> DEFINE got == <<p, order>>
           old == <<p, o>>
           halves == Halves(p, order, o)
           new == {got} \cup halves
<1>1. /\ o \in Orders /\ order \in Orders /\ order <= o /\ p \in free_list[o]
      /\ allocated' = allocated \cup {got} /\ UNCHANGED <<pmmVars, seeded, initVars>>
  BY DEF Taken
<1>2. /\ p \in Nat /\ Aligned(p, o) /\ Aligned(p, order)
      /\ old \in FreeBlocks /\ old \notin allocated
      /\ FreeBlocks' = (FreeBlocks \ {old}) \cup halves
      /\ Blocks' = (Blocks \ {old}) \cup new
      /\ Tiling(new) /\ got \notin halves /\ Covered(new) = Covered({old})
  BY <1>0
<1>3. order \in Nat /\ o \in Nat /\ \A k \in Orders : k \in Nat /\ BlockFrames[k] \in Nat
  BY <1>1, BlockSizes
<1>4. ASSUME NEW j \in order .. o - 1
      PROVE  j \in Orders /\ j < o /\ p + BlockFrames[j] \in Nat /\ BuddyOf(p + BlockFrames[j], j) = p
  <2>1. j \in Orders /\ j < o
    BY <1>1, <1>3, BuddyAssumption DEF Orders
  <2> QED BY <1>1, <1>2, <2>1, SplitStep
<1>5. Tiling(Blocks) /\ old \in Blocks /\ FreeBlocks \subseteq Blocks /\ allocated \subseteq Blocks
  BY <1>2, BlocksTile DEF Blocks
<1>6. /\ Tiling(Blocks') /\ Covered(Blocks') = Covered(Blocks) /\ (Blocks \ {old}) \cap new = {}
  <2>1. {old} \in SUBSET Blocks
    BY <1>5
  <2> HIDE DEF old, new
  <2> QED BY <1>2, <1>5, <2>1, Replaced
<1>7. FreeBlocks' \cap allocated' = {}
  <2>1. FreeBlocks \cap allocated = {}
    BY DEF BuddyInv, BlocksPartitionClaimed
  <2> HIDE DEF old, got, halves
  <2> QED BY <1>1, <1>2, <1>5, <1>6, <2>1
<1>8. /\ free_list' \in [Orders -> SUBSET Nat] /\ free_count' \in [Orders -> Int]
      /\ allocated' \in SUBSET Block
  <2>1. ASSUME NEW k \in Orders PROVE UpperHalf(p, order, o, k) \in SUBSET Nat
    BY <1>2, <1>3 DEF UpperHalf
  <2>2. free_list' \in [Orders -> SUBSET Nat]
    BY <2>1 DEF Taken, BuddyInv, BuddyTypeOK
  <2>3. free_count' \in [Orders -> Int]
    BY DEF Taken, BuddyInv, BuddyTypeOK
  <2> QED BY <1>1, <1>2, <2>2, <2>3 DEF BuddyInv, BuddyTypeOK, Block
<1>9. CountInv'
  <2> SUFFICES ASSUME NEW k \in Orders
               PROVE  IsFiniteSet(free_list'[k]) /\ free_count'[k] = Cardinality(free_list'[k])
    BY DEF CountInv
  <2>1. /\ IsFiniteSet(free_list[k]) /\ free_count[k] = Cardinality(free_list[k])
        /\ Cardinality(free_list[k]) \in Nat
    BY FS_CardinalityType DEF BuddyInv, CountInv
  <2>2. CASE k = o
    <3>1. free_list'[k] = free_list[k] \ {p} /\ free_count'[k] = free_count[k] - 1
      BY <1>1, <1>3, <2>1, <2>2 DEF Taken, UpperHalf
    <3> QED BY <1>1, <2>1, <2>2, <3>1, FS_RemoveElement
  <2>3. CASE order <= k /\ k < o
    <3>1. /\ free_list'[k] = free_list[k] \cup {p + BlockFrames[k]}
          /\ free_count'[k] = free_count[k] + 1
      BY <1>1, <1>3, <2>1, <2>3 DEF Taken, UpperHalf
    <3>2. p + BlockFrames[k] \notin free_list[k]
      <4>1. k \in order .. o - 1 /\ k # o
        BY <1>3, <2>3
      <4>2. <<p + BlockFrames[k], k>> \in new /\ <<p + BlockFrames[k], k>> # old
        BY <4>1 DEF Halves
      <4>3. <<p + BlockFrames[k], k>> \notin FreeBlocks
        BY <1>5, <1>6, <4>2
      <4> QED BY <4>3, BlocksTile, OnList
    <3> QED BY <2>1, <3>1, <3>2, FS_AddElement
  <2>4. CASE k # o /\ ~(order <= k /\ k < o)
    <3>1. free_list'[k] = free_list[k] /\ free_count'[k] = free_count[k]
      BY <1>1, <1>3, <2>1, <2>4 DEF Taken, UpperHalf
    <3> QED BY <2>1, <3>1
  <2> QED BY <1>3, <2>2, <2>3, <2>4
<1>10. ASSUME RegionsApart PROVE NoBuddies(FreeBlocks')
  <2> SUFFICES ASSUME NEW b \in FreeBlocks', b[2] # BUDDY_MAX_ORDER,
                      <<BuddyOf(b[1], b[2]), b[2]>> \in FreeBlocks'
               PROVE  FALSE
    BY DEF NoBuddies
  <2>0. FreeBlocks' \subseteq Blocks' /\ got \in Blocks' /\ got \notin FreeBlocks'
    BY <1>1, <1>7 DEF Blocks
  <2>1. b[1] \in Nat /\ b[2] \in Orders /\ b = <<b[1], b[2]>> /\ Aligned(b[1], b[2])
    BY <1>6, <2>0 DEF Tiling, Block
  <2>2. BuddyOf(BuddyOf(b[1], b[2]), b[2]) = b[1]
    BY <2>1, BuddyHalves
  <2>3. \A k \in Orders : <<p, k>> \notin FreeBlocks'
    <3> SUFFICES ASSUME NEW k \in Orders, <<p, k>> \in FreeBlocks' PROVE FALSE
      OBVIOUS
    <3>1. p \in Frames(<<p, k>>) /\ p \in Frames(got)
      BY <1>1, <1>2, <1>3, BlockSizes DEF Frames
    <3> QED BY <1>6, <2>0, <3>1 DEF Tiling
  <2>4. CASE b \in halves
    <3>1. PICK j \in order .. o - 1 : b = <<p + BlockFrames[j], j>>
      BY <2>4 DEF Halves
    <3>2. BuddyOf(b[1], b[2]) = p
      BY <1>4, <3>1
    <3> QED BY <2>1, <2>3, <3>2
  <2>5. CASE <<BuddyOf(b[1], b[2]), b[2]>> \in halves
    <3>1. PICK j \in order .. o - 1 : <<BuddyOf(b[1], b[2]), b[2]>> = <<p + BlockFrames[j], j>>
      BY <2>5 DEF Halves
    <3>2. b[1] = p
      BY <1>4, <2>2, <3>1
    <3> QED BY <2>1, <2>3, <3>2
  <2>6. CASE b \in FreeBlocks /\ <<BuddyOf(b[1], b[2]), b[2]>> \in FreeBlocks
    BY <1>10, <2>6 DEF BuddyInv, MergedInv, NoBuddies
  <2> QED BY <1>2, <2>4, <2>5, <2>6
<1> QED BY <1>1, <1>6, <1>7, <1>8, <1>9, <1>10, UpStepInv

\* buddy_free(p, order) that merged up to order stop.
Merged(p, order, stop) ==
  /\ <<p, order>> \in allocated /\ stop \in Orders /\ order <= stop
  /\ \A k \in order .. stop - 1 : MergeBuddy(p, order, k) \in free_list[k]
  /\ stop = BUDDY_MAX_ORDER \/ MergeBuddy(p, order, stop) \notin free_list[stop]
  /\ free_list' = [k \in Orders |->
                     (free_list[k] \ (IF order <= k /\ k < stop
                                      THEN {MergeBuddy(p, order, k)} ELSE {}))
                       \cup (IF k = stop THEN {MergedBase(p, order, k)} ELSE {})]
  /\ free_count' = [k \in Orders |-> free_count[k] - (IF order <= k /\ k < stop THEN 1 ELSE 0)
                                       + (IF k = stop THEN 1 ELSE 0)]
  /\ allocated' = allocated \ {<<p, order>>}
  /\ UNCHANGED <<pmmVars, seeded, initVars>>

\* The loop of buddy_free ends, and has found every buddy below where it ends.
LEMMA FreeMerged ==
  ASSUME BuddyInv, NEW p, NEW order, buddy_free(p, order)
  PROVE  \E stop \in Orders : Merged(p, order, stop)
<1> DEFINE Open(k) == MergeBuddy(p, order, k) \in free_list[k]
           S == {k \in order .. BUDDY_MAX_ORDER : k = BUDDY_MAX_ORDER \/ ~Open(k)}
           stop == Min(S)
<1> HIDE DEF Open
<1>1. <<p, order>> \in allocated /\ order \in Orders /\ order \in Nat
  BY BlockSizes DEF buddy_free, BuddyInv, BuddyTypeOK, Block
<1>2. BUDDY_MAX_ORDER \in S /\ S \in SUBSET Nat
  BY <1>1, BuddyAssumption DEF Orders
<1>3. stop \in S /\ \A k \in S : stop <= k
  <2> HIDE DEF S
  <2> QED BY <1>2, MinNat
<1>4. stop \in Orders /\ stop \in Nat /\ order <= stop
  BY <1>1, <1>2, <1>3, BuddyAssumption DEF Orders
<1>5. ASSUME NEW k \in order .. stop - 1 PROVE Open(k)
  <2>1. k \in order .. BUDDY_MAX_ORDER /\ k < stop /\ k \in Nat
    BY <1>1, <1>4, BuddyAssumption DEF Orders
  <2>2. k \notin S
    <3> HIDE DEF S, stop
    <3> QED BY <1>3, <1>4, <2>1
  <2> QED BY <2>1, <2>2
<1>6. stop = BUDDY_MAX_ORDER \/ ~Open(stop)
  BY <1>3
<1>7. StopOrder(p, order) = stop
  BY DEF StopOrder, Open
<1>8. Merged(p, order, stop)
  <2> HIDE DEF S, stop
  <2> QED BY <1>1, <1>4, <1>5, <1>6, <1>7 DEF buddy_free, Merged, Open
<1> QED BY <1>4, <1>8

\* The buddies that freeing p merges with on its way from `order` up to stop.
Buddies(p, order, stop) == {<<MergeBuddy(p, order, j), j>> : j \in order .. stop - 1}

\* The blocks after buddy_free: the one given back and the buddies are one block.
LEMMA MergedBlocks ==
  ASSUME BuddyInv, NEW order, NEW p, NEW stop, Merged(p, order, stop)
  PROVE  /\ p \in Nat /\ order \in Orders /\ Aligned(p, order)
         /\ Floor(p, stop) \in Nat /\ Aligned(Floor(p, stop), stop)
         /\ <<p, order>> \notin FreeBlocks /\ Buddies(p, order, stop) \in SUBSET FreeBlocks
         /\ FreeBlocks' = (FreeBlocks \ Buddies(p, order, stop)) \cup {<<Floor(p, stop), stop>>}
         /\ Blocks' = (Blocks \ ({<<p, order>>} \cup Buddies(p, order, stop)))
                        \cup {<<Floor(p, stop), stop>>}
         /\ Tiling({<<Floor(p, stop), stop>>})
         /\ Covered({<<Floor(p, stop), stop>>}) = Covered({<<p, order>>} \cup Buddies(p, order, stop))
<1> DEFINE given == <<p, order>>
           m == <<Floor(p, stop), stop>>
           bud(j) == <<MergeBuddy(p, order, j), j>>
           buds == {bud(j) : j \in order .. stop - 1}
<1>1. /\ given \in allocated /\ stop \in Orders /\ order <= stop
      /\ \A k \in order .. stop - 1 : MergeBuddy(p, order, k) \in free_list[k]
      /\ allocated' = allocated \ {given}
  BY DEF Merged
<1>2. p \in Nat /\ order \in Orders /\ Aligned(p, order) /\ given \in Blocks
  BY <1>1, BlocksTile DEF Blocks
<1>3. order \in Nat /\ stop \in Nat
  BY <1>1, <1>2, BlockSizes
<1>4. Floor(p, stop) \in Nat /\ Aligned(Floor(p, stop), stop)
  BY <1>1, <1>2, FloorFacts
<1>5. FreeBlocks \cap allocated = {}
  BY DEF BuddyInv, BlocksPartitionClaimed
<1>6. \A j \in order .. stop - 1 : j \in Orders
  BY <1>1, <1>2, <1>3, BuddyAssumption DEF Orders
<1>7. FreeBlocks = ListBlocks(free_list) /\ FreeBlocks' = ListBlocks(free_list')
  BY DEF FreeBlocks, ListBlocks
<1>8. buds \in SUBSET FreeBlocks
  <2> SUFFICES ASSUME NEW j \in order .. stop - 1 PROVE bud(j) \in FreeBlocks
    OBVIOUS
  <2> QED BY <1>1, <1>6, <1>7, OnList
<1>9. MergedBase(p, order, stop) = Floor(p, stop)
  BY <1>1, <1>2, MergeStep
<1>10. FreeBlocks' = (FreeBlocks \ buds) \cup {m}
  <2>2. \A k \in Orders : \A x : x \in free_list'[k] <=>
                    \/ x \in free_list[k] /\ ~(k \in order .. stop - 1 /\ x = MergeBuddy(p, order, k))
                    \/ k = stop /\ x = Floor(p, stop)
    <3> SUFFICES ASSUME NEW k \in Orders
                 PROVE  \A x : x \in free_list'[k] <=>
                    \/ x \in free_list[k] /\ ~(k \in order .. stop - 1 /\ x = MergeBuddy(p, order, k))
                    \/ k = stop /\ x = Floor(p, stop)
      OBVIOUS
    <3>1. k \in order .. stop - 1 <=> order <= k /\ k < stop
      BY <1>3, BlockSizes
    <3>2. free_list'[k] = (free_list[k] \ (IF order <= k /\ k < stop
                                           THEN {MergeBuddy(p, order, k)} ELSE {}))
                            \cup (IF k = stop THEN {MergedBase(p, order, k)} ELSE {})
      BY DEF Merged
    <3> QED BY <1>9, <3>1, <3>2
  <2>3. ASSUME NEW b \in ListBlocks(free_list') PROVE b \in (FreeBlocks \ buds) \cup {m}
    <3>1. b = <<b[1], b[2]>> /\ b[2] \in Orders /\ b[1] \in free_list'[b[2]]
      BY OnList
    <3>2. CASE /\ b[1] \in free_list[b[2]]
               /\ ~(b[2] \in order .. stop - 1 /\ b[1] = MergeBuddy(p, order, b[2]))
      <4>1. b \in FreeBlocks
        BY <1>7, <3>1, <3>2, OnList
      <4>2. b \notin buds
        BY <3>2
      <4> QED BY <4>1, <4>2
    <3>3. CASE b[2] = stop /\ b[1] = Floor(p, stop)
      BY <3>1, <3>3
    <3> QED BY <2>2, <3>1, <3>2, <3>3
  <2>4. ASSUME NEW b \in FreeBlocks, b \notin buds PROVE b \in ListBlocks(free_list')
    <3>1. b = <<b[1], b[2]>> /\ b[2] \in Orders /\ b[1] \in free_list[b[2]]
      BY <1>7, OnList
    <3>2. ~(b[2] \in order .. stop - 1 /\ b[1] = MergeBuddy(p, order, b[2]))
      BY <2>4, <3>1
    <3>3. b[1] \in free_list'[b[2]]
      BY <2>2, <3>1, <3>2
    <3> QED BY <3>1, <3>3, OnList
  <2>5. m \in ListBlocks(free_list')
    <3>1. Floor(p, stop) \in free_list'[stop]
      BY <1>1, <2>2
    <3> QED BY <1>1, <3>1, OnList
  <2> HIDE DEF m, buds
  <2> QED BY <1>7, <2>3, <2>4, <2>5
<1>11. Blocks' = (Blocks \ ({given} \cup buds)) \cup {m}
  <2> HIDE DEF m, buds, given
  <2> QED BY <1>1, <1>5, <1>8, <1>10 DEF Blocks
<1>12. Tiling({m})
  BY <1>1, <1>4 DEF Tiling, Block
<1>13. Covered({m}) = Covered({given} \cup buds)
  <2>1. \A f : f \in Frames(m) <=> f \in Frames(given) \/ \E j \in order .. stop - 1 : f \in Frames(bud(j))
    BY <1>1, <1>2, MergeCover
  <2> HIDE DEF given, bud, m
  <2>2. Covered({m}) = Frames(m)
    BY DEF Covered
  <2>3. \A f : f \in Covered({given} \cup buds)
                 <=> f \in Frames(given) \/ \E j \in order .. stop - 1 : f \in Frames(bud(j))
    BY DEF Covered
  <2> DEFINE C == Covered({given} \cup buds)
             In(f) == f \in Frames(given) \/ \E j \in order .. stop - 1 : f \in Frames(bud(j))
  <2>4. (\A f : f \in C <=> In(f)) /\ (\A f : f \in Frames(m) <=> In(f))
    BY <2>1, <2>3
  <2> HIDE DEF C, In
  <2>5. C = Frames(m)
    BY <2>4
  <2> USE DEF C
  <2> HIDE DEF buds
  <2> QED BY <2>2, <2>5
<1>14. buds = Buddies(p, order, stop)
  BY DEF Buddies
<1>15. given \notin FreeBlocks
  BY <1>1, <1>5
<1> HIDE DEF buds
<1> QED BY <1>2, <1>4, <1>8, <1>10, <1>11, <1>12, <1>13, <1>14, <1>15

\* buddy_free keeps the invariant.
LEMMA FreeInv ==
  ASSUME BuddyInv, phase = "up", NEW order, NEW p, NEW stop, Merged(p, order, stop)
  PROVE  BuddyInv' /\ Covered(Blocks') = Covered(Blocks)
<1>0. /\ p \in Nat /\ order \in Orders /\ Aligned(p, order)
      /\ Floor(p, stop) \in Nat /\ Aligned(Floor(p, stop), stop)
      /\ <<p, order>> \notin FreeBlocks /\ Buddies(p, order, stop) \in SUBSET FreeBlocks
      /\ FreeBlocks' = (FreeBlocks \ Buddies(p, order, stop)) \cup {<<Floor(p, stop), stop>>}
      /\ Blocks' = (Blocks \ ({<<p, order>>} \cup Buddies(p, order, stop)))
                     \cup {<<Floor(p, stop), stop>>}
      /\ Tiling({<<Floor(p, stop), stop>>})
      /\ Covered({<<Floor(p, stop), stop>>}) = Covered({<<p, order>>} \cup Buddies(p, order, stop))
  <2> HIDE DEF Merged
  <2> QED BY MergedBlocks, Zenon
<1> DEFINE given == <<p, order>>
           m == <<Floor(p, stop), stop>>
           buds == Buddies(p, order, stop)
           gone == {given} \cup buds
<1>1. /\ given \in allocated /\ stop \in Orders /\ order <= stop
      /\ allocated' = allocated \ {given} /\ UNCHANGED <<pmmVars, seeded, initVars>>
      /\ \A k \in order .. stop - 1 : MergeBuddy(p, order, k) \in free_list[k]
      /\ stop = BUDDY_MAX_ORDER \/ MergeBuddy(p, order, stop) \notin free_list[stop]
  BY DEF Merged
<1>2. order \in Nat /\ stop \in Nat /\ \A k \in Orders : k \in Nat /\ BlockFrames[k] \in Nat
  BY <1>0, <1>1, BlockSizes
<1>3. /\ MergedBase(p, order, stop) = Floor(p, stop)
      /\ MergeBuddy(p, order, stop) = BuddyOf(Floor(p, stop), stop)
  BY <1>0, <1>1, MergeStep
<1>4. /\ Tiling(Blocks) /\ given \in Blocks /\ FreeBlocks \subseteq Blocks
      /\ allocated \subseteq Blocks /\ FreeBlocks \cap allocated = {}
  BY <1>1, BlocksTile DEF Blocks, BuddyInv, BlocksPartitionClaimed
<1>5. /\ Tiling(Blocks') /\ Covered(Blocks') = Covered(Blocks) /\ (Blocks \ gone) \cap {m} = {}
  <2>1. gone \in SUBSET Blocks /\ Tiling({m}) /\ Covered({m}) = Covered(gone)
        /\ Blocks' = (Blocks \ gone) \cup {m}
    BY <1>0, <1>4
  <2> HIDE DEF gone, m
  <2> QED BY <1>4, <2>1, Replaced
<1>6. FreeBlocks' \cap allocated' = {}
  <2>1. FreeBlocks' = (FreeBlocks \ buds) \cup {m} /\ buds \subseteq FreeBlocks
    BY <1>0
  <2> HIDE DEF m, given, buds
  <2> QED BY <1>1, <1>4, <1>5, <2>1
<1>7. /\ free_list' \in [Orders -> SUBSET Nat] /\ free_count' \in [Orders -> Int]
      /\ allocated' \in SUBSET Block
  <2>1. ASSUME NEW k \in Orders
        PROVE  (IF k = stop THEN {MergedBase(p, order, k)} ELSE {}) \in SUBSET Nat
    BY <1>0, <1>3
  <2>2. free_list' \in [Orders -> SUBSET Nat]
    BY <2>1 DEF Merged, BuddyInv, BuddyTypeOK
  <2>3. free_count' \in [Orders -> Int]
    BY DEF Merged, BuddyInv, BuddyTypeOK
  <2> QED BY <1>1, <2>2, <2>3 DEF BuddyInv, BuddyTypeOK
<1>8. CountInv'
  <2> SUFFICES ASSUME NEW k \in Orders
               PROVE  IsFiniteSet(free_list'[k]) /\ free_count'[k] = Cardinality(free_list'[k])
    BY DEF CountInv
  <2>1. /\ IsFiniteSet(free_list[k]) /\ free_count[k] = Cardinality(free_list[k])
        /\ Cardinality(free_list[k]) \in Nat
    BY FS_CardinalityType DEF BuddyInv, CountInv
  <2>2. CASE k = stop
    <3>1. free_list'[k] = free_list[k] \cup {Floor(p, stop)} /\ free_count'[k] = free_count[k] + 1
      BY <1>1, <1>2, <1>3, <2>1, <2>2 DEF Merged
    <3>2. Floor(p, stop) \notin free_list[k]
      <4> SUFFICES ASSUME Floor(p, stop) \in free_list[k] PROVE FALSE
        OBVIOUS
      <4>1. m \in FreeBlocks
        BY <2>2, BlocksTile, OnList
      <4>2. m \in gone /\ m # given
        BY <1>1, <1>4, <1>5, <4>1
      <4>3. PICK j \in order .. stop - 1 : m = <<MergeBuddy(p, order, j), j>>
        BY <4>2 DEF Buddies
      <4> QED BY <1>2, <4>3
    <3> QED BY <2>1, <3>1, <3>2, FS_AddElement
  <2>3. CASE order <= k /\ k < stop
    <3>1. /\ free_list'[k] = free_list[k] \ {MergeBuddy(p, order, k)}
          /\ free_count'[k] = free_count[k] - 1
      BY <1>1, <1>2, <2>1, <2>3 DEF Merged
    <3>2. MergeBuddy(p, order, k) \in free_list[k]
      BY <1>1, <1>2, <2>3
    <3> QED BY <2>1, <3>1, <3>2, FS_RemoveElement
  <2>4. CASE k # stop /\ ~(order <= k /\ k < stop)
    <3>1. free_list'[k] = free_list[k] /\ free_count'[k] = free_count[k]
      BY <1>1, <1>2, <2>1, <2>4 DEF Merged
    <3> QED BY <2>1, <3>1
  <2> QED BY <1>2, <2>2, <2>3, <2>4
<1>9. ASSUME RegionsApart PROVE NoBuddies(FreeBlocks')
  <2> SUFFICES ASSUME NEW b \in FreeBlocks', b[2] # BUDDY_MAX_ORDER,
                      <<BuddyOf(b[1], b[2]), b[2]>> \in FreeBlocks'
               PROVE  FALSE
    BY DEF NoBuddies
  <2> DEFINE c == <<BuddyOf(b[1], b[2]), b[2]>>
  <2>1. b[1] \in Nat /\ b[2] \in Orders /\ b = <<b[1], b[2]>> /\ Aligned(b[1], b[2])
    BY <1>5 DEF Tiling, Block, Blocks
  <2>2. BuddyOf(BuddyOf(b[1], b[2]), b[2]) = b[1] /\ BuddyOf(b[1], b[2]) # b[1]
    <3>1. BlockFrames[b[2]] \in Nat \ {0}
      BY <2>1, BlockSizes
    <3>2. BuddyOf(b[1], b[2]) # b[1]
      BY <2>1, <3>1 DEF BuddyOf
    <3> QED BY <2>1, <3>2, BuddyHalves
  <2>3. stop # BUDDY_MAX_ORDER => <<BuddyOf(Floor(p, stop), stop), stop>> \notin FreeBlocks
    BY <1>1, <1>3, BlocksTile, OnList
  <2>4. CASE b = m
    <3>1. c # m /\ c = <<BuddyOf(Floor(p, stop), stop), stop>> /\ stop # BUDDY_MAX_ORDER
      BY <2>2, <2>4
    <3> QED BY <1>0, <2>3, <3>1
  <2>5. CASE c = m
    <3>1. b # m /\ b = <<BuddyOf(Floor(p, stop), stop), stop>> /\ stop # BUDDY_MAX_ORDER
      BY <2>1, <2>2, <2>5
    <3> QED BY <1>0, <2>3, <3>1
  <2>6. CASE b \in FreeBlocks /\ c \in FreeBlocks
    BY <1>9, <2>6 DEF BuddyInv, MergedInv, NoBuddies
  <2> QED BY <1>0, <2>4, <2>5, <2>6
<1> QED BY <1>1, <1>5, <1>6, <1>7, <1>8, <1>9, UpStepInv

-----------------------------------------------------------------------------
\* The specification

\* The kernel starts with empty lists.
LEMMA InitBuddyInv == Init => BuddyInv
<1> SUFFICES ASSUME Init PROVE BuddyInv
  OBVIOUS
<1>1. /\ PmmInv /\ free_list = [o \in Orders |-> {}] /\ free_count = [o \in Orders |-> 0]
      /\ allocated = {} /\ seeded = {} /\ walk = 0 /\ run_start = 0
      /\ entry = 1 /\ taken = 0 /\ budget = 0
  BY InitPmmInv DEF Init
<1>2. phase = "boot" /\ claimed = {}
  BY DEF Init, PmmInit
<1>3. FreeBlocks = {} /\ Blocks = {} /\ Run = {}
  BY <1>1 DEF FreeBlocks, Blocks, Run
<1>4. BuddyTypeOK
  BY <1>1 DEF BuddyTypeOK, PmmInv
<1>5. BlocksPartitionClaimed
  BY <1>1, <1>2, <1>3, NothingCovered DEF BlocksPartitionClaimed
<1>6. IdleInv /\ WalkInv
  BY <1>1, <1>2 DEF IdleInv, WalkInv, PmmUp
<1>7. SeedInv /\ MergedInv
  BY <1>1, <1>2, <1>3, NothingCovered DEF SeedInv, MergedInv, GreedyInv
<1>8. CountInv
  BY <1>1, FS_EmptySet DEF CountInv
<1> QED BY <1>1, <1>4, <1>5, <1>6, <1>7, <1>8 DEF BuddyInv

\* Every step keeps the invariant.
LEMMA NextBuddyInv ==
  ASSUME BuddyInv, [Next]_vars
  PROVE  BuddyInv'
<1>1. CASE UNCHANGED vars
  BY <1>1, StutterInv
<1>2. CASE PmmStep
  BY <1>2, PmmStepInv
<1>3. CASE BuddyInitStep
  BY <1>3, BeginInv, ClaimInv, SkipInv, SeedStepInv, NextRegionInv DEF BuddyInitStep
<1>4. CASE BuddyStep
  <2>1. ASSUME NEW order \in 0 .. BUDDY_MAX_ORDER + 1, NEW p \in claimed, buddy_alloc(order, p)
        PROVE  BuddyInv'
    <3>1. order \in Nat
      BY BuddyAssumption
    <3>2. PICK o \in Orders : Taken(order, p, o)
      BY <2>1, <3>1, AllocTaken
    <3> QED BY <1>4, <3>2, AllocInv DEF BuddyStep
  <2>2. ASSUME NEW b \in allocated, buddy_free(b[1], b[2]) PROVE BuddyInv'
    <3>1. PICK stop \in Orders : Merged(b[1], b[2], stop)
      BY <2>2, FreeMerged
    <3> QED BY <1>4, <3>1, FreeInv DEF BuddyStep
  <2> QED BY <1>1, <1>4, <2>1, <2>2 DEF BuddyStep, buddy_alloc_fails
<1> QED BY <1>1, <1>2, <1>3, <1>4 DEF Next

\* What the code does on the links is a step on the sets: the block it takes off a
\* list is one of the frames buddy_init claimed.
LEMMA ListStep ==
  ASSUME BuddyInv, [ListNext]_listVars
  PROVE  [Next]_vars
<1>1. CASE UNCHANGED listVars
  BY <1>1 DEF listVars
<1>2. CASE Unlisted
  BY <1>2 DEF Unlisted, Next, BuddyInitStep, BuddyStep
<1>3. CASE list_init \/ list_seed
  BY <1>3 DEF list_init, list_seed, Next, BuddyInitStep
<1>4. ASSUME phase = "up", NEW order \in Orders, list_alloc(order) PROVE Next
  <2>1. PICK p : buddy_alloc(order, p)
    BY <1>4 DEF list_alloc
  <2>2. order \in Nat /\ order \in 0 .. BUDDY_MAX_ORDER + 1
    BY BuddyAssumption DEF Orders
  <2>3. PICK o \in Orders : Taken(order, p, o)
    BY <2>1, <2>2, AllocTaken
  <2>4. <<p, o>> \in FreeBlocks
    BY <2>3, BlocksTile, OnList DEF Taken
  <2>5. p \in Frames(<<p, o>>)
    <3>1. <<p, o>> \in Blocks
      BY <2>4 DEF Blocks
    <3>2. <<p, o>>[1] \in Frames(<<p, o>>)
      BY <3>1, BlocksTile
    <3> QED BY <3>2
  <2>6. p \in claimed
    BY <2>4, <2>5 DEF Blocks, Covered, BuddyInv, BlocksPartitionClaimed
  <2> QED BY <1>4, <2>1, <2>2, <2>6 DEF Next, BuddyStep
<1>5. ASSUME phase = "up", NEW b \in allocated, list_free(b[1], b[2]) PROVE Next
  BY <1>5 DEF list_free, Next, BuddyStep
<1> QED BY <1>1, <1>2, <1>3, <1>4, <1>5 DEF ListNext

\* The invariant holds of buddy.c with its lists as sets and as linked nodes, whatever
\* the vmm takes from the frame allocator meanwhile.
THEOREM BuddyInvariant == Spec \/ ListSpec => []BuddyInv
<1>1. Spec => []BuddyInv
  BY InitBuddyInv, NextBuddyInv, PTL DEF Spec
<1>2. ListInit => BuddyInv
  BY InitBuddyInv DEF ListInit
<1>3. ASSUME BuddyInv, [ListNext]_listVars PROVE BuddyInv'
  BY <1>3, ListStep, NextBuddyInv
<1>4. ListSpec => []BuddyInv
  BY <1>2, <1>3, PTL DEF ListSpec
<1> QED BY <1>1, <1>4, PTL

\* Type correctness: no list holds anything but frame numbers, and a run never starts
\* behind the walk.
THEOREM BuddyTypes == Spec \/ ListSpec => []BuddyTypeOK
<1>1. BuddyInv => BuddyTypeOK
  BY DEF BuddyInv
<1> QED BY <1>1, BuddyInvariant, PTL

\* No frame buddy_init claimed is lost or in two blocks, through any sequence of splits
\* and merges, and every block is aligned to its size.
THEOREM BlocksPartition == Spec \/ ListSpec => []BlocksPartitionClaimed
<1>1. BuddyInv => BlocksPartitionClaimed
  BY DEF BuddyInv
<1> QED BY <1>1, BuddyInvariant, PTL

\* The frame allocator's frames keep one owner each while buddy_init claims some.
THEOREM OwnersUnderBuddy == Spec \/ ListSpec => []OwnersPartitionUsed
<1>1. BuddyInv => OwnersPartitionUsed
  BY DEF BuddyInv, PmmInv
<1> QED BY <1>1, BuddyInvariant, PTL

\* buddy_alloc does not fail for fragmentation that merging could have undone.
THEOREM MergingComplete == Spec \/ ListSpec => []AllocComplete
<1>1. ASSUME BuddyInv PROVE AllocComplete
  <2> SUFFICES ASSUME RegionsApart, NEW order \in Orders, NEW p \in claimed, Aligned(p, order),
                      Frames(<<p, order>>) \subseteq Covered(FreeBlocks)
               PROVE  Candidates(order) # {}
    BY DEF AllocComplete
  <2>1. p \in Nat
    BY <1>1 DEF BuddyInv, BuddyTypeOK, PmmTypeOK, AllFrames
  <2>2. p \in Frames(<<p, order>>) /\ Floor(p, order) = p
    BY <2>1, FloorOfAligned
  <2>3. PICK b \in FreeBlocks : p \in Frames(b)
    BY <2>2 DEF Covered
  <2>4. Tiling(FreeBlocks) /\ NoBuddies(FreeBlocks)
    BY <1>1, BlocksTile DEF BuddyInv, MergedInv
  <2>5. b[2] \in Orders /\ b[1] = Floor(p, b[2]) /\ b[1] \in free_list[b[2]]
    BY <1>1, <2>3, <2>4, BlockOfFrame, BlocksTile, OnList
  <2>6. b[2] \in Nat /\ order \in Nat
    BY <2>5, BlockSizes
  <2>7. ASSUME b[2] < order PROVE FALSE
    <3>1. Floor(b[1], order) = p
      BY <2>1, <2>2, <2>5, <2>6, <2>7, FloorOfFloor
    <3> QED BY <2>4, <2>7, <3>1, Maximal
  <2>8. b[2] >= order
    BY <2>6, <2>7
  <2> QED BY <2>5, <2>8 DEF Candidates
<1> QED BY <1>1, BuddyInvariant, PTL

\* Once every block is given back the lists hold the blocks they were seeded with: two
\* tilings of the same frames without buddies in them are the same.
THEOREM FreeingRestores == Spec \/ ListSpec => []FreeingRestoresSeed
<1>1. ASSUME BuddyInv PROVE FreeingRestoresSeed
  <2> SUFFICES ASSUME RegionsApart, allocated = {} PROVE FreeBlocks = seeded
    BY DEF FreeingRestoresSeed
  <2>1. /\ Tiling(FreeBlocks) /\ Tiling(seeded) /\ NoBuddies(FreeBlocks) /\ NoBuddies(seeded)
        /\ Covered(seeded) = Covered(Blocks)
    BY <1>1, BlocksTile DEF BuddyInv, MergedInv, SeedInv
  <2>2. Blocks = FreeBlocks
    BY DEF Blocks
  <2>3. FreeBlocks \subseteq seeded /\ seeded \subseteq FreeBlocks
    BY <2>1, <2>2, TilingsUnique
  <2> QED BY <2>3
<1> QED BY <1>1, BuddyInvariant, PTL

-----------------------------------------------------------------------------
\* The links

NodeSet == [next : Int, prev : Int]

\* c is the list from h on, of the n members of S: each once, linked both ways.
IsList(h, nodes, S, n, c) ==
  /\ n \in Nat /\ c \in [1 .. n -> S]
  /\ \A x \in S : \E k \in 1 .. n : c[k] = x
  /\ \A j, k \in 1 .. n : c[j] = c[k] => j = k
  /\ h = IF n = 0 THEN NULL ELSE c[1]
  /\ \A k \in 1 .. n : nodes[c[k]].next = IF k = n THEN NULL ELSE c[k + 1]
  /\ \A k \in 1 .. n : nodes[c[k]].prev = IF k = 1 THEN NULL ELSE c[k - 1]

Listed(h, nodes, S) == \E n, c : IsList(h, nodes, S, n, c)

\* The lists L hold the blocks fl, and nothing else is a node.
Linked(L, fl) ==
  /\ L.head \in [Orders -> Int] /\ fl \in [Orders -> SUBSET (Nat \ {NULL})]
  /\ \A a, b \in Orders : a # b => fl[a] \cap fl[b] = {}
  /\ IsFiniteSet(DOMAIN L.node) /\ DOMAIN L.node = UNION {fl[a] : a \in Orders}
  /\ \A x \in DOMAIN L.node : L.node[x] \in NodeSet
  /\ \A a \in Orders : Listed(L.head[a], L.node, fl[a])

\* s differs from nodes at x alone.
Changed(s, nodes, x) ==
  /\ DOMAIN s = DOMAIN nodes \cup {x} /\ s[x] \in NodeSet
  /\ \A y \in DOMAIN nodes : y # x => s[y] = nodes[y]

\* Where x is a node, or no node yet.
NodeOrNot(nodes, x) == x \in DOMAIN nodes => nodes[x] \in NodeSet

\* What a store to a node changes.
LEMMA StoredPrev ==
  ASSUME NEW nodes, NEW x, NEW v, v \in Int, NodeOrNot(nodes, x)
  PROVE  /\ Changed(Store(nodes, x, "prev", v), nodes, x) /\ Store(nodes, x, "prev", v)[x].prev = v
         /\ x \in DOMAIN nodes => Store(nodes, x, "prev", v)[x].next = nodes[x].next
BY DEF NodeSet, Store, Wild, Changed, NodeOrNot

LEMMA StoredNext ==
  ASSUME NEW nodes, NEW x, NEW v, v \in Int, NodeOrNot(nodes, x)
  PROVE  /\ Changed(Store(nodes, x, "next", v), nodes, x) /\ Store(nodes, x, "next", v)[x].next = v
         /\ x \in DOMAIN nodes => Store(nodes, x, "next", v)[x].prev = nodes[x].prev
BY DEF NodeSet, Store, Wild, Changed, NodeOrNot

\* A list whose nodes have not changed.
LEMMA SameList ==
  ASSUME NEW h, NEW nodes, NEW new, NEW S, Listed(h, nodes, S),
         \A x \in S : new[x].next = nodes[x].next /\ new[x].prev = nodes[x].prev
  PROVE  Listed(h, new, S)
<1>1. PICK n, c : IsList(h, nodes, S, n, c)
  BY DEF Listed
<1>2. \A k \in 1 .. n : c[k] \in S
  BY <1>1 DEF IsList
<1>3. IsList(h, new, S, n, c)
  BY <1>1, <1>2 DEF IsList
<1> QED BY <1>3 DEF Listed

\* The nodes after list_push.
LEMMA PushNodes ==
  ASSUME NEW L, NEW fl, Linked(L, fl), NEW o \in Orders, NEW p \in Nat \ {NULL}, p \notin DOMAIN L.node
  PROVE  LET new == list_push(L, o, p).node
             first == L.head[o]
         IN  /\ DOMAIN new = DOMAIN L.node \cup {p}
             /\ first \in Int /\ (first # NULL => first \in fl[o]) /\ first # p
             /\ new[p] \in NodeSet /\ new[p].next = first /\ new[p].prev = NULL
             /\ \A x \in DOMAIN L.node :
                  /\ new[x] \in NodeSet /\ new[x].next = L.node[x].next
                  /\ new[x].prev = IF x = first THEN p ELSE L.node[x].prev
<1> DEFINE first == L.head[o]
           D == DOMAIN L.node
           one == Store(L.node, p, "prev", NULL)
           two == Store(one, p, "next", first)
           new == IF first # NULL THEN Store(two, first, "prev", p) ELSE two
<1>1. PICK n, c : IsList(first, L.node, fl[o], n, c)
  BY DEF Linked, Listed
<1>2. first \in Int /\ (first # NULL => first \in fl[o]) /\ (first # NULL => first \in D) /\ first # p
  <2>1. first = NULL \/ first \in fl[o]
    BY <1>1 DEF IsList
  <2>2. fl[o] \subseteq D /\ first \in Int
    BY DEF Linked
  <2> QED BY <2>1, <2>2
<1>3. NULL \in Int /\ \A x \in D : L.node[x] \in NodeSet
  BY DEF NULL, Linked
<1> HIDE DEF first, D
<1>4. /\ DOMAIN one = D \cup {p} /\ one[p] \in NodeSet /\ one[p].prev = NULL
      /\ \A x \in D : one[x] = L.node[x]
  <2>1. NodeOrNot(L.node, p)
    BY DEF NodeOrNot
  <2>2. Changed(one, L.node, p) /\ one[p].prev = NULL
    BY <1>3, <2>1, StoredPrev
  <2> HIDE DEF one
  <2> QED BY <2>2 DEF Changed, D
<1> HIDE DEF one
<1>5. /\ DOMAIN two = D \cup {p} /\ two[p] \in NodeSet /\ two[p].next = first /\ two[p].prev = NULL
      /\ \A x \in D : two[x] = L.node[x]
  <2>1. p \in DOMAIN one /\ one[p] \in NodeSet /\ p \notin D
    BY <1>4 DEF D
  <2>2. /\ DOMAIN two = DOMAIN one \cup {p} /\ two[p] \in NodeSet /\ two[p].next = first
        /\ two[p].prev = one[p].prev /\ \A y \in DOMAIN one : y # p => two[y] = one[y]
    <3>1. NodeOrNot(one, p)
      BY <2>1 DEF NodeOrNot
    <3>2. Changed(two, one, p) /\ two[p].next = first /\ two[p].prev = one[p].prev
      BY <1>2, <2>1, <3>1, StoredNext
    <3> HIDE DEF two
    <3> QED BY <3>2 DEF Changed
  <2> HIDE DEF two
  <2> QED BY <1>4, <2>1, <2>2
<1> HIDE DEF two
<1>6. list_push(L, o, p).node = new
  BY DEF list_push, new, two, one, first
<1>7. CASE first = NULL
  <2>1. new = two /\ \A x \in D : x # first
    <3>1. \A x \in D : x # NULL
      BY DEF Linked, D
    <3> QED BY <1>7, <3>1
  <2> HIDE DEF new
  <2> QED BY <1>2, <1>3, <1>5, <1>6, <2>1 DEF D, first
<1>8. CASE first # NULL
  <2>1. new = Store(two, first, "prev", p) /\ first \in DOMAIN two /\ two[first] \in NodeSet /\ p \in Int
        /\ first \in D
    BY <1>2, <1>3, <1>5, <1>8
  <2> HIDE DEF new
  <2>2. /\ DOMAIN new = DOMAIN two \cup {first} /\ new[first] \in NodeSet /\ new[first].prev = p
        /\ new[first].next = two[first].next /\ \A y \in DOMAIN two : y # first => new[y] = two[y]
    <3>1. NodeOrNot(two, first)
      BY <2>1 DEF NodeOrNot
    <3>2. Changed(new, two, first) /\ new[first].prev = p /\ new[first].next = two[first].next
      BY <2>1, <3>1, StoredPrev
    <3> QED BY <3>2 DEF Changed
  <2> QED BY <1>2, <1>3, <1>5, <1>6, <2>1, <2>2 DEF D, first
<1> QED BY <1>7, <1>8

\* list_push puts a block at the front of its list and leaves the others alone.
LEMMA PushLinked ==
  ASSUME NEW L, NEW fl, Linked(L, fl), NEW o \in Orders, NEW p \in Nat \ {NULL}, p \notin DOMAIN L.node
  PROVE  Linked(list_push(L, o, p), [fl EXCEPT ![o] = @ \cup {p}])
<1> DEFINE M == list_push(L, o, p)
           new == M.node
           gl == [fl EXCEPT ![o] = @ \cup {p}]
           first == L.head[o]
<1>1. /\ DOMAIN new = DOMAIN L.node \cup {p}
      /\ first \in Int /\ (first # NULL => first \in fl[o]) /\ first # p
      /\ new[p] \in NodeSet /\ new[p].next = first /\ new[p].prev = NULL
      /\ \A x \in DOMAIN L.node :
           /\ new[x] \in NodeSet /\ new[x].next = L.node[x].next
           /\ new[x].prev = IF x = first THEN p ELSE L.node[x].prev
  BY PushNodes
<1>2. M.head = [L.head EXCEPT ![o] = p]
  BY DEF list_push
<1> HIDE DEF M, new
<1>3. /\ L.head \in [Orders -> Int] /\ fl \in [Orders -> SUBSET (Nat \ {NULL})]
      /\ DOMAIN L.node = UNION {fl[a] : a \in Orders} /\ IsFiniteSet(DOMAIN L.node)
      /\ \A a, b \in Orders : a # b => fl[a] \cap fl[b] = {}
      /\ \A a \in Orders : Listed(L.head[a], L.node, fl[a])
  BY DEF Linked
<1>4. gl \in [Orders -> SUBSET (Nat \ {NULL})] /\ gl[o] = fl[o] \cup {p}
      /\ \A a \in Orders : a # o => gl[a] = fl[a]
  BY <1>3
<1>5. p \in Int /\ \A a \in Orders : p \notin fl[a]
  BY <1>3
<1> HIDE DEF gl
<1>6. M.head \in [Orders -> Int] /\ M.head[o] = p /\ \A a \in Orders : a # o => M.head[a] = L.head[a]
  BY <1>2, <1>3, <1>5
<1>7. DOMAIN new = UNION {gl[a] : a \in Orders}
  BY <1>1, <1>3, <1>4
<1>8. IsFiniteSet(DOMAIN new)
  <2>1. IsFiniteSet(DOMAIN L.node \cup {p})
    BY <1>3, FS_AddElement
  <2> QED BY <1>1, <2>1
<1>9. \A a, b \in Orders : a # b => gl[a] \cap gl[b] = {}
  BY <1>3, <1>4, <1>5
<1>10. \A x \in DOMAIN new : new[x] \in NodeSet
  BY <1>1
<1>11. ASSUME NEW a \in Orders, a # o PROVE Listed(M.head[a], new, gl[a])
  <2>1. \A x \in fl[a] : new[x].next = L.node[x].next /\ new[x].prev = L.node[x].prev
    <3> SUFFICES ASSUME NEW x \in fl[a]
                 PROVE  new[x].next = L.node[x].next /\ new[x].prev = L.node[x].prev
      OBVIOUS
    <3>1. x \in DOMAIN L.node /\ x # NULL
      BY <1>3
    <3>2. x # first
      BY <1>1, <1>3, <1>11, <3>1
    <3> QED BY <1>1, <3>1, <3>2
  <2>2. Listed(L.head[a], L.node, fl[a])
    BY <1>3
  <2>3. Listed(L.head[a], new, fl[a])
    BY <2>1, <2>2, SameList, Zenon
  <2> QED BY <1>4, <1>6, <1>11, <2>3
<1>12. Listed(M.head[o], new, gl[o])
  <2> DEFINE S == fl[o]
  <2>1. PICK n, c : IsList(first, L.node, S, n, c)
    BY <1>3 DEF Listed
  <2> DEFINE d == [k \in 1 .. n + 1 |-> IF k = 1 THEN p ELSE c[k - 1]]
  <2>2. /\ n \in Nat /\ c \in [1 .. n -> S] /\ \A x \in S : \E k \in 1 .. n : c[k] = x
        /\ \A j, k \in 1 .. n : c[j] = c[k] => j = k
        /\ first = IF n = 0 THEN NULL ELSE c[1]
        /\ \A k \in 1 .. n : L.node[c[k]].next = IF k = n THEN NULL ELSE c[k + 1]
        /\ \A k \in 1 .. n : L.node[c[k]].prev = IF k = 1 THEN NULL ELSE c[k - 1]
    BY <2>1 DEF IsList
  <2>3. S \subseteq DOMAIN L.node /\ p \notin S
    BY <1>3, <1>5
  <2> HIDE DEF S
  <2>4. d[1] = p /\ \A k \in 1 .. n : d[k + 1] = c[k] /\ c[k] \in S
    BY <2>2
  <2>5. d \in [1 .. n + 1 -> S \cup {p}]
    BY <2>2
  <2>5a. \A k \in 1 .. n + 1 : k = 1 \/ (k - 1 \in 1 .. n /\ k = (k - 1) + 1)
    BY <2>2
  <2> HIDE DEF d
  <2>6. \A x \in S \cup {p} : \E k \in 1 .. n + 1 : d[k] = x
    <3> SUFFICES ASSUME NEW x \in S \cup {p} PROVE \E k \in 1 .. n + 1 : d[k] = x
      OBVIOUS
    <3>1. CASE x = p
      <4>1. 1 \in 1 .. n + 1
        BY <2>2
      <4> QED BY <2>4, <3>1, <4>1
    <3>2. CASE x \in S
      <4>1. PICK k \in 1 .. n : c[k] = x
        BY <2>2, <3>2
      <4>2. k + 1 \in 1 .. n + 1 /\ d[k + 1] = x
        BY <2>2, <2>4, <4>1
      <4> QED BY <4>2
    <3> QED BY <3>1, <3>2
  <2>7. \A j, k \in 1 .. n + 1 : d[j] = d[k] => j = k
    <3> SUFFICES ASSUME NEW j \in 1 .. n + 1, NEW k \in 1 .. n + 1, d[j] = d[k] PROVE j = k
      OBVIOUS
    <3>1. j = 1 \/ (j - 1 \in 1 .. n /\ d[j] = c[j - 1] /\ c[j - 1] \in S)
      BY <2>4, <2>5a
    <3>2. k = 1 \/ (k - 1 \in 1 .. n /\ d[k] = c[k - 1] /\ c[k - 1] \in S)
      BY <2>4, <2>5a
    <3>3. CASE j = 1 \/ k = 1
      BY <2>3, <2>4, <3>1, <3>2, <3>3
    <3>4. CASE j # 1 /\ k # 1
      <4>1. j - 1 = k - 1
        BY <2>2, <3>1, <3>2, <3>4
      <4> QED BY <4>1
    <3> QED BY <3>3, <3>4
  <2>8. ASSUME NEW k \in 1 .. n + 1
        PROVE  /\ new[d[k]].next = IF k = n + 1 THEN NULL ELSE d[k + 1]
               /\ new[d[k]].prev = IF k = 1 THEN NULL ELSE d[k - 1]
    <3>1. CASE k = 1
      <4>1. new[d[k]].next = first /\ new[d[k]].prev = NULL
        BY <1>1, <2>4, <3>1
      <4>2. first = IF k = n + 1 THEN NULL ELSE d[k + 1]
        <5>1. CASE n = 0
          BY <2>2, <3>1, <5>1
        <5>2. CASE n # 0
          <6>1. 1 \in 1 .. n /\ k # n + 1
            BY <2>2, <3>1, <5>2
          <6> QED BY <2>2, <2>4, <3>1, <5>2, <6>1
        <5> QED BY <5>1, <5>2
      <4> QED BY <3>1, <4>1, <4>2
    <3>2. CASE k # 1
      <4> DEFINE i == k - 1
      <4>1. i \in 1 .. n /\ k = i + 1
        BY <2>5a, <3>2
      <4> HIDE DEF i
      <4>2. d[k] = c[i] /\ c[i] \in S /\ c[i] \in DOMAIN L.node
        BY <2>3, <2>4, <4>1
      <4>3. new[c[i]].next = L.node[c[i]].next
        BY <1>1, <4>2
      <4>4. new[c[i]].next = IF k = n + 1 THEN NULL ELSE d[k + 1]
        <5>1. CASE i = n
          BY <2>2, <4>1, <4>3, <5>1
        <5>2. CASE i # n
          <6>1. i + 1 \in 1 .. n /\ k # n + 1 /\ k + 1 = (i + 1) + 1
            BY <2>2, <4>1, <5>2
          <6>2. L.node[c[i]].next = c[i + 1]
            BY <2>2, <4>1, <5>2
          <6>3. d[(i + 1) + 1] = c[i + 1]
            BY <2>4, <6>1
          <6> QED BY <4>3, <6>1, <6>2, <6>3
        <5> QED BY <5>1, <5>2
      <4>5. new[c[i]].prev = d[i]
        <5>1. CASE i = 1
          <6>1. first = c[i]
            BY <2>2, <4>1, <5>1
          <6> QED BY <1>1, <2>4, <4>2, <5>1, <6>1
        <5>2. CASE i # 1
          <6>1. i - 1 \in 1 .. n /\ i = (i - 1) + 1 /\ 1 \in 1 .. n
            BY <2>2, <4>1, <5>2
          <6>2. c[i] # first
            BY <2>2, <4>1, <5>2, <6>1
          <6>3. new[c[i]].prev = c[i - 1] /\ d[i] = c[i - 1]
            <7>1. new[c[i]].prev = L.node[c[i]].prev
              BY <1>1, <4>2, <6>2
            <7>2. L.node[c[i]].prev = c[i - 1]
              BY <2>2, <4>1, <5>2
            <7>3. d[(i - 1) + 1] = c[i - 1]
              BY <2>4, <6>1
            <7> QED BY <6>1, <7>1, <7>2, <7>3
          <6> QED BY <6>3
        <5> QED BY <5>1, <5>2
      <4>6. k - 1 = i
        BY <4>1
      <4> QED BY <3>2, <4>2, <4>4, <4>5, <4>6
    <3> QED BY <3>1, <3>2
  <2>9. IsList(p, new, S \cup {p}, n + 1, d)
    <3>1. n + 1 \in Nat /\ n + 1 # 0
      BY <2>2
    <3> QED BY <2>4, <2>5, <2>6, <2>7, <2>8, <3>1 DEF IsList
  <2> QED BY <1>4, <1>6, <2>9 DEF Listed, S
<1>13. Linked(M, gl)
  BY <1>4, <1>6, <1>7, <1>8, <1>9, <1>10, <1>11, <1>12 DEF Linked, new
<1> QED BY <1>13 DEF M, gl

\* The nodes after list_remove of p, which is linked to before and after.
LEMMA RemoveNodes ==
  ASSUME NEW L, NEW o, NEW p, NEW before, NEW after, p \in DOMAIN L.node, NULL \notin DOMAIN L.node,
         \A x \in DOMAIN L.node : L.node[x] \in NodeSet,
         before = L.node[p].prev, before = NULL \/ before \in DOMAIN L.node \ {p},
         after = L.node[p].next, after = NULL \/ after \in DOMAIN L.node \ {p}
  PROVE  /\ DOMAIN list_remove(L, o, p).node = DOMAIN L.node \ {p}
         /\ \A x \in DOMAIN L.node \ {p} :
              /\ list_remove(L, o, p).node[x] \in NodeSet
              /\ list_remove(L, o, p).node[x].next = IF x = before THEN after ELSE L.node[x].next
              /\ list_remove(L, o, p).node[x].prev = IF x = after THEN before ELSE L.node[x].prev
<1> DEFINE D == DOMAIN L.node
           around == IF before # NULL THEN Store(L.node, before, "next", after) ELSE L.node
           back == IF after # NULL THEN Store(around, after, "prev", before) ELSE around
<1>1. before \in Int /\ after \in Int
  BY DEF NodeSet
<1>2. list_remove(L, o, p).node = Without(back, {p})
  <2>1. NodeAt(L, p).prev = before /\ NodeAt(L, p).next = after
    BY DEF NodeAt
  <2>2. /\ list_remove(L, o, p).node
             = Without(IF NodeAt(L, p).next # NULL
                       THEN Store(IF NodeAt(L, p).prev # NULL
                                  THEN Store(L.node, NodeAt(L, p).prev, "next", NodeAt(L, p).next)
                                  ELSE L.node, NodeAt(L, p).next, "prev", NodeAt(L, p).prev)
                       ELSE IF NodeAt(L, p).prev # NULL
                            THEN Store(L.node, NodeAt(L, p).prev, "next", NodeAt(L, p).next)
                            ELSE L.node, {p})
    BY DEF list_remove
  <2> QED BY <2>1, <2>2, Zenon DEF back, around
<1>3. /\ DOMAIN around = D
      /\ \A x \in D : /\ around[x] \in NodeSet /\ around[x].prev = L.node[x].prev
                      /\ around[x].next = IF x = before THEN after ELSE L.node[x].next
  <2>1. CASE before = NULL
    BY <2>1
  <2>2. CASE before # NULL
    <3>1. around = Store(L.node, before, "next", after) /\ before \in D /\ NodeOrNot(L.node, before)
      BY <2>2 DEF NodeOrNot
    <3> HIDE DEF around
    <3>2. Changed(around, L.node, before) /\ around[before].next = after
          /\ around[before].prev = L.node[before].prev
      BY <1>1, <3>1, StoredNext
    <3> QED BY <3>1, <3>2 DEF Changed
  <2> QED BY <2>1, <2>2
<1> HIDE DEF around
<1>4. /\ DOMAIN back = D
      /\ \A x \in D : /\ back[x] \in NodeSet /\ back[x].next = around[x].next
                      /\ back[x].prev = IF x = after THEN before ELSE around[x].prev
  <2>1. CASE after = NULL
    BY <1>3, <2>1
  <2>2. CASE after # NULL
    <3>1. back = Store(around, after, "prev", before) /\ after \in D /\ NodeOrNot(around, after)
          /\ after \in DOMAIN around
      BY <1>3, <2>2 DEF NodeOrNot
    <3> HIDE DEF back
    <3>2. Changed(back, around, after) /\ back[after].prev = before
          /\ back[after].next = around[after].next
      BY <1>1, <3>1, StoredPrev
    <3> QED BY <1>3, <3>1, <3>2 DEF Changed
  <2> QED BY <2>1, <2>2
<1> HIDE DEF back
<1>5. DOMAIN Without(back, {p}) = D \ {p} /\ \A x \in D \ {p} : Without(back, {p})[x] = back[x]
  BY <1>4 DEF Without
<1> DEFINE new == list_remove(L, o, p).node
<1>6. new = Without(back, {p})
  BY <1>2
<1> HIDE DEF new
<1>7. DOMAIN new = D \ {p} /\ \A x \in D \ {p} : x \in D /\ new[x] = back[x]
  BY <1>5, <1>6
<1>8. ASSUME NEW x \in D \ {p}
      PROVE  /\ new[x] \in NodeSet
             /\ new[x].next = IF x = before THEN after ELSE L.node[x].next
             /\ new[x].prev = IF x = after THEN before ELSE L.node[x].prev
  <2>1. x \in D /\ new[x] = back[x]
    BY <1>7
  <2> HIDE DEF D
  <2> QED BY <1>3, <1>4, <2>1
<1> QED BY <1>7, <1>8 DEF new

\* list_remove takes a block out of its list, from anywhere in it, and leaves the others
\* alone.
LEMMA RemoveLinked ==
  ASSUME NEW L, NEW fl, Linked(L, fl), NEW o \in Orders, NEW p \in fl[o]
  PROVE  Linked(list_remove(L, o, p), [fl EXCEPT ![o] = @ \ {p}])
<1> DEFINE M == list_remove(L, o, p)
           new == M.node
           gl == [fl EXCEPT ![o] = @ \ {p}]
           D == DOMAIN L.node
           S == fl[o]
           before == L.node[p].prev
           after == L.node[p].next
<1>1. /\ L.head \in [Orders -> Int] /\ fl \in [Orders -> SUBSET (Nat \ {NULL})]
      /\ D = UNION {fl[a] : a \in Orders} /\ IsFiniteSet(D)
      /\ \A a, b \in Orders : a # b => fl[a] \cap fl[b] = {}
      /\ \A a \in Orders : Listed(L.head[a], L.node, fl[a])
      /\ \A x \in D : L.node[x] \in NodeSet
  BY DEF Linked
<1>2. PICK n, c : IsList(L.head[o], L.node, S, n, c)
  BY <1>1 DEF Listed
<1>3. /\ n \in Nat /\ c \in [1 .. n -> S] /\ \A x \in S : \E k \in 1 .. n : c[k] = x
      /\ \A j, k \in 1 .. n : c[j] = c[k] => j = k
      /\ L.head[o] = IF n = 0 THEN NULL ELSE c[1]
      /\ \A k \in 1 .. n : L.node[c[k]].next = IF k = n THEN NULL ELSE c[k + 1]
      /\ \A k \in 1 .. n : L.node[c[k]].prev = IF k = 1 THEN NULL ELSE c[k - 1]
  BY <1>2 DEF IsList
<1>4. PICK k \in 1 .. n : c[k] = p
  BY <1>3
<1>5. p \in D /\ NULL \notin D /\ S \subseteq D /\ NULL \notin S
  BY <1>1
<1>6. \A i \in 1 .. n : c[i] \in S /\ c[i] # NULL /\ (i # k => c[i] # p)
  BY <1>3, <1>4, <1>5
<1>7. before = (IF k = 1 THEN NULL ELSE c[k - 1]) /\ after = (IF k = n THEN NULL ELSE c[k + 1])
  BY <1>3, <1>4
<1>8. /\ k # 1 => k - 1 \in 1 .. n /\ k - 1 # k
      /\ k # n => k + 1 \in 1 .. n /\ k + 1 # k
  BY <1>3
<1>9. /\ before = NULL \/ before \in S \ {p}
      /\ after = NULL \/ after \in S \ {p}
  BY <1>6, <1>7, <1>8
<1>10. M.head = IF before # NULL THEN L.head ELSE [L.head EXCEPT ![o] = after]
  BY <1>5 DEF list_remove, NodeAt
<1> HIDE DEF before, after, D, S
<1>11. /\ DOMAIN new = D \ {p}
       /\ \A x \in D \ {p} :
            /\ new[x] \in NodeSet
            /\ new[x].next = IF x = before THEN after ELSE L.node[x].next
            /\ new[x].prev = IF x = after THEN before ELSE L.node[x].prev
  <2>1. before = NULL \/ before \in D \ {p}
    BY <1>5, <1>9
  <2>2. after = NULL \/ after \in D \ {p}
    BY <1>5, <1>9
  <2> HIDE DEF M
  <2> QED BY <1>1, <1>5, <2>1, <2>2, RemoveNodes DEF D, before, after, M
<1> HIDE DEF M, new
<1>12. gl \in [Orders -> SUBSET (Nat \ {NULL})] /\ gl[o] = S \ {p}
       /\ \A a \in Orders : a # o => gl[a] = fl[a]
  BY <1>1 DEF S
<1> HIDE DEF gl
<1>13. before \in Int /\ after \in Int
  BY <1>1, <1>5 DEF before, after, NodeSet
<1>14. /\ M.head \in [Orders -> Int] /\ M.head[o] = (IF before # NULL THEN L.head[o] ELSE after)
       /\ \A a \in Orders : a # o => M.head[a] = L.head[a]
  BY <1>1, <1>10, <1>13
<1>15. DOMAIN new = UNION {gl[a] : a \in Orders}
  BY <1>1, <1>11, <1>12 DEF S
<1>16. IsFiniteSet(DOMAIN new)
  <2>1. IsFiniteSet(D \ {p})
    BY <1>1, FS_Subset
  <2> QED BY <1>11, <2>1
<1>17. \A a, b \in Orders : a # b => gl[a] \cap gl[b] = {}
  BY <1>1, <1>12 DEF S
<1>18. \A x \in DOMAIN new : new[x] \in NodeSet
  BY <1>11
<1>19. ASSUME NEW a \in Orders, a # o PROVE Listed(M.head[a], new, gl[a])
  <2>1. \A x \in fl[a] : new[x].next = L.node[x].next /\ new[x].prev = L.node[x].prev
    <3> SUFFICES ASSUME NEW x \in fl[a]
                 PROVE  new[x].next = L.node[x].next /\ new[x].prev = L.node[x].prev
      OBVIOUS
    <3>1. x \in D /\ x # NULL /\ x \notin S /\ x # p
      BY <1>1, <1>19 DEF S
    <3>2. x # before /\ x # after
      BY <1>9, <3>1
    <3> QED BY <1>11, <3>1, <3>2
  <2>2. Listed(L.head[a], L.node, fl[a])
    BY <1>1
  <2>3. Listed(L.head[a], new, fl[a])
    BY <2>1, <2>2, SameList, Zenon
  <2> QED BY <1>12, <1>14, <1>19, <2>3
<1>20. Listed(M.head[o], new, gl[o])
  <2> DEFINE q(i) == IF i < k THEN i ELSE i + 1
             m == n - 1
             e == [i \in 1 .. m |-> c[q(i)]]
  <2>1. k \in Nat /\ m \in Nat /\ n = m + 1 /\ k >= 1 /\ k <= n
    BY <1>3
  <2>2. \A i \in 1 .. m : q(i) \in 1 .. n /\ q(i) # k
    BY <1>3, <2>1
  <2>3. \A i, j \in 1 .. m : q(i) = q(j) => i = j
    BY <2>1
  <2>4. \A i \in 1 .. m : e[i] = c[q(i)] /\ e[i] \in S \ {p}
    BY <1>6, <2>2
  <2>5. e \in [1 .. m -> S \ {p}]
    BY <2>4
  <2> HIDE DEF e
  <2>6. \A x \in S \ {p} : \E i \in 1 .. m : e[i] = x
    <3> SUFFICES ASSUME NEW x \in S \ {p} PROVE \E i \in 1 .. m : e[i] = x
      OBVIOUS
    <3>1. PICK j \in 1 .. n : c[j] = x
      BY <1>3
    <3>2. j # k
      BY <1>4, <3>1
    <3> DEFINE i == IF j < k THEN j ELSE j - 1
    <3>3. i \in 1 .. m /\ q(i) = j
      BY <2>1, <3>2
    <3> HIDE DEF i, q
    <3> QED BY <2>4, <3>1, <3>3
  <2>7. \A i, j \in 1 .. m : e[i] = e[j] => i = j
    <3> HIDE DEF q
    <3> QED BY <1>3, <2>2, <2>3, <2>4
  <2>8. M.head[o] = IF m = 0 THEN NULL ELSE e[1]
    <3>1. CASE k = 1
      <4>1. M.head[o] = after /\ after = IF n = 1 THEN NULL ELSE c[2]
        BY <1>7, <1>14, <3>1
      <4>2. m # 0 => e[1] = c[2]
        <5>1. m # 0 => 1 \in 1 .. m /\ q(1) = 2
          BY <2>1, <3>1
        <5> QED BY <2>4, <5>1
      <4> QED BY <2>1, <4>1, <4>2
    <3>2. CASE k # 1
      <4>1. M.head[o] = c[1]
        BY <1>3, <1>6, <1>7, <1>8, <1>14, <2>1, <3>2
      <4>2. m # 0 /\ 1 \in 1 .. m /\ q(1) = 1
        BY <2>1, <3>2
      <4>3. e[1] = c[1]
        BY <2>4, <4>2
      <4> QED BY <4>1, <4>2, <4>3
    <3> QED BY <3>1, <3>2
  <2>9. ASSUME NEW i \in 1 .. m
        PROVE  /\ new[e[i]].next = IF i = m THEN NULL ELSE e[i + 1]
               /\ new[e[i]].prev = IF i = 1 THEN NULL ELSE e[i - 1]
    <3>1. e[i] \in D \ {p} /\ e[i] = c[q(i)] /\ q(i) \in 1 .. n
      BY <1>5, <2>2, <2>4
    <3>2. /\ new[e[i]].next = IF e[i] = before THEN after ELSE L.node[e[i]].next
          /\ new[e[i]].prev = IF e[i] = after THEN before ELSE L.node[e[i]].prev
      BY <1>11, <3>1
    <3>3. e[i] # NULL /\ e[i] \in S
      BY <1>5, <2>4
    <3>4. e[i] = before <=> i = k - 1
      <4>1. CASE k = 1
        BY <1>7, <3>3, <4>1
      <4>2. CASE k # 1
        <5>1. before = c[k - 1] /\ k - 1 \in 1 .. n
          BY <1>7, <1>8, <4>2
        <5>2. q(i) = k - 1 <=> i = k - 1
          BY <2>1
        <5> HIDE DEF q
        <5> QED BY <1>3, <3>1, <5>1, <5>2
      <4> QED BY <4>1, <4>2
    <3>5. e[i] = after <=> i = k
      <4>1. CASE k = n
        BY <1>7, <3>3, <4>1, <2>1
      <4>2. CASE k # n
        <5>1. after = c[k + 1] /\ k + 1 \in 1 .. n
          BY <1>7, <1>8, <4>2
        <5>2. q(i) = k + 1 <=> i = k
          BY <2>1
        <5> HIDE DEF q
        <5> QED BY <1>3, <3>1, <5>1, <5>2
      <4> QED BY <4>1, <4>2
    <3>6. /\ L.node[e[i]].next = IF q(i) = n THEN NULL ELSE c[q(i) + 1]
          /\ L.node[e[i]].prev = IF q(i) = 1 THEN NULL ELSE c[q(i) - 1]
      <4> HIDE DEF q
      <4> QED BY <1>3, <3>1
    <3>7. i # m => i + 1 \in 1 .. m /\ e[i + 1] = c[q(i + 1)]
      <4>1. i # m => i + 1 \in 1 .. m
        BY <2>1
      <4> QED BY <2>4, <4>1
    <3>8. i # 1 => i - 1 \in 1 .. m /\ e[i - 1] = c[q(i - 1)]
      <4>1. i # 1 => i - 1 \in 1 .. m
        BY <2>1
      <4> QED BY <2>4, <4>1
    <3>9. new[e[i]].next = IF i = m THEN NULL ELSE e[i + 1]
      <4>1. CASE i = k - 1
        <5>1. new[e[i]].next = IF k = n THEN NULL ELSE c[k + 1]
          BY <1>7, <3>2, <3>4, <4>1
        <5>2. (k = n <=> i = m) /\ q(i + 1) = k + 1
          BY <2>1, <4>1
        <5> HIDE DEF q
        <5> QED BY <3>7, <5>1, <5>2
      <4>2. CASE i # k - 1
        <5>1. new[e[i]].next = IF q(i) = n THEN NULL ELSE c[q(i) + 1]
          BY <3>2, <3>4, <3>6, <4>2
        <5>2. (q(i) = n <=> i = m) /\ q(i + 1) = q(i) + 1
          BY <2>1, <4>2
        <5> HIDE DEF q
        <5> QED BY <3>7, <5>1, <5>2
      <4> QED BY <4>1, <4>2
    <3>10. new[e[i]].prev = IF i = 1 THEN NULL ELSE e[i - 1]
      <4>1. CASE i = k
        <5>1. new[e[i]].prev = IF k = 1 THEN NULL ELSE c[k - 1]
          BY <1>7, <3>2, <3>5, <4>1
        <5>2. q(i - 1) = k - 1
          BY <2>1, <4>1
        <5> HIDE DEF q
        <5> QED BY <3>8, <4>1, <5>1, <5>2
      <4>2. CASE i # k
        <5>1. new[e[i]].prev = IF q(i) = 1 THEN NULL ELSE c[q(i) - 1]
          BY <3>2, <3>5, <3>6, <4>2
        <5>2. (q(i) = 1 <=> i = 1) /\ q(i - 1) = q(i) - 1
          BY <2>1, <4>2
        <5> HIDE DEF q
        <5> QED BY <3>8, <5>1, <5>2
      <4> QED BY <4>1, <4>2
    <3> QED BY <3>9, <3>10
  <2> HIDE DEF m
  <2>10. IsList(M.head[o], new, S \ {p}, m, e)
    BY <2>1, <2>5, <2>6, <2>7, <2>8, <2>9 DEF IsList
  <2> QED BY <1>12, <2>10 DEF Listed
<1>21. Linked(M, gl)
  BY <1>12, <1>14, <1>15, <1>16, <1>17, <1>18, <1>19, <1>20 DEF Linked, new
<1> QED BY <1>21 DEF M, gl

\* The walk along next meets the blocks of the list, each once, and then NULL.
LEMMA ChainIs ==
  ASSUME NEW L, NEW fl, Linked(L, fl), NEW o \in Orders
  PROVE  \E n, c : /\ IsList(L.head[o], L.node, fl[o], n, c) /\ n = Cardinality(fl[o])
                   /\ n <= Cardinality(DOMAIN L.node) /\ Cardinality(DOMAIN L.node) \in Nat
                   /\ Chain(L, o) = [k \in 1 .. Cardinality(DOMAIN L.node) + 1 |->
                                       IF k <= n THEN c[k] ELSE NULL]
<1> DEFINE N == Cardinality(DOMAIN L.node)
           S == fl[o]
           Step(h) == [k \in 1 .. N + 1 |->
                         IF k = 1 THEN L.head[o]
                         ELSE IF h[k - 1] = NULL THEN NULL ELSE NodeAt(L, h[k - 1]).next]
           f == CHOOSE h : h = Step(h)
<1>1. Chain(L, o) = f
  BY DEF Chain
<1>2. PICK n, c : IsList(L.head[o], L.node, S, n, c)
  BY DEF Linked, Listed
<1>3. /\ n \in Nat /\ c \in [1 .. n -> S] /\ \A x \in S : \E k \in 1 .. n : c[k] = x
      /\ \A j, k \in 1 .. n : c[j] = c[k] => j = k
      /\ L.head[o] = IF n = 0 THEN NULL ELSE c[1]
      /\ \A k \in 1 .. n : L.node[c[k]].next = IF k = n THEN NULL ELSE c[k + 1]
  BY <1>2 DEF IsList
<1>4. S \subseteq DOMAIN L.node /\ IsFiniteSet(DOMAIN L.node) /\ NULL \notin S
  BY DEF Linked
<1>5. n = Cardinality(S)
  <2>1. ExistsBijection(1 .. n, S)
    <3>1. c \in Bijection(1 .. n, S)
      BY <1>3 DEF Bijection, Injection, Surjection, IsInjective
    <3> QED BY <3>1 DEF ExistsBijection
  <2> QED BY <1>3, <2>1, FS_CountingElements
<1>6. N \in Nat /\ n <= N
  BY <1>4, <1>5, FS_Subset, FS_CardinalityType
<1> HIDE DEF N
<1> DEFINE w == [k \in 1 .. N + 1 |-> IF k <= n THEN c[k] ELSE NULL]
<1>7. \A k \in 1 .. n : c[k] \in S /\ c[k] # NULL /\ NodeAt(L, c[k]) = L.node[c[k]]
  BY <1>3, <1>4 DEF NodeAt
<1> HIDE DEF S
<1>8. ASSUME NEW k \in 1 .. N + 1, k # 1, NEW v, v = IF k - 1 <= n THEN c[k - 1] ELSE NULL
      PROVE  (IF v = NULL THEN NULL ELSE NodeAt(L, v).next) = IF k <= n THEN c[k] ELSE NULL
  <2>1. CASE k - 1 <= n
    <3>1. k - 1 \in 1 .. n /\ (k - 1) + 1 = k /\ (k - 1 = n <=> ~(k <= n))
      BY <1>3, <1>6, <1>8, <2>1
    <3>2. v # NULL /\ NodeAt(L, v).next = IF k - 1 = n THEN NULL ELSE c[(k - 1) + 1]
      BY <1>3, <1>7, <1>8, <2>1, <3>1
    <3> QED BY <3>1, <3>2
  <2>2. CASE ~(k - 1 <= n)
    <3>1. ~(k <= n)
      BY <1>3, <1>6, <2>2
    <3> QED BY <1>8, <2>2, <3>1
  <2> QED BY <2>1, <2>2
<1>9. w = Step(w)
  <2> SUFFICES ASSUME NEW k \in 1 .. N + 1
               PROVE  w[k] = IF k = 1 THEN L.head[o]
                             ELSE IF w[k - 1] = NULL THEN NULL ELSE NodeAt(L, w[k - 1]).next
    OBVIOUS
  <2>1. CASE k = 1
    BY <1>3, <1>6, <2>1
  <2>2. CASE k # 1
    <3>1. k - 1 \in 1 .. N + 1
      BY <1>6, <2>2
    <3>2. w[k] = (IF k <= n THEN c[k] ELSE NULL) /\ w[k - 1] = (IF k - 1 <= n THEN c[k - 1] ELSE NULL)
      BY <3>1
    <3> HIDE DEF w
    <3> QED BY <1>8, <2>2, <3>2
  <2> QED BY <2>1, <2>2
<1>10. f = Step(f)
  <2> HIDE DEF Step, w
  <2> QED BY <1>9
<1> HIDE DEF f
<1> DEFINE T == {k \in 1 .. N + 1 : f[k] = w[k]}
<1>11. /\ f = [k \in 1 .. N + 1 |-> f[k]] /\ f[1] = L.head[o]
       /\ \A k \in 1 .. N + 1 : k # 1 => f[k] = IF f[k - 1] = NULL THEN NULL ELSE NodeAt(L, f[k - 1]).next
  <2>1. 1 \in 1 .. N + 1
    BY <1>6
  <2> QED BY <1>10, <2>1
<1>12. 1 \in T
  BY <1>3, <1>6, <1>11
<1>13. ASSUME NEW k \in 1 .. (N + 1) - 1, k \in T PROVE k + 1 \in T
  <2>1. k + 1 \in 1 .. N + 1 /\ k + 1 # 1 /\ (k + 1) - 1 = k /\ k \in 1 .. N + 1
    BY <1>6
  <2>2. f[k] = IF k <= n THEN c[k] ELSE NULL
    BY <1>13, <2>1
  <2>3. f[k + 1] = IF f[k] = NULL THEN NULL ELSE NodeAt(L, f[k]).next
    BY <1>11, <2>1
  <2>4. f[k + 1] = IF k + 1 <= n THEN c[k + 1] ELSE NULL
    BY <1>8, <2>1, <2>2, <2>3
  <2> QED BY <2>1, <2>4
<1> HIDE DEF T
<1>14. 1 \in Int /\ N + 1 \in Int
  BY <1>6
<1>15. 1 .. N + 1 \subseteq T
  BY <1>12, <1>13, <1>14, CountUp, Zenon
<1>16. f = w
  <2>1. \A k \in 1 .. N + 1 : f[k] = IF k <= n THEN c[k] ELSE NULL
    BY <1>15 DEF T
  <2> QED BY <1>11, <2>1
<1> QED BY <1>1, <1>2, <1>5, <1>6, <1>16 DEF N, S

\* list_find finds what is on the list.
LEMMA FindIs ==
  ASSUME NEW L, NEW fl, Linked(L, fl), NEW o \in Orders, NEW p
  PROVE  list_find(L, o, p) <=> p \in fl[o]
<1>1. PICK n, c : /\ IsList(L.head[o], L.node, fl[o], n, c)
                  /\ n <= Cardinality(DOMAIN L.node) /\ Cardinality(DOMAIN L.node) \in Nat
                  /\ Chain(L, o) = [k \in 1 .. Cardinality(DOMAIN L.node) + 1 |->
                                      IF k <= n THEN c[k] ELSE NULL]
  BY ChainIs
<1> DEFINE N == Cardinality(DOMAIN L.node)
<1>2. /\ n \in Nat /\ c \in [1 .. n -> fl[o]] /\ \A x \in fl[o] : \E k \in 1 .. n : c[k] = x
      /\ NULL \notin fl[o]
  BY <1>1 DEF IsList, Linked
<1>3. DOMAIN Chain(L, o) = 1 .. N + 1 /\ \A k \in 1 .. N + 1 : Chain(L, o)[k] = IF k <= n THEN c[k] ELSE NULL
  BY <1>1
<1>4. n <= N /\ N \in Nat
  BY <1>1
<1> HIDE DEF N
<1>5. ASSUME p \in fl[o] PROVE list_find(L, o, p)
  <2>1. PICK k \in 1 .. n : c[k] = p
    BY <1>2, <1>5
  <2>2. k \in 1 .. N + 1 /\ k <= n
    BY <1>2, <1>4
  <2> QED BY <1>2, <1>3, <1>5, <2>1, <2>2 DEF list_find
<1>6. ASSUME list_find(L, o, p) PROVE p \in fl[o]
  <2>1. PICK k \in 1 .. N + 1 : p = (IF k <= n THEN c[k] ELSE NULL) /\ p # NULL
    BY <1>3, <1>6 DEF list_find
  <2>2. k \in 1 .. n
    BY <1>2, <2>1
  <2> QED BY <1>2, <2>1, <2>2
<1> QED BY <1>5, <1>6

\* The frames of the blocks were claimed, and frame 0 never is.
LEMMA BlocksClaimed ==
  ASSUME BuddyInv
  PROVE  /\ NULL \notin claimed /\ \A b \in Blocks : Frames(b) \subseteq claimed
         /\ free_list \in [Orders -> SUBSET (Nat \ {NULL})]
         /\ \A a, b \in Orders : a # b => free_list[a] \cap free_list[b] = {}
         /\ \A a \in Orders : \A x \in free_list[a] :
              /\ <<x, a>> \in FreeBlocks /\ <<x, a>> \in Blocks
              /\ x \in Nat /\ Aligned(x, a) /\ x \in Frames(<<x, a>>)
<1>1. NULL \notin claimed
  <2>1. CASE PmmUp
    BY <2>1 DEF BuddyInv, PmmInv, Geometry, OwnersPartitionUsed, NULL
  <2>2. CASE ~PmmUp
    BY <2>2 DEF BuddyInv, PmmInv, Idle
  <2> QED BY <2>1, <2>2
<1>2. \A b \in Blocks : Frames(b) \subseteq claimed
  BY DEF BuddyInv, BlocksPartitionClaimed, Covered
<1>3. ASSUME NEW a \in Orders, NEW x \in free_list[a]
      PROVE  /\ <<x, a>> \in FreeBlocks /\ <<x, a>> \in Blocks
             /\ x \in Nat /\ Aligned(x, a) /\ x \in Frames(<<x, a>>)
  <2>1. <<x, a>> \in FreeBlocks /\ <<x, a>> \in Blocks
    BY BlocksTile, OnList DEF Blocks
  <2>2. x \in Nat
    BY DEF BuddyInv, BuddyTypeOK
  <2>3. Aligned(<<x, a>>[1], <<x, a>>[2]) /\ <<x, a>>[1] \in Frames(<<x, a>>)
    BY <2>1, BlocksTile
  <2> QED BY <2>1, <2>2, <2>3
<1>4. \A a \in Orders : \A x \in free_list[a] : x # NULL
  BY <1>1, <1>2, <1>3
<1>5. free_list \in [Orders -> SUBSET (Nat \ {NULL})]
  BY <1>4 DEF BuddyInv, BuddyTypeOK
<1>6. ASSUME NEW a \in Orders, NEW b \in Orders, a # b PROVE free_list[a] \cap free_list[b] = {}
  <2>1. ASSUME NEW x \in free_list[a] \cap free_list[b] PROVE FALSE
    <3>1. <<x, a>> \in Blocks /\ <<x, b>> \in Blocks /\ x \in Frames(<<x, a>>) /\ x \in Frames(<<x, b>>)
      BY <1>3, <2>1
    <3>2. <<x, a>> # <<x, b>>
      BY <1>6
    <3> QED BY <3>1, <3>2 DEF BuddyInv, BlocksPartitionClaimed
  <2> QED BY <2>1
<1> QED BY <1>1, <1>2, <1>3, <1>5, <1>6

\* The upper halves of a free block are on no list.
LEMMA HalvesFresh ==
  ASSUME BuddyInv, NEW order \in Orders, NEW o \in Orders, order <= o, NEW p \in free_list[o],
         NEW k \in order .. o - 1
  PROVE  /\ p + BlockFrames[k] \in Nat \ {NULL}
         /\ \A a \in Orders : p + BlockFrames[k] \notin free_list[a] \/ (a = o /\ p + BlockFrames[k] = p)
         /\ p + BlockFrames[k] # p
         /\ \A j \in order .. o - 1 : j # k => p + BlockFrames[j] # p + BlockFrames[k]
<1> DEFINE h(j) == p + BlockFrames[j]
<1>1. p \in Nat /\ Aligned(p, o) /\ <<p, o>> \in Blocks
  BY BlocksClaimed
<1>2. ASSUME NEW j \in order .. o - 1
      PROVE  j \in Orders /\ h(j) \in Nat \ {NULL} /\ h(j) # p /\ h(j) \in Frames(<<h(j), j>>)
             /\ h(j) \in Frames(<<p, o>>)
  <2>1. j \in Orders /\ j < o
    BY BuddyAssumption DEF Orders
  <2>2. BlockFrames[j] \in Nat \ {0}
    BY <2>1, BlockSizes
  <2>3. h(j) \in Nat \ {NULL} /\ h(j) # p
    BY <1>1, <2>2 DEF NULL
  <2>4. Aligned(h(j), j)
    BY <1>1, <2>1, SplitStep
  <2>5. h(j) \in Frames(<<h(j), j>>)
    BY <2>1, <2>3, <2>4, FloorOfAligned
  <2>6. h(j) \in Frames(<<p, o>>)
    BY <1>1, <2>5, SplitCover
  <2> QED BY <2>1, <2>3, <2>5, <2>6
<1>3. ASSUME NEW a \in Orders, h(k) \in free_list[a] PROVE a = o /\ h(k) = p
  <2>1. <<h(k), a>> \in Blocks /\ h(k) \in Frames(<<h(k), a>>)
    BY <1>3, BlocksClaimed
  <2>2. h(k) \in Frames(<<p, o>>)
    BY <1>2
  <2> HIDE DEF h
  <2>3. <<h(k), a>> = <<p, o>>
    BY <1>1, <2>1, <2>2 DEF BuddyInv, BlocksPartitionClaimed
  <2> QED BY <2>3
<1>4. ASSUME NEW j \in order .. o - 1, j # k PROVE h(j) # h(k)
  <2>1. Frames(<<h(j), j>>) \cap Frames(<<h(k), k>>) = {}
    <3>1. \A i, m \in order .. o - 1 : i # m =>
            Frames(<<p + BlockFrames[i], i>>) \cap Frames(<<p + BlockFrames[m], m>>) = {}
      BY <1>1, SplitCover
    <3> QED BY <1>4, <3>1
  <2>2. h(j) \in Frames(<<h(j), j>>) /\ h(k) \in Frames(<<h(k), k>>)
    BY <1>2
  <2> HIDE DEF h
  <2> QED BY <2>1, <2>2
<1> QED BY <1>2, <1>3, <1>4

\* Splitting a free block on the links leaves what it leaves on the sets.
LEMMA SplitLinked ==
  ASSUME BuddyInv, NEW L, Linked(L, free_list), NEW order \in Orders, NEW o \in Orders, order <= o,
         NEW p \in free_list[o]
  PROVE  Linked(Split(L, p, order, o),
                [a \in Orders |-> (free_list[a] \ (IF a = o THEN {p} ELSE {}))
                                     \cup UpperHalf(p, order, o, a)])
<1> DEFINE fl(k) == [a \in Orders |-> (free_list[a] \ (IF a = o THEN {p} ELSE {}))
                                         \cup UpperHalf(p, k, o, a)]
           first == list_remove(L, o, p)
           Step(h) == [k \in order .. o |-> IF k = o THEN first
                                            ELSE list_push(h[k + 1], k, p + BlockFrames[k])]
           f == CHOOSE h : h = Step(h)
           n == o - order
<1>1. Split(L, p, order, o) = f[order]
  BY DEF Split
<1>2. order \in Nat /\ o \in Nat /\ n \in Nat /\ order = o - n
  BY BlockSizes
<1> HIDE DEF n, first
<1>3. \E h : h = Step(h)
  <2> DEFINE Is(h, k) == h = [j \in k .. o |-> IF j = o THEN first
                                              ELSE list_push(h[j + 1], j, p + BlockFrames[j])]
             T == {i \in 0 .. n : \E h : Is(h, o - i)}
  <2>1. 0 \in T
    <3>1. Is([j \in o .. o |-> first], o)
      BY <1>2
    <3>2. o - 0 = o /\ 0 \in 0 .. n
      BY <1>2
    <3> HIDE DEF Is
    <3> QED BY <3>1, <3>2
  <2>2. ASSUME NEW i \in 0 .. n - 1, i \in T PROVE i + 1 \in T
    <3>1. PICK g : Is(g, o - i)
      BY <2>2
    <3> DEFINE k == o - (i + 1)
               h == [j \in k .. o |-> IF j = k THEN list_push(g[j + 1], j, p + BlockFrames[j]) ELSE g[j]]
    <3>2. k \in Int /\ k # o /\ k <= o /\ o - i = k + 1 /\ i + 1 \in 0 .. n
      BY <1>2
    <3> HIDE DEF k
    <3>3. \A j \in k + 1 .. o : g[j] = IF j = o THEN first ELSE list_push(g[j + 1], j, p + BlockFrames[j])
      BY <3>1, <3>2
    <3>4. \A j \in k + 1 .. o : h[j] = g[j]
      BY <3>2
    <3>5. ASSUME NEW j \in k .. o
          PROVE  h[j] = IF j = o THEN first ELSE list_push(h[j + 1], j, p + BlockFrames[j])
      <4>1. j = o \/ j + 1 \in k + 1 .. o
        BY <1>2, <3>2
      <4>2. CASE j = k
        <5>1. h[j] = list_push(g[j + 1], j, p + BlockFrames[j])
          BY <3>2, <4>2
        <5> QED BY <3>2, <3>4, <4>1, <4>2, <5>1
      <4>3. CASE j # k
        <5>1. j \in k + 1 .. o
          BY <1>2, <3>2, <4>3
        <5> QED BY <3>3, <3>4, <4>1, <5>1
      <4> QED BY <4>2, <4>3
    <3>6. h = [j \in k .. o |-> h[j]]
      OBVIOUS
    <3> HIDE DEF h
    <3>7. Is(h, k)
      BY <3>5, <3>6
    <3> HIDE DEF Is
    <3> QED BY <3>2, <3>7 DEF k
  <2> HIDE DEF T
  <2>3. 0 \in Int /\ n \in Int
    BY <1>2
  <2>4. 0 .. n \subseteq T
    BY <2>1, <2>2, <2>3, CountUp, Zenon
  <2>5. n \in T
    BY <1>2, <2>4
  <2>6. PICK h : Is(h, order)
    BY <1>2, <2>5 DEF T
  <2> QED BY <2>6
<1>4. f = Step(f)
  <2> HIDE DEF Step
  <2> QED BY <1>3
<1> HIDE DEF f
<1>5. /\ f[o] = first
      /\ \A k \in order .. o - 1 : f[k] = list_push(f[k + 1], k, p + BlockFrames[k])
  <2>1. o \in order .. o /\ \A k \in order .. o - 1 : k \in order .. o /\ k # o
    BY <1>2
  <2> QED BY <1>4, <2>1
<1> HIDE DEF fl
<1> DEFINE T == {i \in 0 .. n : Linked(f[o - i], fl(o - i))}
<1>6. 0 \in T
  <2>1. o - 0 = o /\ 0 \in 0 .. n
    BY <1>2
  <2>2. fl(o) = [free_list EXCEPT ![o] = @ \ {p}]
    <3>1. \A a \in Orders : UpperHalf(p, o, o, a) = {}
      BY <1>2, BlockSizes DEF UpperHalf
    <3>2. free_list = [a \in Orders |-> free_list[a]]
      BY DEF BuddyInv, BuddyTypeOK
    <3> QED BY <3>1, <3>2 DEF fl
  <2>3. Linked(first, fl(o))
    <3>1. Linked(list_remove(L, o, p), [free_list EXCEPT ![o] = @ \ {p}])
      BY RemoveLinked, Zenon
    <3> QED BY <2>2, <3>1 DEF first
  <2> QED BY <1>5, <2>1, <2>3
<1>7. ASSUME NEW i \in 0 .. n - 1, i \in T PROVE i + 1 \in T
  <2> DEFINE k == o - (i + 1)
             x == p + BlockFrames[k]
  <2>1. k \in order .. o - 1 /\ o - i = k + 1 /\ i + 1 \in 0 .. n /\ k \in Nat
    BY <1>2
  <2>2. k \in Orders
    BY <1>2, <2>1, BuddyAssumption DEF Orders
  <2> HIDE DEF k
  <2>3. Linked(f[k + 1], fl(k + 1)) /\ f[k] = list_push(f[k + 1], k, x)
    BY <1>5, <1>7, <2>1
  <2>4. /\ x \in Nat \ {NULL} /\ x # p
        /\ \A a \in Orders : x \notin free_list[a] \/ (a = o /\ x = p)
        /\ \A j \in order .. o - 1 : j # k => p + BlockFrames[j] # x
    BY <2>1, HalvesFresh
  <2> HIDE DEF x
  <2>5. \A a \in Orders : x \notin fl(k + 1)[a]
    <3> SUFFICES ASSUME NEW a \in Orders PROVE x \notin fl(k + 1)[a]
      OBVIOUS
    <3>1. x \notin free_list[a]
      BY <2>4
    <3>2. x \notin UpperHalf(p, k + 1, o, a)
      <4>1. a \in Nat
        BY BlockSizes
      <4>2. CASE k + 1 <= a /\ a < o
        <5>1. a \in order .. o - 1 /\ a # k
          BY <1>2, <2>1, <4>1, <4>2
        <5> QED BY <2>4, <4>2, <5>1 DEF UpperHalf
      <4>3. CASE ~(k + 1 <= a /\ a < o)
        BY <4>3 DEF UpperHalf
      <4> QED BY <4>2, <4>3
    <3> QED BY <3>1, <3>2 DEF fl
  <2>6. x \notin DOMAIN f[k + 1].node
    BY <2>3, <2>5 DEF Linked
  <2>7. fl(k) = [fl(k + 1) EXCEPT ![k] = @ \cup {x}]
    <3>1. ASSUME NEW a \in Orders
          PROVE  UpperHalf(p, k, o, a) = UpperHalf(p, k + 1, o, a) \cup (IF a = k THEN {x} ELSE {})
      <4>1. a \in Nat
        BY BlockSizes
      <4>2. CASE a = k
        <5>1. k <= a /\ a < o /\ ~(k + 1 <= a)
          BY <1>2, <2>1, <4>2
        <5> QED BY <4>2, <5>1 DEF UpperHalf, x
      <4>3. CASE a # k
        <5>1. k <= a <=> k + 1 <= a
          BY <2>1, <4>1, <4>3
        <5> QED BY <4>3, <5>1 DEF UpperHalf
      <4> QED BY <4>2, <4>3
    <3>2. \A a \in Orders : fl(k)[a] = IF a = k THEN fl(k + 1)[a] \cup {x} ELSE fl(k + 1)[a]
      BY <3>1 DEF fl
    <3>3. /\ fl(k) = [a \in Orders |-> fl(k)[a]] /\ fl(k + 1) = [a \in Orders |-> fl(k + 1)[a]]
      BY DEF fl
    <3> QED BY <2>2, <3>2, <3>3
  <2>8. Linked(f[k], fl(k))
    BY <2>2, <2>3, <2>4, <2>6, <2>7, PushLinked
  <2> QED BY <2>1, <2>8 DEF k
<1> HIDE DEF T
<1>8. 0 \in Int /\ n \in Int
  BY <1>2
<1>9. 0 .. n \subseteq T
  BY <1>6, <1>7, <1>8, CountUp, Zenon
<1>10. Linked(f[order], fl(order))
  <2>1. n \in T
    BY <1>2, <1>9
  <2> QED BY <1>2, <2>1 DEF T
<1> QED BY <1>1, <1>10 DEF fl

\* What merging p up to order m has taken off the lists.
MergedLists(p, order, m) ==
  [a \in Orders |-> free_list[a] \ (IF order <= a /\ a < m THEN {MergeBuddy(p, order, a)} ELSE {})]

\* Merging on the links stops where it does on the sets, and leaves the same blocks.
LEMMA MergeLinked ==
  ASSUME NEW L, Linked(L, free_list), NEW p \in Nat, NEW order \in Orders, Aligned(p, order),
         NEW stop \in Orders, order <= stop,
         \A k \in order .. stop - 1 : MergeBuddy(p, order, k) \in free_list[k],
         stop = BUDDY_MAX_ORDER \/ MergeBuddy(p, order, stop) \notin free_list[stop]
  PROVE  /\ Linked(Merge(L, p, order).lists, MergedLists(p, order, stop))
         /\ Merge(L, p, order).order = stop /\ Merge(L, p, order).phys = Floor(p, stop)
<1> DEFINE top == BUDDY_MAX_ORDER
           first == [lists |-> L, phys |-> p, order |-> order, open |-> TRUE]
           Turn(s, k) == IF s.open /\ list_find(s.lists, k - 1, BuddyOf(s.phys, k - 1))
                         THEN [lists |-> list_remove(s.lists, k - 1, BuddyOf(s.phys, k - 1)),
                               phys |-> Min({BuddyOf(s.phys, k - 1), s.phys}), order |-> k, open |-> TRUE]
                         ELSE [s EXCEPT !.open = FALSE]
           Step(h) == [k \in order .. top |-> IF k = order THEN first ELSE Turn(h[k - 1], k)]
           f == CHOOSE h : h = Step(h)
<1>1. Merge(L, p, order) = f[top]
  BY DEF Merge
<1>2. order \in Nat /\ stop \in Nat /\ top \in Nat /\ order <= top /\ stop <= top
  BY BuddyAssumption DEF Orders
<1> HIDE DEF first, Turn, top
<1>3. \E h : h = Step(h)
  <2> DEFINE Is(h, k) == h = [j \in order .. k |-> IF j = order THEN first ELSE Turn(h[j - 1], j)]
             T == {k \in order .. top : \E h : Is(h, k)}
  <2>1. order \in T
    <3>1. Is([j \in order .. order |-> first], order)
      BY <1>2
    <3>2. order \in order .. top
      BY <1>2
    <3> HIDE DEF Is
    <3> QED BY <3>1, <3>2
  <2>2. ASSUME NEW k \in order .. top - 1, k \in T PROVE k + 1 \in T
    <3>1. PICK g : Is(g, k)
      BY <2>2
    <3> DEFINE h == [j \in order .. k + 1 |-> IF j = k + 1 THEN Turn(g[k], j) ELSE g[j]]
    <3>2. k \in Nat /\ k + 1 \in order .. top /\ k + 1 # order
      BY <1>2
    <3>3. \A j \in order .. k : g[j] = IF j = order THEN first ELSE Turn(g[j - 1], j)
      BY <3>1
    <3>4. h[k + 1] = Turn(g[k], k + 1) /\ \A j \in order .. k : h[j] = g[j]
      BY <1>2, <3>2
    <3>5. ASSUME NEW j \in order .. k + 1
          PROVE  h[j] = IF j = order THEN first ELSE Turn(h[j - 1], j)
      <4> HIDE DEF h
      <4>1. CASE j = k + 1
        <5>1. j - 1 = k /\ k \in order .. k
          BY <1>2, <3>2, <4>1
        <5> QED BY <3>2, <3>4, <4>1, <5>1
      <4>2. CASE j # k + 1
        <5>1. j \in order .. k /\ (j # order => j - 1 \in order .. k)
          BY <1>2, <3>2, <4>2
        <5> QED BY <3>3, <3>4, <5>1
      <4> QED BY <4>1, <4>2
    <3>6. h = [j \in order .. k + 1 |-> h[j]]
      OBVIOUS
    <3> HIDE DEF h
    <3>7. Is(h, k + 1)
      BY <3>5, <3>6
    <3> HIDE DEF Is
    <3> QED BY <3>2, <3>7
  <2> HIDE DEF T
  <2>3. order \in Int /\ top \in Int
    BY <1>2
  <2>4. order .. top \subseteq T
    BY <2>1, <2>2, <2>3, CountUp, Zenon
  <2>5. top \in T
    BY <1>2, <2>4
  <2>6. PICK h : Is(h, top)
    BY <2>5 DEF T
  <2> QED BY <2>6
<1>4. f = Step(f)
  <2> HIDE DEF Step
  <2> QED BY <1>3
<1> HIDE DEF f
<1>5. /\ f[order] = first
      /\ \A k \in order .. top - 1 : f[k + 1] = Turn(f[k], k + 1)
  <2>1. /\ order \in order .. top
        /\ \A k \in order .. top - 1 : k + 1 \in order .. top /\ k + 1 # order /\ (k + 1) - 1 = k
    BY <1>2
  <2> QED BY <1>4, <2>1
<1> DEFINE m(k) == IF k <= stop THEN k ELSE stop
           State(M, k) == [lists |-> M, phys |-> Floor(p, m(k)), order |-> m(k), open |-> k <= stop]
           Good(k) == \E M : Linked(M, MergedLists(p, order, m(k))) /\ f[k] = State(M, k)
           T == {k \in order .. top : Good(k)}
<1>6. order \in T
  <2>1. order \in order .. top /\ m(order) = order /\ order <= stop
    BY <1>2
  <2>2. MergedLists(p, order, order) = free_list
    <3>1. \A a \in Orders : ~(order <= a /\ a < order)
      BY <1>2, BlockSizes
    <3>2. free_list = [a \in Orders |-> free_list[a]]
      BY DEF Linked
    <3> QED BY <3>1, <3>2 DEF MergedLists
  <2>3. Floor(p, order) = p
    BY FloorOfAligned
  <2>4. f[order] = State(L, order)
    BY <1>5, <2>1, <2>3 DEF first
  <2> HIDE DEF State, m
  <2>5. Good(order)
    BY <2>1, <2>2, <2>4
  <2> QED BY <2>1, <2>5
<1>7. ASSUME NEW k \in order .. top - 1, k \in T PROVE k + 1 \in T
  <2>1. /\ k \in Nat /\ k \in Orders \ {BUDDY_MAX_ORDER} /\ k + 1 \in order .. top /\ order <= k
        /\ (k + 1) - 1 = k /\ k + 1 \in Orders
    BY <1>2, BuddyAssumption DEF Orders, top
  <2>2. PICK M : Linked(M, MergedLists(p, order, m(k))) /\ f[k] = State(M, k)
    BY <1>7
  <2>3. f[k + 1] = Turn(f[k], k + 1)
    BY <1>5
  <2>4. CASE k > stop
    <3>1. m(k) = stop /\ m(k + 1) = stop /\ ~(k <= stop) /\ ~(k + 1 <= stop)
      BY <1>2, <2>1, <2>4
    <3> DEFINE over == [lists |-> M, phys |-> Floor(p, stop), order |-> stop, open |-> FALSE]
    <3>2. f[k] = over
      <4>1. (k <= stop) = FALSE
        BY <3>1
      <4>2. f[k] = State(M, k)
        BY <2>2
      <4> QED BY <3>1, <4>1, <4>2, Zenon
    <3>2a. f[k + 1] = [over EXCEPT !.open = FALSE]
      <4>1. ~over.open
        OBVIOUS
      <4> HIDE DEF over
      <4> QED BY <2>3, <3>2, <4>1 DEF Turn
    <3>2b. f[k + 1] = over
      BY <3>2a
    <3>3. f[k + 1] = State(M, k + 1)
      <4>1. (k + 1 <= stop) = FALSE
        BY <3>1
      <4> QED BY <3>1, <3>2b, <4>1, Zenon
    <3> HIDE DEF State, m
    <3>4. Good(k + 1)
      BY <2>2, <3>1, <3>3
    <3> QED BY <2>1, <3>4
  <2>5. CASE k <= stop
    <3> DEFINE x == Floor(p, k)
               b == BuddyOf(x, k)
    <3>1. m(k) = k
      BY <2>5
    <3>2. f[k] = [lists |-> M, phys |-> x, order |-> k, open |-> TRUE]
      BY <2>2, <2>5, <3>1
    <3>3. x \in Nat /\ Aligned(x, k) /\ b = MergeBuddy(p, order, k)
      BY <2>1, FloorFacts, MergeStep
    <3>4. b \in Nat /\ Floor(x, k + 1) = IF b < x THEN b ELSE x
      BY <2>1, <3>3, BuddyHalves
    <3>5. Floor(x, k + 1) = Floor(p, k + 1)
      <4>1. k <= k + 1
        BY <2>1
      <4> QED BY <2>1, <4>1, FloorOfFloor
    <3>6. Min({b, x}) = Floor(p, k + 1)
      <4> HIDE DEF b, x
      <4>1. {b, x} \in SUBSET Nat /\ {b, x} # {}
        BY <3>3, <3>4
      <4>2. Min({b, x}) \in {b, x} /\ Min({b, x}) <= b /\ Min({b, x}) <= x
        BY <4>1, MinNat
      <4> QED BY <3>3, <3>4, <3>5, <4>2
    <3>7. list_find(M, k, b) <=> b \in free_list[k]
      <4>1. list_find(M, k, b) <=> b \in MergedLists(p, order, k)[k]
        <5>1. Linked(M, MergedLists(p, order, k))
          BY <2>2, <3>1
        <5> HIDE DEF b
        <5> QED BY <2>1, <5>1, FindIs
      <4>2. MergedLists(p, order, k)[k] = free_list[k]
        BY <2>1 DEF MergedLists
      <4> QED BY <4>1, <4>2
    <3> HIDE DEF b, x
    <3>8. f[k + 1] = IF b \in free_list[k]
                     THEN [lists |-> list_remove(M, k, b), phys |-> Floor(p, k + 1), order |-> k + 1,
                           open |-> TRUE]
                     ELSE [f[k] EXCEPT !.open = FALSE]
      <4>1. /\ f[k].open = TRUE /\ f[k].lists = M /\ BuddyOf(f[k].phys, (k + 1) - 1) = b
            /\ f[k].phys = x
        BY <2>1, <3>2 DEF b
      <4>2. f[k + 1] = IF f[k].open /\ list_find(f[k].lists, k, b)
                       THEN [lists |-> list_remove(f[k].lists, k, b),
                             phys |-> Min({b, f[k].phys}), order |-> k + 1, open |-> TRUE]
                       ELSE [f[k] EXCEPT !.open = FALSE]
        BY <2>1, <2>3, <4>1 DEF Turn
      <4> QED BY <3>6, <3>7, <4>1, <4>2
    <3>9. CASE k < stop
      <4>1. k \in order .. stop - 1 /\ k + 1 <= stop /\ m(k + 1) = k + 1
        BY <1>2, <2>1, <3>9
      <4>2. b \in free_list[k]
        BY <3>3, <4>1
      <4>3. f[k + 1] = State(list_remove(M, k, b), k + 1)
        BY <3>8, <4>1, <4>2
      <4>4. Linked(list_remove(M, k, b), MergedLists(p, order, k + 1))
        <5>1. Linked(M, MergedLists(p, order, k)) /\ b \in MergedLists(p, order, k)[k]
          <6>1. MergedLists(p, order, k)[k] = free_list[k]
            BY <2>1 DEF MergedLists
          <6> QED BY <2>2, <3>1, <4>2, <6>1
        <5>2. Linked(list_remove(M, k, b), [MergedLists(p, order, k) EXCEPT ![k] = @ \ {b}])
          BY <2>1, <5>1, RemoveLinked
        <5>3. MergedLists(p, order, k + 1) = [MergedLists(p, order, k) EXCEPT ![k] = @ \ {b}]
          <6>1. ASSUME NEW a \in Orders
                PROVE  MergedLists(p, order, k + 1)[a]
                         = IF a = k THEN MergedLists(p, order, k)[a] \ {b} ELSE MergedLists(p, order, k)[a]
            <7>1. a \in Nat
              BY BlockSizes
            <7>2. CASE a = k
              <8>1. order <= a /\ a < k + 1 /\ ~(a < k)
                BY <2>1, <7>2
              <8> QED BY <3>3, <7>2, <8>1 DEF MergedLists
            <7>3. CASE a # k
              <8>1. a < k + 1 <=> a < k
                BY <2>1, <7>1, <7>3
              <8> QED BY <7>3, <8>1 DEF MergedLists
            <7> QED BY <7>2, <7>3
          <6>2. /\ MergedLists(p, order, k + 1) = [a \in Orders |-> MergedLists(p, order, k + 1)[a]]
                /\ MergedLists(p, order, k) = [a \in Orders |-> MergedLists(p, order, k)[a]]
            BY DEF MergedLists
          <6> QED BY <2>1, <6>1, <6>2
        <5> QED BY <5>2, <5>3
      <4> HIDE DEF State, m
      <4>5. Good(k + 1)
        BY <4>1, <4>3, <4>4
      <4> QED BY <2>1, <4>5
    <3>10. CASE k = stop
      <4>1. b \notin free_list[k]
        BY <2>1, <3>3, <3>10
      <4>2. m(k + 1) = stop /\ ~(k + 1 <= stop) /\ m(k) = stop
        BY <1>2, <3>10
      <4>3. f[k + 1] = State(M, k + 1)
        <5>1. f[k + 1] = [f[k] EXCEPT !.open = FALSE]
          BY <3>8, <4>1
        <5>2. f[k + 1] = [lists |-> M, phys |-> x, order |-> k, open |-> FALSE]
          <6> DEFINE e == FALSE
                     d == TRUE
          <6>1. f[k] = [lists |-> M, phys |-> x, order |-> k, open |-> d]
            BY <3>2
          <6>2. f[k + 1] = [f[k] EXCEPT !.open = e]
            BY <5>1
          <6> HIDE DEF d, e
          <6>3. f[k + 1] = [lists |-> M, phys |-> x, order |-> k, open |-> e]
            BY <6>1, <6>2
          <6> QED BY <6>3, Zenon DEF e
        <5>3. x = Floor(p, stop) /\ k = stop
          BY <3>10 DEF x
        <5>4. (k + 1 <= stop) = FALSE
          BY <4>2
        <5>5. f[k + 1] = [lists |-> M, phys |-> Floor(p, stop), order |-> stop, open |-> FALSE]
          BY <5>2, <5>3, Zenon
        <5> QED BY <4>2, <5>4, <5>5, Zenon
      <4> HIDE DEF State, m
      <4>4. Good(k + 1)
        BY <2>2, <4>2, <4>3
      <4> QED BY <2>1, <4>4
    <3>11. k < stop \/ k = stop
      BY <1>2, <2>1, <2>5
    <3> HIDE DEF T
    <3> QED BY <3>9, <3>10, <3>11
  <2>6. k <= stop \/ k > stop
    BY <1>2, <2>1
  <2> HIDE DEF T
  <2> QED BY <2>4, <2>5, <2>6
<1> HIDE DEF T
<1>8. order \in Int /\ top \in Int
  BY <1>2
<1>9. order .. top \subseteq T
  BY <1>6, <1>7, <1>8, CountUp, Zenon
<1>10. Good(top)
  <2>1. top \in T
    BY <1>2, <1>9
  <2> QED BY <2>1 DEF T
<1>11. m(top) = stop
  BY <1>2
<1>12. PICK M : Linked(M, MergedLists(p, order, m(top))) /\ f[top] = State(M, top)
  BY <1>10
<1>13. f[top].lists = M /\ f[top].phys = Floor(p, stop) /\ f[top].order = stop
  BY <1>11, <1>12
<1> QED BY <1>1, <1>11, <1>12, <1>13

-----------------------------------------------------------------------------
\* Steps on the links

\* The links hold what Buddy's sets say.
ListInv == Linked(lists, free_list)

\* The same heads and nodes.
LEMMA LinkedSame ==
  ASSUME NEW L, NEW M, NEW fl, Linked(L, fl), M.head = L.head, DOMAIN M.node = DOMAIN L.node,
         \A x \in DOMAIN L.node : M.node[x] = L.node[x]
  PROVE  Linked(M, fl)
<1>1. ASSUME NEW a \in Orders PROVE Listed(M.head[a], M.node, fl[a])
  <2>1. fl[a] \subseteq DOMAIN L.node /\ Listed(L.head[a], L.node, fl[a])
    BY DEF Linked
  <2>2. \A x \in fl[a] : M.node[x].next = L.node[x].next /\ M.node[x].prev = L.node[x].prev
    BY <2>1
  <2>3. Listed(L.head[a], M.node, fl[a])
    BY <2>1, <2>2, SameList, Zenon
  <2> QED BY <2>3
<1> QED BY <1>1 DEF Linked

\* No list has a node.
LEMMA EmptyLinked ==
  ASSUME NEW L, L.head = [o \in Orders |-> NULL], DOMAIN L.node = {}
  PROVE  Linked(L, [o \in Orders |-> {}])
<1> DEFINE fl == [o \in Orders |-> {}]
<1>1. Listed(NULL, L.node, {})
  <2> DEFINE c == [k \in 1 .. 0 |-> k]
  <2>1. c \in [1 .. 0 -> {}] /\ \A k \in 1 .. 0 : FALSE
    OBVIOUS
  <2> HIDE DEF c
  <2>2. IsList(NULL, L.node, {}, 0, c)
    BY <2>1 DEF IsList
  <2> QED BY <2>2 DEF Listed
<1>2. IsFiniteSet(DOMAIN L.node)
  BY FS_EmptySet
<1>3. \A a \in Orders : fl[a] = {} /\ L.head[a] = NULL
  OBVIOUS
<1>4. L.head \in [Orders -> Int] /\ fl \in [Orders -> SUBSET (Nat \ {NULL})]
  BY DEF NULL
<1>5. UNION {fl[a] : a \in Orders} = {}
  OBVIOUS
<1>6. ASSUME NEW a \in Orders PROVE Listed(L.head[a], L.node, fl[a])
  BY <1>1, <1>3
<1> HIDE DEF fl
<1>7. Linked(L, fl)
  BY <1>2, <1>3, <1>4, <1>5, <1>6 DEF Linked
<1> QED BY <1>7 DEF fl

\* Nothing is linked at first.
LEMMA ListInitInv == ListInit => ListInv
<1> SUFFICES ASSUME ListInit PROVE ListInv
  OBVIOUS
<1>1. /\ lists.head = [o \in Orders |-> NULL] /\ lists.node = << >>
      /\ free_list = [o \in Orders |-> {}]
  BY DEF ListInit, Init, lists
<1>2. DOMAIN lists.node = {}
  BY <1>1
<1>3. Linked(lists, [o \in Orders |-> {}])
  BY <1>1, <1>2, EmptyLinked
<1> QED BY <1>1, <1>3 DEF ListInv

\* buddy_init clears the heads, and no block is free yet.
LEMMA ListBeginInv ==
  ASSUME BuddyInv, ListInv, list_init
  PROVE  ListInv'
<1>1. /\ free_list = [o \in Orders |-> {}] /\ free_list' = [o \in Orders |-> {}]
      /\ head' = [o \in Orders |-> NULL] /\ node' = node
  BY DEF list_init, buddy_init_begin, BuddyInv, IdleInv
<1>2. DOMAIN node = {}
  <2>1. DOMAIN lists.node = UNION {free_list[a] : a \in Orders}
    BY DEF ListInv, Linked
  <2>2. \A a \in Orders : free_list[a] = {}
    BY <1>1
  <2>3. DOMAIN lists.node = {}
    BY <2>1, <2>2
  <2> QED BY <2>3 DEF lists
<1>3. lists'.head = [o \in Orders |-> NULL] /\ DOMAIN lists'.node = {}
  BY <1>1, <1>2 DEF lists
<1>4. Linked(lists', [o \in Orders |-> {}])
  BY <1>3, EmptyLinked
<1> QED BY <1>1, <1>4 DEF ListInv

\* seed_run pushes a block whose frames no list has.
LEMMA ListSeedInv ==
  ASSUME BuddyInv, ListInv, list_seed
  PROVE  ListInv'
<1> DEFINE so == SeedOrder
           left == list_push(lists, so, run_start)
<1>1. /\ ~RunEmpty /\ free_list' = [free_list EXCEPT ![so] = @ \cup {run_start}]
      /\ head' = left.head /\ node' = left.node
  BY DEF list_seed, buddy_init_seed
<1>2. so \in Orders
  BY <1>1, SeedOrderFacts
<1> HIDE DEF so
<1>3. run_start \in Nat /\ run_start \in Run
  BY <1>1 DEF BuddyInv, BuddyTypeOK, RunEmpty, Run
<1>4. run_start \in claimed /\ run_start \notin Covered(Blocks)
  BY <1>3 DEF BuddyInv, BlocksPartitionClaimed
<1>5. run_start # NULL
  BY <1>4, BlocksClaimed
<1>6. ASSUME NEW a \in Orders PROVE run_start \notin free_list[a]
  <2>1. \A x \in free_list[a] : <<x, a>> \in Blocks /\ x \in Frames(<<x, a>>)
    BY BlocksClaimed
  <2> QED BY <1>4, <2>1 DEF Covered
<1>7. run_start \notin DOMAIN lists.node
  BY <1>6 DEF ListInv, Linked
<1>8. Linked(left, free_list')
  BY <1>1, <1>2, <1>3, <1>5, <1>7, PushLinked DEF ListInv
<1>9. lists'.head = left.head /\ lists'.node = left.node
  BY <1>1 DEF lists
<1> HIDE DEF left
<1>10. Linked(lists', free_list')
  BY <1>8, <1>9, LinkedSame, Zenon
<1> QED BY <1>10 DEF ListInv

\* buddy_alloc pops the first block of the smallest order that has one and pushes the
\* halves; the block it returns has no node in it.
LEMMA ListAllocInv ==
  ASSUME BuddyInv, ListInv, NEW order \in Orders, list_alloc(order)
  PROVE  ListInv'
<1>1. \A k \in Orders : head[k] # NULL <=> free_list[k] # {}
  <2> SUFFICES ASSUME NEW k \in Orders PROVE head[k] # NULL <=> free_list[k] # {}
    OBVIOUS
  <2>1. PICK n, c : IsList(head[k], node, free_list[k], n, c)
    BY DEF ListInv, Linked, Listed, lists
  <2>2. NULL \notin free_list[k]
    BY BlocksClaimed
  <2>3. n \in Nat /\ c \in [1 .. n -> free_list[k]] /\ (\A x \in free_list[k] : \E j \in 1 .. n : c[j] = x)
        /\ head[k] = IF n = 0 THEN NULL ELSE c[1]
    BY <2>1 DEF IsList
  <2> QED BY <2>2, <2>3
<1>2. {k \in Orders : k >= order /\ head[k] # NULL} = Candidates(order)
  BY <1>1 DEF Candidates
<1> DEFINE o == Min(Candidates(order))
           p == head[o]
           left == Split(lists, p, order, o)
           fl == [k \in Orders |-> (free_list[k] \ (IF k = o THEN {p} ELSE {})) \cup UpperHalf(p, order, o, k)]
<1>3. /\ buddy_alloc(order, p) /\ head' = left.head
      /\ node' = Without(left.node, Frames(<<p, order>>))
  BY <1>2 DEF list_alloc
<1>4. Candidates(order) # {} /\ p \in free_list[o] /\ free_list' = fl
  BY <1>3 DEF buddy_alloc
<1>5. o \in Orders /\ order <= o
  <2>1. Candidates(order) \in SUBSET Nat
    BY BlockSizes DEF Candidates
  <2>2. o \in Candidates(order)
    BY <1>4, <2>1, MinNat
  <2>3. o \in Orders /\ o >= order
    BY <2>2 DEF Candidates
  <2> HIDE DEF o
  <2> QED BY <2>3, BlockSizes
<1> HIDE DEF o, p
<1>6. Linked(left, fl)
  BY <1>4, <1>5, SplitLinked DEF ListInv
<1>7. p \in Nat /\ Aligned(p, o) /\ <<p, o>> \in Blocks
  BY <1>4, <1>5, BlocksClaimed
<1>8. ASSUME NEW a \in Orders, NEW x \in fl[a] PROVE x \notin Frames(<<p, order>>)
  <2>1. CASE x \in free_list[a] /\ ~(a = o /\ x = p)
    <3>1. <<x, a>> \in Blocks /\ x \in Frames(<<x, a>>) /\ <<x, a>> # <<p, o>>
      BY <2>1, BlocksClaimed
    <3>2. x \notin Frames(<<p, o>>)
      BY <1>7, <3>1 DEF BuddyInv, BlocksPartitionClaimed
    <3>3. \A f : f \in Frames(<<p, order>>) => f \in Frames(<<p, o>>)
      BY <1>5, <1>7, SplitCover
    <3> QED BY <3>2, <3>3
  <2>2. CASE x \in UpperHalf(p, order, o, a)
    <3>1. x = p + BlockFrames[a] /\ order <= a /\ a < o
      BY <2>2 DEF UpperHalf
    <3>2. a \in order .. o - 1
      BY <1>5, <3>1, BlockSizes
    <3>3. Frames(<<p, order>>) \cap Frames(<<p + BlockFrames[a], a>>) = {}
      BY <1>5, <1>7, <3>2, SplitCover
    <3>4. x \in Nat /\ Aligned(x, a)
      BY <1>5, <1>7, <3>1, SplitStep
    <3>5. x \in Frames(<<x, a>>)
      BY <3>4, FloorOfAligned
    <3> QED BY <3>1, <3>3, <3>5
  <2> QED BY <1>8, <2>1, <2>2
<1>9. DOMAIN left.node \cap Frames(<<p, order>>) = {}
  <2>1. DOMAIN left.node = UNION {fl[a] : a \in Orders}
    BY <1>6 DEF Linked
  <2> HIDE DEF left, fl
  <2> QED BY <1>8, <2>1
<1>10. lists'.head = left.head /\ lists'.node = Without(left.node, Frames(<<p, order>>))
  BY <1>3 DEF lists
<1> HIDE DEF left, fl
<1>11. DOMAIN lists'.node = DOMAIN left.node /\ \A x \in DOMAIN left.node : lists'.node[x] = left.node[x]
  BY <1>9, <1>10 DEF Without
<1>12. Linked(lists', fl)
  BY <1>6, <1>10, <1>11, LinkedSame, Zenon
<1> QED BY <1>4, <1>12 DEF ListInv

\* buddy_free takes every buddy it merges with out of its list and pushes the result.
LEMMA ListFreeInv ==
  ASSUME BuddyInv, ListInv, NEW p, NEW order, list_free(p, order)
  PROVE  ListInv'
<1>1. PICK stop \in Orders : Merged(p, order, stop)
  BY FreeMerged DEF list_free
<1>2. /\ <<p, order>> \in allocated /\ order <= stop
      /\ \A k \in order .. stop - 1 : MergeBuddy(p, order, k) \in free_list[k]
      /\ stop = BUDDY_MAX_ORDER \/ MergeBuddy(p, order, stop) \notin free_list[stop]
  BY <1>1 DEF Merged
<1>3. free_list' = [k \in Orders |->
                     (free_list[k] \ (IF order <= k /\ k < stop
                                      THEN {MergeBuddy(p, order, k)} ELSE {}))
                       \cup (IF k = stop THEN {MergedBase(p, order, k)} ELSE {})]
  BY <1>1 DEF Merged
<1>4. <<p, order>> \in Blocks /\ p \in Nat /\ order \in Orders /\ Aligned(p, order)
  BY <1>2, BlocksTile DEF Blocks
<1> DEFINE m == Merge(lists, p, order)
           x == Floor(p, stop)
           left == list_push(m.lists, m.order, m.phys)
           gl == MergedLists(p, order, stop)
<1>5. Linked(m.lists, gl) /\ m.order = stop /\ m.phys = x
  BY <1>2, <1>4, MergeLinked DEF ListInv
<1>6. lists'.head = left.head /\ lists'.node = left.node
  BY DEF list_free, lists
<1>7. x \in Nat /\ x \in Frames(<<x, stop>>) /\ MergedBase(p, order, stop) = x
  BY <1>2, <1>4, FloorFacts, FloorOfAligned, MergeStep
<1>8. x \in Frames(<<p, order>>) \/ \E j \in order .. stop - 1 : x \in Frames(<<MergeBuddy(p, order, j), j>>)
  BY <1>2, <1>4, <1>7, MergeCover
<1> HIDE DEF m, x, gl
<1>9. \A j \in order .. stop - 1 : j \in Orders /\ j \in Nat
  BY <1>4, BuddyAssumption DEF Orders
<1>10. PICK b \in Blocks : /\ x \in Frames(b)
                           /\ b \in allocated
                              \/ \E j \in order .. stop - 1 : b = <<MergeBuddy(p, order, j), j>>
  <2>1. CASE x \in Frames(<<p, order>>)
    BY <1>2, <1>4, <2>1
  <2>2. ASSUME NEW j \in order .. stop - 1, x \in Frames(<<MergeBuddy(p, order, j), j>>)
        PROVE  <<MergeBuddy(p, order, j), j>> \in Blocks
    BY <1>2, <1>9, BlocksClaimed
  <2> QED BY <1>8, <2>1, <2>2
<1>11. x # NULL
  BY <1>10, BlocksClaimed
<1>12. ASSUME NEW a \in Orders, x \in gl[a] PROVE FALSE
  <2>1. x \in free_list[a] /\ (order <= a /\ a < stop => x # MergeBuddy(p, order, a))
    BY <1>12 DEF gl, MergedLists
  <2>2. <<x, a>> \in Blocks /\ <<x, a>> \in FreeBlocks /\ x \in Frames(<<x, a>>)
    BY <2>1, BlocksClaimed
  <2>3. b = <<x, a>>
    BY <1>10, <2>2 DEF BuddyInv, BlocksPartitionClaimed
  <2>4. b \notin allocated
    BY <2>2, <2>3 DEF BuddyInv, BlocksPartitionClaimed
  <2>5. PICK j \in order .. stop - 1 : b = <<MergeBuddy(p, order, j), j>>
    BY <1>10, <2>4
  <2>6. j = a /\ x = MergeBuddy(p, order, a)
    BY <2>3, <2>5
  <2>7. order <= a /\ a < stop
    BY <1>4, <1>9, <2>5, <2>6, BlockSizes
  <2> QED BY <2>1, <2>6, <2>7
<1>13. x \notin DOMAIN m.lists.node
  BY <1>5, <1>12 DEF Linked
<1>14. Linked(left, [gl EXCEPT ![stop] = @ \cup {x}])
  BY <1>5, <1>7, <1>11, <1>13, PushLinked
<1>15. free_list' = [gl EXCEPT ![stop] = @ \cup {x}]
  <2>1. \A a \in Orders : free_list'[a] = IF a = stop THEN gl[a] \cup {x} ELSE gl[a]
    BY <1>3, <1>7 DEF gl, MergedLists
  <2>2. free_list' = [a \in Orders |-> free_list'[a]] /\ gl = [a \in Orders |-> gl[a]]
    BY <1>3 DEF gl, MergedLists
  <2> QED BY <2>1, <2>2
<1> HIDE DEF left
<1>16. Linked(lists', free_list')
  <2>1. Linked(left, free_list')
    BY <1>14, <1>15
  <2> QED BY <1>6, <2>1, LinkedSame, Zenon
<1> QED BY <1>16 DEF ListInv

\* Every step keeps the links.
LEMMA ListNextInv ==
  ASSUME BuddyInv, ListInv, [ListNext]_listVars
  PROVE  ListInv'
<1>1. ASSUME UNCHANGED <<head, node, free_list>> PROVE ListInv'
  <2>1. lists' = lists /\ free_list' = free_list
    BY <1>1 DEF lists
  <2> QED BY <2>1 DEF ListInv
<1>2. CASE UNCHANGED listVars
  BY <1>1, <1>2 DEF listVars, vars, buddyVars
<1>3. CASE Unlisted
  <2>1. UNCHANGED <<head, node>>
    BY <1>3 DEF Unlisted
  <2>2. UNCHANGED free_list
    BY <1>3 DEF Unlisted, PmmStep, buddy_init_claim, buddy_init_skip, buddy_init_next,
                buddy_alloc_fails, vars, buddyVars
  <2> QED BY <1>1, <2>1, <2>2
<1>4. CASE list_init
  BY <1>4, ListBeginInv
<1>5. CASE list_seed
  BY <1>5, ListSeedInv
<1>6. ASSUME NEW order \in Orders, list_alloc(order) PROVE ListInv'
  BY <1>6, ListAllocInv
<1>7. ASSUME NEW b \in allocated, list_free(b[1], b[2]) PROVE ListInv'
  BY <1>7, ListFreeInv
<1> QED BY <1>2, <1>3, <1>4, <1>5, <1>6, <1>7 DEF ListNext

-----------------------------------------------------------------------------
\* The statistics

\* The frames of the free blocks of one order, and of those up to an order.
LevelFrames(o) == UNION {Frames(<<x, o>>) : x \in free_list[o]}
UpToFrames(o) == UNION {LevelFrames(a) : a \in 0 .. o}

\* The free blocks of one order have as many frames as their count says.
LEMMA LevelCount ==
  ASSUME BuddyInv, NEW o \in Orders
  PROVE  /\ IsFiniteSet(LevelFrames(o)) /\ Cardinality(LevelFrames(o)) = free_count[o] * BlockFrames[o]
         /\ free_count[o] \in Nat /\ LevelFrames(o) \subseteq claimed
<1> DEFINE S == free_list[o]
           s == BlockFrames[o]
           I == 0 .. s - 1
           U == LevelFrames(o)
           f == [y \in S \X I |-> y[1] + y[2]]
<1>1. s \in Nat /\ s > 0 /\ IsFiniteSet(S) /\ free_count[o] = Cardinality(S) /\ Cardinality(S) \in Nat
  BY BlockSizes, FS_CardinalityType DEF BuddyInv, CountInv
<1>2. \A x \in S : x \in Nat /\ <<x, o>> \in Blocks /\ Frames(<<x, o>>) = x .. (x + s) - 1
  <2>1. ASSUME NEW x \in S PROVE x \in Nat /\ <<x, o>> \in Blocks
    BY BlocksClaimed
  <2>2. ASSUME NEW x \in S PROVE Frames(<<x, o>>) = x .. (x + s) - 1
    <3>1. x \in Nat /\ s \in Nat
      BY <1>1, <2>1
    <3>2. x + (s - 1) = (x + s) - 1
      <4> HIDE DEF s
      <4> QED BY <3>1
    <3>3. Frames(<<x, o>>) = x .. x + (s - 1)
      BY DEF Frames
    <3> QED BY <3>2, <3>3, Zenon
  <2> QED BY <2>1, <2>2
<1>3. \A x, y \in S : x # y => Frames(<<x, o>>) \cap Frames(<<y, o>>) = {}
  BY <1>2 DEF BuddyInv, BlocksPartitionClaimed
<1>4. U = UNION {Frames(<<x, o>>) : x \in S}
  BY DEF LevelFrames
<1>5. IsFiniteSet(I) /\ Cardinality(I) = s
  <2>1. Cardinality(I) = IF 0 > s - 1 THEN 0 ELSE ((s - 1) - 0) + 1
    <3>1. 0 \in Int /\ s - 1 \in Int
      BY <1>1
    <3> QED BY <3>1, FS_Interval, SMTT(30)
  <2>2. IsFiniteSet(I)
    BY <1>1, FS_Interval, SMTT(30)
  <2> HIDE DEF I, s
  <2> QED BY <1>1, <2>1, <2>2
<1> HIDE DEF s, S, U
<1>6. f \in Bijection(S \X I, U)
  <2>1. ASSUME NEW x \in S, NEW i \in I PROVE x + i \in Frames(<<x, o>>) /\ x + i \in U
    <3>1. x + i \in x .. (x + s) - 1
      <4>1. x \in Nat
        BY <1>2
      <4>2. i \in Int /\ 0 <= i /\ i <= s - 1 /\ s \in Nat
        BY <1>1
      <4> QED BY <4>1, <4>2
    <3> QED BY <1>2, <1>4, <3>1
  <2>2. f \in [S \X I -> U]
    <3>1. \A y \in S \X I : y[1] \in S /\ y[2] \in I
      OBVIOUS
    <3> HIDE DEF I
    <3> QED BY <2>1, <3>1
  <2>3. ASSUME NEW y \in S \X I, NEW z \in S \X I, f[y] = f[z] PROVE y = z
    <3>1. /\ y[1] \in S /\ y[2] \in I /\ z[1] \in S /\ z[2] \in I /\ y[1] + y[2] = z[1] + z[2]
          /\ y = <<y[1], y[2]>> /\ z = <<z[1], z[2]>>
      BY <2>3
    <3> DEFINE a == y[1]
               i == y[2]
               b == z[1]
               j == z[2]
    <3>1a. a \in S /\ i \in I /\ b \in S /\ j \in I /\ a + i = b + j
      BY <3>1
    <3> HIDE DEF a, b, i, j, f
    <3>2. a = b
      <4>1. a + i \in Frames(<<a, o>>) /\ b + j \in Frames(<<b, o>>)
        BY <2>1, <3>1a
      <4> QED BY <1>3, <3>1a, <4>1
    <3>3. i = j
      <4>1. a \in Nat
        BY <1>2, <3>1a
      <4>2. i \in Int /\ j \in Int
        BY <3>1a
      <4> QED BY <3>1a, <3>2, <4>1, <4>2
    <3>4. y[1] = z[1] /\ y[2] = z[2]
      BY <3>2, <3>3 DEF a, b, i, j
    <3> QED BY <3>1, <3>4
  <2>4. ASSUME NEW u \in U PROVE \E y \in S \X I : f[y] = u
    <3>1. PICK x \in S : u \in Frames(<<x, o>>)
      BY <1>4
    <3>2. x \in Nat /\ u \in x .. (x + s) - 1
      BY <1>2, <3>1
    <3>3. u - x \in I /\ x + (u - x) = u
      BY <1>1, <3>2
    <3>4. <<x, u - x>> \in S \X I
      BY <3>3
    <3>5. f[<<x, u - x>>] = u
      BY <3>3, <3>4
    <3> QED BY <3>4, <3>5
  <2> HIDE DEF f, I
  <2> QED BY <2>2, <2>3, <2>4 DEF Bijection, Injection, Surjection, IsInjective
<1> HIDE DEF I, f
<1>7. IsFiniteSet(S \X I) /\ Cardinality(S \X I) = Cardinality(S) * s
  BY <1>1, <1>5, FS_Product
<1>8. ExistsBijection(S \X I, U)
  BY <1>6 DEF ExistsBijection
<1>9. IsFiniteSet(U) /\ Cardinality(U) = Cardinality(S) * s
  BY <1>7, <1>8, FS_Bijection
<1>10. U \subseteq claimed
  BY <1>2, <1>4, BlocksClaimed
<1> QED BY <1>1, <1>9, <1>10 DEF U, s

\* buddy_get_stats adds up the frames of the free blocks.
LEMMA TotalIs ==
  ASSUME BuddyInv
  PROVE  TotalFree = Cardinality(Covered(FreeBlocks))
<1> DEFINE top == BUDDY_MAX_ORDER
           Add(o) == free_count[o] * BlockFrames[o]
           Step(h) == [o \in Orders |-> (IF o = 0 THEN 0 ELSE h[o - 1]) + Add(o)]
           f == CHOOSE h : h = Step(h)
           w == [o \in Orders |-> Cardinality(UpToFrames(o))]
<1>1. TotalFree = f[top]
  BY DEF TotalFree
<1>2. top \in Nat /\ Orders = 0 .. top /\ 0 \in Orders /\ top \in Orders
  BY BuddyAssumption DEF Orders
<1>3. ASSUME NEW a \in Orders, NEW b \in Orders, a # b PROVE LevelFrames(a) \cap LevelFrames(b) = {}
  <2>1. ASSUME NEW u \in LevelFrames(a) \cap LevelFrames(b) PROVE FALSE
    <3>1. PICK x \in free_list[a] : u \in Frames(<<x, a>>)
      BY <2>1 DEF LevelFrames
    <3>2. PICK y \in free_list[b] : u \in Frames(<<y, b>>)
      BY <2>1 DEF LevelFrames
    <3>3. <<x, a>> \in Blocks /\ <<y, b>> \in Blocks
      BY BlocksClaimed
    <3>4. <<x, a>> # <<y, b>>
      BY <1>3
    <3> QED BY <3>1, <3>2, <3>3, <3>4 DEF BuddyInv, BlocksPartitionClaimed
  <2> QED BY <2>1
<1>4. ASSUME NEW o \in Orders
      PROVE  IsFiniteSet(UpToFrames(o)) /\ Cardinality(UpToFrames(o)) \in Nat
  <2>1. \A a \in 0 .. o : a \in Orders
    BY <1>2
  <2>2. UpToFrames(o) \subseteq claimed
    BY <2>1, LevelCount DEF UpToFrames
  <2>3. IsFiniteSet(claimed)
    <3>1. claimed \subseteq AllFrames /\ PmmTypeOK
      BY DEF BuddyInv, PmmInv, PmmTypeOK
    <3> QED BY <3>1, FreeFramesFinite, FS_Subset
  <2> QED BY <2>2, <2>3, FS_Subset, FS_CardinalityType
<1>5. Cardinality(UpToFrames(0)) = Add(0)
  <2>1. UpToFrames(0) = LevelFrames(0)
    BY DEF UpToFrames
  <2> QED BY <1>2, <2>1, LevelCount
<1>6. ASSUME NEW o \in Orders, o # 0
      PROVE  o - 1 \in Orders /\ Cardinality(UpToFrames(o)) = Cardinality(UpToFrames(o - 1)) + Add(o)
  <2>1. o - 1 \in Orders /\ o \in Nat
    BY <1>2, <1>6
  <2> DEFINE A == UpToFrames(o - 1)
             B == LevelFrames(o)
  <2>2. UpToFrames(o) = A \cup B
    <3>1. 0 .. o = (0 .. o - 1) \cup {o}
      BY <2>1, <1>6
    <3> QED BY <3>1 DEF UpToFrames
  <2>3. A \cap B = {}
    <3>1. \A a \in 0 .. o - 1 : a \in Orders /\ a # o
      BY <1>2, <2>1
    <3> QED BY <1>3, <3>1 DEF UpToFrames
  <2>4. IsFiniteSet(A) /\ IsFiniteSet(B) /\ Cardinality(A) \in Nat /\ Cardinality(B) = Add(o)
    BY <1>4, <2>1, LevelCount
  <2> HIDE DEF A, B
  <2>5. Cardinality(A \cup B) = Cardinality(A) + Cardinality(B) - Cardinality(A \cap B)
    BY <2>4, FS_Union
  <2>6. Cardinality(A \cap B) = 0 /\ Cardinality(B) \in Nat
    BY <2>3, <2>4, FS_EmptySet, FS_CardinalityType
  <2>7. Cardinality(A \cup B) = Cardinality(A) + Cardinality(B)
    BY <2>4, <2>5, <2>6
  <2> QED BY <2>1, <2>2, <2>4, <2>7 DEF A
<1>7. Add(0) \in Nat
  BY <1>2, <1>4, <1>5
<1> HIDE DEF Add, top
<1>8. w = Step(w)
  <2> SUFFICES ASSUME NEW o \in Orders PROVE w[o] = (IF o = 0 THEN 0 ELSE w[o - 1]) + Add(o)
    OBVIOUS
  <2>1. CASE o = 0
    BY <1>5, <1>7, <2>1
  <2>2. CASE o # 0
    BY <1>6, <2>2
  <2> QED BY <2>1, <2>2
<1>9. f = Step(f)
  <2> HIDE DEF Step, w
  <2> QED BY <1>8
<1> HIDE DEF f
<1>10. /\ f[0] = Add(0)
       /\ \A o \in Orders : o # 0 => f[o] = f[o - 1] + Add(o)
  <2>1. f[0] = 0 + Add(0)
    BY <1>2, <1>9
  <2>2. \A o \in Orders : o # 0 => f[o] = f[o - 1] + Add(o)
    BY <1>9
  <2> QED BY <1>7, <2>1, <2>2
<1> DEFINE T == {o \in Orders : f[o] = Cardinality(UpToFrames(o))}
<1>11. 0 \in T
  BY <1>2, <1>5, <1>10
<1>12. ASSUME NEW i \in 0 .. top - 1, i \in T PROVE i + 1 \in T
  <2>1. i + 1 \in Orders /\ i + 1 # 0 /\ (i + 1) - 1 = i
    BY <1>2
  <2> QED BY <1>6, <1>10, <1>12, <2>1
<1> HIDE DEF T
<1>13. 0 \in Int /\ top \in Int
  BY <1>2
<1>14. 0 .. top \subseteq T
  BY <1>11, <1>12, <1>13, CountUp, Zenon
<1>15. f[top] = Cardinality(UpToFrames(top))
  BY <1>2, <1>14 DEF T
<1>16. UpToFrames(top) = Covered(FreeBlocks)
  <2>1. ASSUME NEW u \in UpToFrames(top) PROVE u \in Covered(FreeBlocks)
    <3>1. PICK a \in Orders : u \in LevelFrames(a)
      BY <1>2 DEF UpToFrames
    <3>2. PICK x \in free_list[a] : u \in Frames(<<x, a>>)
      BY <3>1 DEF LevelFrames
    <3>3. <<x, a>> \in FreeBlocks
      BY BlocksClaimed
    <3> QED BY <3>2, <3>3 DEF Covered
  <2>2. ASSUME NEW u \in Covered(FreeBlocks) PROVE u \in UpToFrames(top)
    <3>1. PICK b \in FreeBlocks : u \in Frames(b)
      BY DEF Covered
    <3>2. b = <<b[1], b[2]>> /\ b[2] \in Orders /\ b[1] \in free_list[b[2]]
      BY <3>1, BlocksTile, OnList
    <3>3. u \in LevelFrames(b[2])
      BY <3>1, <3>2 DEF LevelFrames
    <3> QED BY <1>2, <3>2, <3>3 DEF UpToFrames
  <2> QED BY <2>1, <2>2
<1> QED BY <1>1, <1>15, <1>16

\* buddy_get_stats counts each list exactly, and its total is the number of frames that
\* are free.
THEOREM CountsExact == Spec \/ ListSpec => []FreeCountsExact
<1>1. BuddyInv => FreeCountsExact
  BY TotalIs DEF BuddyInv, CountInv, FreeCountsExact
<1> QED BY <1>1, BuddyInvariant, PTL

\* The intrusive lists are exact: along next every list has the free blocks of its order,
\* each once, and ends; prev leads back; and nothing else is a node.
THEOREM LinksExact == ListSpec => []ListsExact
<1>1. ASSUME BuddyInv, ListInv PROVE ListsExact
  <2>1. FreeCountsExact
    BY <1>1, TotalIs DEF BuddyInv, CountInv, FreeCountsExact
  <2>2. DOMAIN node = UNION {free_list[o] : o \in Orders}
    BY <1>1 DEF ListInv, Linked, lists
  <2>3. ASSUME NEW o \in Orders
        PROVE  /\ \A k \in DOMAIN Chain(lists, o) : Chain(lists, o)[k] = NULL <=> k > free_count[o]
               /\ {Chain(lists, o)[k] : k \in 1 .. free_count[o]} = free_list[o]
               /\ \A k \in 1 .. free_count[o] :
                    node[Chain(lists, o)[k]].prev = (IF k = 1 THEN NULL ELSE Chain(lists, o)[k - 1])
    <3> DEFINE N == Cardinality(DOMAIN lists.node)
               g == Chain(lists, o)
               S == free_list[o]
    <3>1. PICK n, c : /\ IsList(lists.head[o], lists.node, S, n, c) /\ n = Cardinality(S)
                      /\ n <= N /\ N \in Nat
                      /\ g = [k \in 1 .. N + 1 |-> IF k <= n THEN c[k] ELSE NULL]
      BY <1>1, ChainIs DEF ListInv
    <3>2. /\ n \in Nat /\ c \in [1 .. n -> S] /\ \A x \in S : \E k \in 1 .. n : c[k] = x
          /\ \A k \in 1 .. n : node[c[k]].prev = IF k = 1 THEN NULL ELSE c[k - 1]
      BY <3>1 DEF IsList, lists
    <3>3. free_count[o] = n /\ NULL \notin S
      BY <1>1, <3>1, BlocksClaimed DEF BuddyInv, CountInv
    <3>4. n <= N /\ N \in Nat
      BY <3>1
    <3>5. DOMAIN g = 1 .. N + 1 /\ \A k \in 1 .. N + 1 : g[k] = IF k <= n THEN c[k] ELSE NULL
      BY <3>1
    <3> HIDE DEF N, g, S
    <3>6. \A k \in 1 .. n : k \in 1 .. N + 1 /\ g[k] = c[k] /\ c[k] \in S
      BY <3>2, <3>4, <3>5
    <3>7. \A k \in DOMAIN g : g[k] = NULL <=> k > n
      <4> SUFFICES ASSUME NEW k \in 1 .. N + 1 PROVE g[k] = NULL <=> k > n
        BY <3>5
      <4>1. CASE k <= n
        <5>1. k \in 1 .. n /\ ~(k > n)
          BY <3>2, <4>1
        <5> QED BY <3>3, <3>6, <5>1
      <4>2. CASE ~(k <= n)
        <5>1. k > n
          BY <3>2, <4>2
        <5> QED BY <3>5, <4>2, <5>1
      <4> QED BY <4>1, <4>2
    <3>8. {g[k] : k \in 1 .. n} = S
      <4>1. \A x \in S : \E k \in 1 .. n : g[k] = x
        BY <3>2, <3>6
      <4>2. \A k \in 1 .. n : g[k] \in S
        BY <3>6
      <4> QED BY <4>1, <4>2
    <3>9. ASSUME NEW k \in 1 .. n PROVE node[g[k]].prev = IF k = 1 THEN NULL ELSE g[k - 1]
      <4>1. g[k] = c[k] /\ node[c[k]].prev = IF k = 1 THEN NULL ELSE c[k - 1]
        BY <3>2, <3>6
      <4>2. k # 1 => k - 1 \in 1 .. n
        BY <3>2
      <4>3. k # 1 => g[k - 1] = c[k - 1]
        BY <3>6, <4>2
      <4> QED BY <4>1, <4>3
    <3> QED BY <3>3, <3>7, <3>8, <3>9 DEF g, S
  <2> QED BY <2>1, <2>2, <2>3 DEF ListsExact
<1>2. ListSpec => [](BuddyInv /\ ListInv)
  <2>1. ListSpec => []BuddyInv
    BY BuddyInvariant, PTL
  <2>2. BuddyInv /\ ListInv /\ [ListNext]_listVars => ListInv'
    BY ListNextInv
  <2> QED BY <2>1, <2>2, ListInitInv, PTL DEF ListSpec
<1> QED BY <1>1, <1>2, PTL

-----------------------------------------------------------------------------
\* The refinement of PageAllocator

\* buddy_alloc lends a block of free frames, aligned to its size.
LEMMA AllocLends ==
  ASSUME BuddyInv, phase = "up", NEW order, NEW p, NEW o, Taken(order, p, o)
  PROVE  Pages!PagesNext
<1>0. /\ p \in Nat /\ Aligned(p, order)
      /\ <<p, o>> \in FreeBlocks /\ <<p, o>> \notin allocated
      /\ Covered({<<p, order>>} \cup Halves(p, order, o)) = Covered({<<p, o>>})
  BY TakenBlocks, Zenon
<1>1. order \in Orders /\ o \in Orders /\ allocated' = allocated \cup {<<p, order>>}
  BY DEF Taken
<1>2. Covered(Blocks') = Covered(Blocks)
  BY AllocInv
<1>3. Frames(<<p, order>>) \subseteq Frames(<<p, o>>)
  <2>1. Frames(<<p, order>>) \subseteq Covered({<<p, order>>} \cup Halves(p, order, o))
    BY DEF Covered
  <2>2. Covered({<<p, o>>}) = Frames(<<p, o>>)
    BY DEF Covered
  <2> QED BY <1>0, <2>1, <2>2
<1>4. Frames(<<p, o>>) \subseteq Covered(Blocks)
  BY <1>0 DEF Covered, Blocks
<1>5. \A b \in allocated : Frames(b) \cap Frames(<<p, o>>) = {}
  BY <1>0 DEF BuddyInv, BlocksPartitionClaimed, Blocks
<1>6. p \in Frames(<<p, order>>)
  BY <1>0, <1>1, FloorOfAligned
<1>7. Pages!Lent = Covered(allocated) /\ Pages!BlockSpan(<<p, order>>) = Frames(<<p, order>>)
  BY DEF Pages!Lent, Pages!BlockSpan, Covered, Frames
<1>8. Frames(<<p, order>>) \subseteq Covered(Blocks) \ Covered(allocated)
  BY <1>3, <1>4, <1>5 DEF Covered
<1>9. Pages!Lend(<<p, order>>)
  BY <1>0, <1>1, <1>2, <1>7, <1>8 DEF Pages!Lend, Aligned
<1>10. p \in Covered(Blocks) /\ order \in 0 .. BUDDY_MAX_ORDER
  BY <1>1, <1>6, <1>8 DEF Orders
<1> QED BY <1>9, <1>10 DEF Pages!PagesNext

\* Every step keeps the promise of a page allocator.
LEMMA PagesStep ==
  ASSUME BuddyInv, [Next]_vars
  PROVE  [Pages!PagesNext]_(Pages!pageVars)
<1>1. ASSUME UNCHANGED <<free_list, allocated>> PROVE UNCHANGED Pages!pageVars
  BY <1>1 DEF Pages!pageVars, Blocks, FreeBlocks
<1>2. CASE UNCHANGED vars
  BY <1>1, <1>2 DEF vars, buddyVars
<1>3. CASE PmmStep
  BY <1>1, <1>3 DEF PmmStep, buddyVars
<1>4. CASE buddy_init_claim \/ buddy_init_skip \/ buddy_init_next
  BY <1>1, <1>4 DEF buddy_init_claim, buddy_init_skip, buddy_init_next, buddyVars
<1>5. CASE buddy_init_begin
  BY <1>1, <1>5 DEF buddy_init_begin, BuddyInv, IdleInv
<1>6. CASE buddy_init_seed
  <2>1. allocated' = allocated /\ \A o \in Orders : free_list[o] \subseteq free_list'[o]
    <3>1. free_list' = [free_list EXCEPT ![SeedOrder] = @ \cup {run_start}] /\ allocated' = allocated
      BY <1>6 DEF buddy_init_seed
    <3> QED BY <3>1 DEF BuddyInv, BuddyTypeOK
  <2>2. ListBlocks(free_list) \subseteq ListBlocks(free_list')
    BY <2>1, OnList
  <2>3. Blocks \subseteq Blocks'
    BY <2>1, <2>2 DEF Blocks, FreeBlocks, ListBlocks
  <2>4. Covered(Blocks) \subseteq Covered(Blocks')
    BY <2>3 DEF Covered
  <2> QED BY <2>1, <2>4 DEF Pages!PagesNext, Pages!Donate
<1>7. CASE BuddyStep
  <2>1. ASSUME NEW order \in 0 .. BUDDY_MAX_ORDER + 1, NEW p \in claimed, buddy_alloc(order, p)
        PROVE  Pages!PagesNext
    <3>1. order \in Nat
      BY BuddyAssumption
    <3>2. PICK o \in Orders : Taken(order, p, o)
      BY <2>1, <3>1, AllocTaken
    <3> QED BY <1>7, <3>2, AllocLends DEF BuddyStep
  <2>2. ASSUME NEW b \in allocated, buddy_free(b[1], b[2]) PROVE Pages!PagesNext
    <3>1. PICK stop \in Orders : Merged(b[1], b[2], stop)
      BY <2>2, FreeMerged
    <3>2. Covered(Blocks') = Covered(Blocks)
      BY <1>7, <3>1, FreeInv DEF BuddyStep
    <3>3. b = <<b[1], b[2]>>
      BY BlocksTile DEF Blocks
    <3>4. allocated' = allocated \ {b}
      BY <3>1, <3>3 DEF Merged
    <3> QED BY <3>2, <3>4 DEF Pages!PagesNext, Pages!Return
  <2> QED BY <1>2, <1>7, <2>1, <2>2 DEF BuddyStep, buddy_alloc_fails
<1> QED BY <1>2, <1>3, <1>4, <1>5, <1>6, <1>7 DEF Next, BuddyInitStep

\* buddy.c is a page allocator: out of the frames it was given it lends aligned blocks,
\* and no frame to two callers at a time.
THEOREM BuddyIsPageAllocator == Spec \/ ListSpec => RefinesPageAllocator
<1>1. Init => Pages!PagesInit
  <2> SUFFICES ASSUME Init PROVE Pages!PagesInit
    OBVIOUS
  <2>1. Blocks = {} /\ allocated = {}
    BY DEF Init, Blocks, FreeBlocks
  <2> QED BY <2>1, NothingCovered DEF Pages!PagesInit
<1>2. ASSUME BuddyInv, [ListNext]_listVars PROVE [Pages!PagesNext]_(Pages!pageVars)
  BY <1>2, ListStep, PagesStep
<1>3. Spec => RefinesPageAllocator
  BY <1>1, PagesStep, BuddyInvariant, PTL DEF Spec, RefinesPageAllocator, Pages!PagesSpec
<1>4. ListInit => Pages!PagesInit
  BY <1>1 DEF ListInit
<1>5. ListSpec => RefinesPageAllocator
  BY <1>2, <1>4, BuddyInvariant, PTL DEF ListSpec, RefinesPageAllocator, Pages!PagesSpec
<1> QED BY <1>3, <1>5, PTL

=============================================================================
