------------------------- MODULE InstructionCacheProofs -------------------------
(***************************************************************************)
(* Proofs about InstructionCache, for every size of the ring and of the    *)
(* address space it divides.  The arithmetic is about offsets: how far an  *)
(* address is past the start of the region, modulo the address space.      *)
(***************************************************************************)
EXTENDS InstructionCache, Sequences, TLAPS

-----------------------------------------------------------------------------
(* The two moduli. *)

LEMMA Division ==
  ASSUME NEW x \in Int, NEW n \in Nat \ {0}
  PROVE  /\ x \div n \in Int
         /\ x % n \in 0 .. n - 1
         /\ x = n * (x \div n) + (x % n)
  OBVIOUS

LEMMA Remainder ==
  ASSUME NEW x \in Int, NEW n \in Nat \ {0}
  PROVE  \E r \in 0 .. n - 1, k \in Int : r = x % n /\ x = n * k + r
  BY Division

LEMMA SmallMultiple ==
  ASSUME NEW n \in Nat \ {0}, NEW k \in Int, n * k > -n, n * k < n
  PROVE  k = 0
  OBVIOUS

\* A remainder is known by its range.
LEMMA ModUnique ==
  ASSUME NEW n \in Nat \ {0}, NEW q \in Int, NEW r \in 0 .. n - 1, NEW x \in Int, x = n * q + r
  PROVE  x % n = r
<1>1. x = n * (x \div n) + (x % n) /\ x % n \in 0 .. n - 1 /\ x \div n \in Int
  BY Division
<1>2. n * (q - (x \div n)) = (x % n) - r
  BY <1>1
<1>3. q - (x \div n) = 0
  BY <1>1, <1>2, SmallMultiple
<1> QED
  BY <1>1, <1>3

\* The offset of the address `offset` past the start.
LEMMA OffsetOfSum ==
  ASSUME NEW n \in Nat \ {0}, NEW start \in 0 .. n - 1, NEW offset \in 0 .. n - 1
  PROVE  (((start + offset) % n) - start) % n = offset
<1> DEFINE x == start + offset
<1>1. x \div n \in Int /\ x % n \in 0 .. n - 1 /\ x = n * (x \div n) + (x % n)
  BY Division
<1>2. (x % n) - start = n * (-(x \div n)) + offset
  BY <1>1
<1> QED
  BY <1>1, <1>2, ModUnique

\* The address an offset belongs to.
LEMMA SumOfOffset ==
  ASSUME NEW n \in Nat \ {0}, NEW start \in 0 .. n - 1, NEW address \in 0 .. n - 1
  PROVE  (start + ((address - start) % n)) % n = address
<1> DEFINE x == address - start
<1>1. x \div n \in Int /\ x % n \in 0 .. n - 1 /\ x = n * (x \div n) + (x % n)
  BY Division
<1>2. start + (x % n) = n * (-(x \div n)) + address
  BY <1>1
<1> QED
  BY <1>1, <1>2, ModUnique

\* Past the start an offset is one less when the start moves on by one.
LEMMA OffsetAfterStep ==
  ASSUME NEW n \in Nat \ {0}, NEW start \in 0 .. n - 1, NEW address \in 0 .. n - 1,
         (address - start) % n # 0
  PROVE  (address - ((start + 1) % n)) % n = ((address - start) % n) - 1
<1>1. address - start \in Int /\ start + 1 \in Int
  OBVIOUS
<1>2. PICK i \in 0 .. n - 1, p \in Int : i = (address - start) % n /\ address - start = n * p + i
  BY <1>1, Remainder
<1>3. PICK j \in 0 .. n - 1, q \in Int : j = (start + 1) % n /\ start + 1 = n * q + j
  BY <1>1, Remainder
<1>4. i - 1 \in 0 .. n - 1 /\ address - j \in Int /\ p + q \in Int
  BY <1>2
<1>5. address - j = n * (p + q) + (i - 1)
  <2>1. address - start = n * p + i /\ start + 1 = n * q + j
    BY <1>2, <1>3
  <2> QED
    BY <2>1
<1>6. (address - j) % n = i - 1
  BY <1>4, <1>5, ModUnique
<1> QED
  BY <1>2, <1>3, <1>6

\* The ring is no larger than the address space.
LEMMA RingFits == CacheWords \in 1 .. AddressSpace
<1>1. /\ AddressSpace \div CacheWords \in Int
      /\ AddressSpace = CacheWords * (AddressSpace \div CacheWords)
  BY CacheGeometry, Division
<1> QED
  BY <1>1, CacheGeometry

\* Two addresses closer than the ring is long that share a slot are one.
LEMMA SlotsApart ==
  ASSUME NEW start \in CacheAddresses, NEW a \in CacheAddresses, NEW b \in CacheAddresses,
         (a - start) % AddressSpace < CacheWords,
         (b - start) % AddressSpace < CacheWords,
         SlotOf(a) = SlotOf(b)
  PROVE  a = b
<1>1. /\ AddressSpace \in Nat \ {0} /\ CacheWords \in Nat \ {0}
      /\ start \in 0 .. AddressSpace - 1 /\ a \in 0 .. AddressSpace - 1
      /\ b \in 0 .. AddressSpace - 1
  BY CacheGeometry DEF CacheAddresses
<1>2. a \in Int /\ b \in Int /\ start \in Int /\ a - start \in Int /\ b - start \in Int
  BY <1>1
<1>3. PICK m \in Int : AddressSpace = CacheWords * m
  <2>1. /\ AddressSpace \div CacheWords \in Int
        /\ AddressSpace = CacheWords * (AddressSpace \div CacheWords)
    BY CacheGeometry, Division
  <2> QED
    BY <2>1
<1>4. PICK i \in 0 .. AddressSpace - 1, p \in Int :
        i = (a - start) % AddressSpace /\ a - start = AddressSpace * p + i
  BY <1>1, <1>2, Remainder
<1>5. PICK j \in 0 .. AddressSpace - 1, q \in Int :
        j = (b - start) % AddressSpace /\ b - start = AddressSpace * q + j
  BY <1>1, <1>2, Remainder
<1>6. PICK r \in 0 .. CacheWords - 1, u \in Int : r = a % CacheWords /\ a = CacheWords * u + r
  BY <1>1, <1>2, Remainder
<1>7. PICK w \in 0 .. CacheWords - 1, v \in Int : w = b % CacheWords /\ b = CacheWords * v + w
  BY <1>1, <1>2, Remainder
<1>8. r \in Int /\ r = w
  BY <1>6, <1>7 DEF SlotOf
<1>9. i \in 0 .. CacheWords - 1 /\ j \in 0 .. CacheWords - 1
  BY <1>1, <1>4, <1>5
<1>10. i = j
  <2> DEFINE k == (u - v) - m * (p - q)
  <2>1. k \in Int
    OBVIOUS
  <2>2. CacheWords * k = i - j
    <3>1. a - start = (CacheWords * m) * p + i /\ b - start = (CacheWords * m) * q + j
      BY <1>3, <1>4, <1>5
    <3>2. a = CacheWords * u + r /\ b = CacheWords * v + r
      BY <1>6, <1>7, <1>8
    <3> QED
      BY <1>1, <1>2, <1>8, <3>1, <3>2
  <2> HIDE DEF k
  <2>3. k = 0
    BY <1>1, <1>9, <2>1, <2>2, SmallMultiple
  <2> QED
    BY <1>1, <1>9, <2>2, <2>3
<1>11. (start + i) % AddressSpace = a /\ (start + j) % AddressSpace = b
  BY <1>1, <1>4, <1>5, SumOfOffset
<1> QED
  BY <1>10, <1>11


-----------------------------------------------------------------------------
(* The ring keeps its type and its valid slots within the region. *)

LEMMA InitType == Init => TypeOK
  BY CacheGeometry DEF Init, TypeOK, NoValidSlot, Slots, Values, CacheAddresses

LEMMA SlotOfAddress == ASSUME NEW address \in CacheAddresses PROVE SlotOf(address) \in Slots
<1>1. address \in Int
  BY DEF CacheAddresses
<1> QED
  BY <1>1, CacheGeometry, Division DEF SlotOf, Slots

LEMMA AppendIsAddress == ASSUME TypeOK PROVE AppendAddress \in CacheAddresses
<1>1. regionStart + regionCount \in Int
  BY CacheGeometry DEF TypeOK, CacheAddresses
<1> QED
  BY <1>1, CacheGeometry, Division DEF AppendAddress, CacheAddresses

\* One fill writes one slot and leaves start and count in range.
LEMMA FillType ==
  ASSUME TypeOK, NEW address \in CacheAddresses, NEW word \in Values, Fill(address, word)
  PROVE  TypeOK'
<1>1. \A base \in [Slots -> Values] : Place(base, address, word) \in [Slots -> Values]
  BY DEF Place
<1>2. CASE Rewrite(address, word)
  BY <1>1, <1>2 DEF Rewrite, TypeOK
<1>3. CASE Lengthen(address, word)
  <2>1. regionCount + 1 \in 0 .. CacheWords
    BY <1>3, CacheGeometry DEF Lengthen
  <2> QED
    BY <1>1, <1>3, <2>1 DEF Lengthen, TypeOK
<1>4. CASE ReplaceOldest(address, word)
  <2>1. [slots EXCEPT ![SlotOf(regionStart)] = Unknown] \in [Slots -> Values]
    BY DEF TypeOK, Values
  <2>2. (regionStart + 1) % AddressSpace \in CacheAddresses
    <3>1. regionStart + 1 \in Int
      BY CacheGeometry DEF TypeOK, CacheAddresses
    <3> QED
      BY <3>1, CacheGeometry, Division DEF CacheAddresses
  <2> QED
    BY <1>1, <1>4, <2>1, <2>2 DEF ReplaceOldest, TypeOK
<1>5. CASE Restart(address, word)
  <2>1. NoValidSlot \in [Slots -> Values] /\ 1 \in 0 .. CacheWords
    BY CacheGeometry DEF NoValidSlot, Values
  <2> QED
    BY <1>1, <1>5, <2>1 DEF Restart, TypeOK
<1> QED
  BY <1>2, <1>3, <1>4, <1>5 DEF Fill

\* Every register stays in its range, so the start never leaves the address
\* space and the count never passes the ring.
THEOREM TypeCorrect == Spec => []TypeOK
<1>1. Init => TypeOK
  BY InitType
<1>2. TypeOK /\ [Next]_vars => TypeOK'
  <2> SUFFICES ASSUME TypeOK, [Next]_vars PROVE TypeOK'
    OBVIOUS
  <2>1. CASE Clear
    BY <2>1, CacheGeometry DEF Clear, TypeOK, NoValidSlot, Slots, Values, CacheAddresses
  <2>2. CASE \E address \in CacheAddresses, word \in Values : Fill(address, word)
    BY <2>2, FillType
  <2>3. CASE UNCHANGED vars
    BY <2>3 DEF vars, TypeOK
  <2> QED
    BY <2>1, <2>2, <2>3 DEF Next
<1> QED
  BY <1>1, <1>2, PTL DEF Spec


-----------------------------------------------------------------------------
(* What the region holds. *)

\* How far an address lies past a start.
Offset(start, address) == (address - start) % AddressSpace

LEMMA OffsetRange ==
  ASSUME NEW start \in CacheAddresses, NEW address \in CacheAddresses
  PROVE  Offset(start, address) \in 0 .. AddressSpace - 1
<1>1. address - start \in Int
  BY CacheGeometry DEF CacheAddresses
<1> QED
  BY <1>1, CacheGeometry, Division DEF Offset

LEMMA RegionOffsets ==
  ASSUME NEW address \in CacheAddresses
  PROVE  /\ InRegion(address) <=> Offset(regionStart, address) < regionCount
         /\ InRegion(address)' <=> Offset(regionStart', address) < regionCount'
  BY DEF InRegion, Offset

\* Only the start is at its own offset.
LEMMA StartOffset ==
  ASSUME NEW start \in CacheAddresses, NEW address \in CacheAddresses
  PROVE  Offset(start, address) = 0 <=> address = start
<1>1. start \in 0 .. AddressSpace - 1 /\ address \in 0 .. AddressSpace - 1
  BY DEF CacheAddresses
<1>2. (start + Offset(start, address)) % AddressSpace = address
  BY <1>1, SumOfOffset, CacheGeometry DEF Offset
<1>3. (start + 0) % AddressSpace = start /\ (start - start) % AddressSpace = 0
  BY <1>1, CacheGeometry
<1> QED
  BY <1>2, <1>3 DEF Offset

\* The address a sequential fill appends is as far from the start as the region
\* is long, unless the region is the whole address space.
LEMMA AppendOffset ==
  ASSUME TypeOK, regionCount > 0, ~InRegion(AppendAddress)
  PROVE  Offset(regionStart, AppendAddress) = regionCount
<1>1. regionCount \in 0 .. AddressSpace /\ regionStart \in 0 .. AddressSpace - 1
  BY RingFits, CacheGeometry DEF TypeOK, CacheAddresses
<1>2. regionCount # AddressSpace
  <2>1. Offset(regionStart, AppendAddress) \in 0 .. AddressSpace - 1
    BY AppendIsAddress, OffsetRange DEF TypeOK
  <2>2. ~(Offset(regionStart, AppendAddress) < regionCount)
    BY AppendIsAddress, RegionOffsets
  <2> QED
    BY <1>1, <2>1, <2>2, CacheGeometry
<1>3. regionCount \in 0 .. AddressSpace - 1
  BY <1>1, <1>2, CacheGeometry
<1>4. AddressSpace \in Nat \ {0}
  BY CacheGeometry
<1>5. (((regionStart + regionCount) % AddressSpace) - regionStart) % AddressSpace = regionCount
  BY <1>1, <1>3, <1>4, OffsetOfSum
<1> QED
  BY <1>5 DEF Offset, AppendAddress

\* No slot outside the region is valid.
LEMMA FillKeepsSlots ==
  ASSUME TypeOK, NoStaleSlot, NEW address \in CacheAddresses, NEW word \in Values,
         Fill(address, word)
  PROVE  NoStaleSlot'
<1> SUFFICES ASSUME NEW s \in Slots, slots'[s] # Unknown
             PROVE  \E a \in CacheAddresses : InRegion(a)' /\ SlotOf(a) = s
  BY DEF NoStaleSlot, SlotOf
<1>1. TypeOK'
  BY FillType
<1>2. SlotOf(address) \in Slots
  BY SlotOfAddress
<1>3. regionStart \in CacheAddresses /\ regionStart' \in CacheAddresses
  BY <1>1 DEF TypeOK
<1>4. CASE Rewrite(address, word)
  <2>1. \A a \in CacheAddresses : InRegion(a)' <=> InRegion(a)
    BY <1>4 DEF Rewrite, InRegion
  <2>2. CASE s = SlotOf(address)
    BY <1>4, <2>1, <2>2 DEF Rewrite
  <2>3. CASE s # SlotOf(address)
    <3>1. slots[s] # Unknown
      BY <1>4, <2>3 DEF Rewrite, Place, TypeOK
    <3> QED
      BY <2>1, <3>1 DEF NoStaleSlot
  <2> QED
    BY <2>2, <2>3
<1>5. CASE Lengthen(address, word)
  <2>1. regionStart' = regionStart /\ regionCount' = regionCount + 1 /\ regionCount \in Nat
    BY <1>5, CacheGeometry DEF Lengthen
  <2>2. \A a \in CacheAddresses : InRegion(a) => InRegion(a)'
    BY <1>3, <2>1, OffsetRange, RegionOffsets, CacheGeometry
  <2>3. InRegion(address)'
    <3>1. Offset(regionStart, address) = regionCount
      BY <1>5, AppendOffset, CacheGeometry DEF Lengthen
    <3> QED
      BY <2>1, <3>1, RegionOffsets
  <2>4. CASE s = SlotOf(address)
    BY <2>3, <2>4
  <2>5. CASE s # SlotOf(address)
    <3>1. slots[s] # Unknown
      BY <1>5, <2>5 DEF Lengthen, Place, TypeOK
    <3> QED
      BY <2>2, <3>1 DEF NoStaleSlot
  <2> QED
    BY <2>4, <2>5
<1>6. CASE ReplaceOldest(address, word)
  <2>1. \A a \in CacheAddresses :
          Offset(regionStart, a) # 0 => Offset(regionStart', a) = Offset(regionStart, a) - 1
    BY <1>3, <1>6, OffsetAfterStep, CacheGeometry DEF ReplaceOldest, CacheAddresses, Offset
  <2>2. regionCount = CacheWords /\ regionCount' = CacheWords
    BY <1>6 DEF ReplaceOldest
  <2>3. InRegion(address)'
    <3>1. Offset(regionStart, address) = CacheWords
      BY <1>6, AppendOffset, CacheGeometry DEF ReplaceOldest
    <3>2. Offset(regionStart', address) = CacheWords - 1
      BY <2>1, <3>1, CacheGeometry
    <3> QED
      BY <2>2, <3>2, RegionOffsets, CacheGeometry
  <2>4. CASE s = SlotOf(address)
    BY <2>3, <2>4
  <2>5. CASE s # SlotOf(address)
    <3>1. slots[s] # Unknown /\ s # SlotOf(regionStart)
      BY <1>6, <2>5 DEF ReplaceOldest, Place, TypeOK
    <3>2. PICK a \in CacheAddresses : InRegion(a) /\ SlotOf(a) = s
      BY <3>1 DEF NoStaleSlot
    <3>3. Offset(regionStart, a) # 0
      BY <1>3, <3>1, <3>2, StartOffset
    <3>4. Offset(regionStart', a) < CacheWords
      BY <1>3, <2>1, <2>2, <3>2, <3>3, RegionOffsets, OffsetRange, CacheGeometry
    <3> QED
      BY <2>2, <3>2, <3>4, RegionOffsets
  <2> QED
    BY <2>4, <2>5
<1>7. CASE Restart(address, word)
  <2>1. s = SlotOf(address)
    BY <1>7 DEF Restart, Place, NoValidSlot
  <2>2. InRegion(address)'
    BY <1>3, <1>7, StartOffset, RegionOffsets DEF Restart
  <2> QED
    BY <2>1, <2>2
<1> QED
  BY <1>4, <1>5, <1>6, <1>7 DEF Fill


\* No slot outside the region ever keeps its validity bit.
THEOREM SlotsBelong == Spec => []NoStaleSlot
<1>1. Init => NoStaleSlot
  BY DEF Init, NoStaleSlot, NoValidSlot
<1>2. TypeOK /\ NoStaleSlot /\ [Next]_vars => NoStaleSlot'
  <2> SUFFICES ASSUME TypeOK, NoStaleSlot, [Next]_vars PROVE NoStaleSlot'
    OBVIOUS
  <2>1. CASE Clear
    BY <2>1 DEF Clear, NoStaleSlot, NoValidSlot
  <2>2. CASE \E address \in CacheAddresses, word \in Values : Fill(address, word)
    BY <2>2, FillKeepsSlots
  <2>3. CASE UNCHANGED vars
    BY <2>3 DEF vars, NoStaleSlot, InRegion
  <2> QED
    BY <2>1, <2>2, <2>3 DEF Next
<1> QED
  BY <1>1, <1>2, TypeCorrect, PTL DEF Spec

-----------------------------------------------------------------------------
(* The region as a window. *)

Position(start, i) == (start + i - 1) % AddressSpace

\* The i-th address of a region is i - 1 past its start, and every address of
\* the region is one of them.
LEMMA PositionOffset ==
  ASSUME NEW start \in CacheAddresses, NEW i \in 1 .. AddressSpace
  PROVE  Position(start, i) \in CacheAddresses /\ Offset(start, Position(start, i)) = i - 1
<1>1. AddressSpace \in Nat \ {0} /\ start \in 0 .. AddressSpace - 1 /\ i - 1 \in 0 .. AddressSpace - 1
  BY CacheGeometry DEF CacheAddresses
<1>2. start + i - 1 = start + (i - 1) /\ start + i - 1 \in Int
  BY <1>1
<1>3. (((start + (i - 1)) % AddressSpace) - start) % AddressSpace = i - 1
  BY <1>1, OffsetOfSum
<1>4. (start + i - 1) % AddressSpace \in 0 .. AddressSpace - 1
  BY <1>1, <1>2, Division
<1> QED
  BY <1>2, <1>3, <1>4 DEF Position, Offset, CacheAddresses

LEMMA OffsetPosition ==
  ASSUME NEW start \in CacheAddresses, NEW address \in CacheAddresses
  PROVE  Position(start, Offset(start, address) + 1) = address
<1>1. AddressSpace \in Nat \ {0} /\ start \in 0 .. AddressSpace - 1 /\ address \in 0 .. AddressSpace - 1
  BY CacheGeometry DEF CacheAddresses
<1>2. Offset(start, address) \in Int
  BY OffsetRange
<1>3. start + (Offset(start, address) + 1) - 1 = start + Offset(start, address)
  BY <1>1, <1>2
<1>4. (start + Offset(start, address)) % AddressSpace = address
  BY <1>1, SumOfOffset DEF Offset
<1> QED
  BY <1>3, <1>4 DEF Position

\* The window holds what the region holds, at the same addresses.
LEMMA RegionIsWindow ==
  ASSUME TypeOK
  PROVE  /\ DOMAIN Region = 1 .. regionCount
         /\ \A i \in 1 .. regionCount :
              /\ Region[i].address = Position(regionStart, i)
              /\ Region[i].word = slots[SlotOf(Position(regionStart, i))]
         /\ \A address \in CacheAddresses :
              InRegion(address)
                <=> \E i \in 1 .. regionCount : Region[i].address = address
<1>1. /\ DOMAIN Region = 1 .. regionCount
      /\ \A i \in 1 .. regionCount :
           /\ Region[i].address = Position(regionStart, i)
           /\ Region[i].word = slots[SlotOf(Position(regionStart, i))]
  BY DEF Region, Position
<1>2. ASSUME NEW address \in CacheAddresses
      PROVE  InRegion(address) <=> \E i \in 1 .. regionCount : Region[i].address = address
  <2>1. /\ regionStart \in CacheAddresses
        /\ regionCount \in 0 .. AddressSpace
    <3>1. regionStart \in CacheAddresses /\ regionCount \in 0 .. CacheWords
      BY DEF TypeOK
    <3>2. CacheWords <= AddressSpace
      BY RingFits
    <3> QED
      BY <3>1, <3>2, CacheGeometry
  <2>2. ASSUME InRegion(address)
        PROVE  \E i \in 1 .. regionCount : Region[i].address = address
    <3>1. Offset(regionStart, address) + 1 \in 1 .. regionCount
      <4>1. Offset(regionStart, address) \in 0 .. AddressSpace - 1
        BY <2>1, OffsetRange
      <4>2. Offset(regionStart, address) < regionCount
        BY <2>2, RegionOffsets
      <4> QED
        BY <2>1, <4>1, <4>2, CacheGeometry
    <3>2. Region[Offset(regionStart, address) + 1].address = address
      BY <1>1, <2>1, <3>1, OffsetPosition
    <3> QED
      BY <3>1, <3>2
  <2>3. ASSUME NEW i \in 1 .. regionCount, Region[i].address = address
        PROVE  InRegion(address)
    <3>1. i \in 1 .. AddressSpace
      BY <2>1, CacheGeometry
    <3>2. Offset(regionStart, address) = i - 1
      BY <1>1, <2>1, <2>3, <3>1, PositionOffset
    <3> QED
      BY <2>1, <3>2, RegionOffsets
  <2> QED
    BY <2>2, <2>3
<1> QED
  BY <1>1, <1>2

\* A lookup answers what the window answers.
LEMMA LookupIsWindows == ASSUME TypeOK PROVE LookupAnswersWindow
<1> SUFFICES ASSUME NEW address \in CacheAddresses
             PROVE  Lookup(address) = Window!Lookup(address)
  BY DEF LookupAnswersWindow
<1>1. Window!Holds(address) <=> InRegion(address)
  BY RegionIsWindow DEF Window!Holds
<1>2. CASE InRegion(address)
  <2> DEFINE i == CHOOSE i \in DOMAIN Region : Region[i].address = address
  <2>1. i \in 1 .. regionCount /\ Region[i].address = address
    BY <1>2, RegionIsWindow
  <2>2. Region[i].word = slots[SlotOf(address)]
    BY <2>1, RegionIsWindow
  <2> QED
    BY <1>1, <1>2, <2>2 DEF Lookup, Window!Lookup
<1>3. CASE ~InRegion(address)
  BY <1>1, <1>3 DEF Lookup, Window!Lookup
<1> QED
  BY <1>2, <1>3

\* A hit is the word last fetched from its address, for every ring and address
\* space: a lookup is the window's, and no valid slot lies outside the region.
THEOREM AnswersFresh == Spec => []AnswersAreFresh
<1>1. TypeOK /\ NoStaleSlot => AnswersAreFresh
  BY LookupIsWindows DEF AnswersAreFresh
<1> QED
  BY <1>1, TypeCorrect, SlotsBelong, PTL

-----------------------------------------------------------------------------
(* The ring implements the window. *)

\* A remainder may be taken before a sum.
LEMMA ModSum ==
  ASSUME NEW n \in Nat \ {0}, NEW x \in Int, NEW y \in Int
  PROVE  ((x % n) + y) % n = (x + y) % n
<1>1. PICK r \in 0 .. n - 1, k \in Int : r = x % n /\ x = n * k + r
  BY Remainder
<1>2. PICK w \in 0 .. n - 1, m \in Int : w = (r + y) % n /\ r + y = n * m + w
  <2>1. r + y \in Int
    OBVIOUS
  <2> QED
    BY <2>1, Remainder
<1>3. x + y = n * (k + m) + w
  <2>1. x = n * k + r /\ r + y = n * m + w
    BY <1>1, <1>2
  <2> QED
    BY <2>1
<1>4. (x + y) % n = w
  <2>1. PICK z \in Int, q \in Int : z = x + y /\ q = k + m
    OBVIOUS
  <2>2. z = n * q + w
    BY <1>3, <2>1
  <2>3. z % n = w
    BY <2>2, ModUnique
  <2> QED
    BY <2>1, <2>3
<1> QED
  BY <1>1, <1>2, <1>4

\* The entries of a ring with the given slots and start.
EntryAt(ring, start, i) ==
  [address |-> Position(start, i), word |-> ring[SlotOf(Position(start, i))]]

LEMMA RegionEntries ==
  /\ Region = [i \in 1 .. regionCount |-> EntryAt(slots, regionStart, i)]
  /\ Region' = [i \in 1 .. regionCount' |-> EntryAt(slots', regionStart', i)]
  BY DEF Region, EntryAt, Position, SlotOf

\* The slot of a position within reach of the ring is not the slot of another
\* address within reach.
LEMMA PositionsApart ==
  ASSUME NEW start \in CacheAddresses, NEW i \in 1 .. CacheWords
  PROVE  /\ Position(start, i) \in CacheAddresses
         /\ SlotOf(Position(start, i)) \in Slots
         /\ \A address \in CacheAddresses :
              Offset(start, address) < CacheWords /\ Position(start, i) # address
                => SlotOf(Position(start, i)) # SlotOf(address)
<1>1. i \in 1 .. AddressSpace /\ i - 1 < CacheWords
  BY RingFits, CacheGeometry
<1>2. Position(start, i) \in CacheAddresses /\ Offset(start, Position(start, i)) = i - 1
  BY <1>1, PositionOffset
<1> QED
  BY <1>1, <1>2, SlotsApart, SlotOfAddress DEF Offset

LEMMA RewriteAgrees ==
  ASSUME TypeOK, NEW address \in CacheAddresses, NEW word \in Values, Rewrite(address, word)
  PROVE  Window!Refetch(address, word)
<1>1. /\ regionStart' = regionStart /\ regionCount' = regionCount
      /\ slots' = [slots EXCEPT ![SlotOf(address)] = word]
      /\ Offset(regionStart, address) < regionCount
  BY RegionOffsets DEF Rewrite, Place
<1>2. regionStart \in CacheAddresses /\ regionCount \in 0 .. CacheWords
  BY DEF TypeOK
<1>3. ASSUME NEW i \in 1 .. regionCount
      PROVE  EntryAt(slots', regionStart, i)
               = IF EntryAt(slots, regionStart, i).address = address
                   THEN Window!Entry(address, word) ELSE EntryAt(slots, regionStart, i)
  <2>1. CASE Position(regionStart, i) = address
    BY <1>1, <2>1, SlotOfAddress DEF EntryAt, Window!Entry, TypeOK
  <2>2. CASE Position(regionStart, i) # address
    <3>1. i \in 1 .. CacheWords /\ Offset(regionStart, address) < CacheWords
      BY <1>1, <1>2, OffsetRange, CacheGeometry
    <3>2. /\ SlotOf(Position(regionStart, i)) # SlotOf(address)
          /\ SlotOf(Position(regionStart, i)) \in Slots
      BY <1>2, <2>2, <3>1, PositionsApart
    <3>3. slots'[SlotOf(Position(regionStart, i))] = slots[SlotOf(Position(regionStart, i))]
      BY <1>1, <3>2 DEF TypeOK
    <3> QED
      BY <2>2, <3>3 DEF EntryAt
  <2> QED
    BY <2>1, <2>2
<1> QED
  BY <1>1, <1>3, RegionEntries DEF Window!Refetch

\* A window that grows by the entry of an address.
LEMMA AppendEntry ==
  ASSUME NEW n \in Nat, NEW m, m = n + 1, NEW f, f = [i \in 1 .. n |-> f[i]], NEW entry
  PROVE  Append(f, entry) = [i \in 1 .. m |-> IF i = m THEN entry ELSE f[i]]
<1>1. f \in Seq({f[i] : i \in 1 .. n}) /\ Len(f) = n
  OBVIOUS
<1> QED
  BY <1>1

LEMMA LengthenAgrees ==
  ASSUME TypeOK, NEW address \in CacheAddresses, NEW word \in Values, Lengthen(address, word)
  PROVE  Window!Extend(address, word)
<1>1. /\ regionStart' = regionStart /\ regionCount' = regionCount + 1
      /\ slots' = [slots EXCEPT ![SlotOf(address)] = word]
      /\ regionCount \in 1 .. CacheWords - 1
      /\ Offset(regionStart, address) = regionCount
  BY AppendOffset, CacheGeometry DEF Lengthen, Place
<1>2. regionStart \in CacheAddresses /\ regionCount \in Nat
  BY <1>1, CacheGeometry DEF TypeOK
<1>3. ASSUME NEW i \in 1 .. regionCount
      PROVE  EntryAt(slots', regionStart, i) = EntryAt(slots, regionStart, i)
  <2>1. i \in 1 .. CacheWords /\ i \in 1 .. AddressSpace
    BY <1>1, RingFits, CacheGeometry
  <2>2. Position(regionStart, i) # address
    <3>1. Offset(regionStart, Position(regionStart, i)) = i - 1
      BY <1>2, <2>1, PositionOffset
    <3> QED
      BY <1>1, <1>2, <3>1
  <2>3. /\ SlotOf(Position(regionStart, i)) # SlotOf(address)
        /\ SlotOf(Position(regionStart, i)) \in Slots
    <3>1. Offset(regionStart, address) < CacheWords
      BY <1>1, CacheGeometry
    <3> QED
      BY <1>2, <2>1, <2>2, <3>1, PositionsApart
  <2> QED
    BY <1>1, <2>3 DEF EntryAt, TypeOK
<1>4. EntryAt(slots', regionStart, regionCount + 1) = Window!Entry(address, word)
  <2>1. Position(regionStart, regionCount + 1) = address
    BY <1>1, <1>2, OffsetPosition
  <2> QED
    BY <1>1, <2>1, SlotOfAddress DEF EntryAt, Window!Entry, TypeOK
<1>5. Region' = [i \in 1 .. regionCount + 1 |->
                   IF i = regionCount + 1 THEN Window!Entry(address, word) ELSE Region[i]]
  <2>1. Region' = [i \in 1 .. regionCount + 1 |-> EntryAt(slots', regionStart, i)]
    BY <1>1, RegionEntries
  <2>2. ASSUME NEW i \in 1 .. regionCount + 1
        PROVE  EntryAt(slots', regionStart, i)
                 = IF i = regionCount + 1 THEN Window!Entry(address, word) ELSE Region[i]
    <3>1. CASE i = regionCount + 1
      BY <1>4, <3>1
    <3>2. CASE i # regionCount + 1
      <4>1. i \in 1 .. regionCount
        BY <1>2, <3>2
      <4> QED
        BY <1>3, <3>2, <4>1, RegionEntries
    <3> QED
      BY <3>1, <3>2
  <2> QED
    BY <2>1, <2>2
<1>6. Region' = Append(Region, Window!Entry(address, word)) /\ Len(Region) # CacheWords
  <2>1. Region = [i \in 1 .. regionCount |-> Region[i]]
    BY RegionEntries
  <2>2. Len(Region) = regionCount
    BY <1>2, <2>1
  <2> QED
    BY <1>1, <1>2, <1>5, <2>1, <2>2, AppendEntry, CacheGeometry
<1> QED
  BY <1>6 DEF Window!Extend

\* A window that loses its first entry.
LEMMA TailEntries ==
  ASSUME NEW n \in Nat \ {0}, NEW f, f = [i \in 1 .. n |-> f[i]]
  PROVE  Len(f) = n /\ Tail(f) = [i \in 1 .. n - 1 |-> f[i + 1]]
<1>1. f \in Seq({f[i] : i \in 1 .. n}) /\ Len(f) = n /\ f # <<>>
  OBVIOUS
<1> QED
  BY <1>1

LEMMA ReplaceAgrees ==
  ASSUME TypeOK, NEW address \in CacheAddresses, NEW word \in Values, ReplaceOldest(address, word)
  PROVE  Window!Extend(address, word)
<1> DEFINE next == (regionStart + 1) % AddressSpace
           kept == [slots EXCEPT ![SlotOf(regionStart)] = Unknown]
<1>1. /\ regionStart' = next /\ regionCount' = CacheWords /\ regionCount = CacheWords
      /\ slots' = [kept EXCEPT ![SlotOf(address)] = word]
      /\ Offset(regionStart, address) = CacheWords
  BY AppendOffset, CacheGeometry DEF ReplaceOldest, Place
<1>2. regionStart \in CacheAddresses /\ next \in CacheAddresses
  <2>1. regionStart \in CacheAddresses /\ regionStart + 1 \in Int
    BY CacheGeometry DEF TypeOK, CacheAddresses
  <2> QED
    BY <2>1, CacheGeometry, Division DEF CacheAddresses
<1>3. Offset(next, address) = CacheWords - 1
  <2>1. /\ regionStart \in 0 .. AddressSpace - 1 /\ address \in 0 .. AddressSpace - 1
    BY <1>2 DEF CacheAddresses
  <2>2. Offset(regionStart, address) # 0 /\ AddressSpace \in Nat \ {0}
    BY <1>1, CacheGeometry
  <2>3. Offset(next, address) = Offset(regionStart, address) - 1
    BY <2>1, <2>2, OffsetAfterStep DEF Offset
  <2> QED
    BY <1>1, <2>3
<1>4. ASSUME NEW i \in 1 .. CacheWords
      PROVE  Position(next, i) = Position(regionStart, i + 1)
  <2>1. /\ regionStart + 1 \in Int /\ i - 1 \in Int
        /\ regionStart + 1 + (i - 1) = regionStart + (i + 1) - 1
    BY <1>2, CacheGeometry DEF CacheAddresses
  <2>2. (next + (i - 1)) % AddressSpace = (regionStart + 1 + (i - 1)) % AddressSpace
    BY <2>1, ModSum, CacheGeometry
  <2>3. next + (i - 1) = next + i - 1
    BY <1>2, <2>1, CacheGeometry DEF CacheAddresses
  <2> HIDE DEF next
  <2> QED
    BY <2>1, <2>2, <2>3 DEF Position
<1>5. ASSUME NEW i \in 1 .. CacheWords - 1
      PROVE  EntryAt(slots', next, i) = EntryAt(slots, regionStart, i + 1)
  <2>1. /\ i \in 1 .. CacheWords /\ i + 1 \in 1 .. CacheWords
        /\ i \in 1 .. AddressSpace /\ i + 1 \in 1 .. AddressSpace
    BY RingFits, CacheGeometry
  <2>2. Position(next, i) = Position(regionStart, i + 1)
    BY <1>4, <2>1
  <2>3. Position(next, i) # address
    <3>1. Offset(next, Position(next, i)) = i - 1
      BY <1>2, <2>1, PositionOffset
    <3> QED
      BY <1>3, <3>1, CacheGeometry
  <2>4. SlotOf(Position(next, i)) # SlotOf(address)
    <3>1. Offset(next, address) < CacheWords
      BY <1>3, CacheGeometry
    <3> QED
      BY <1>2, <2>1, <2>3, <3>1, PositionsApart
  <2>5. Position(regionStart, i + 1) # regionStart
    <3>1. Offset(regionStart, Position(regionStart, i + 1)) = i
      BY <1>2, <2>1, PositionOffset
    <3>2. Offset(regionStart, regionStart) = 0
      BY <1>2, StartOffset
    <3> QED
      BY <3>1, <3>2
  <2>6. /\ SlotOf(Position(regionStart, i + 1)) # SlotOf(regionStart)
        /\ SlotOf(Position(regionStart, i + 1)) \in Slots
    <3>1. Offset(regionStart, regionStart) < CacheWords
      BY <1>2, StartOffset, CacheGeometry
    <3> QED
      BY <1>2, <2>1, <2>5, <3>1, PositionsApart
  <2>7. slots'[SlotOf(Position(next, i))] = slots[SlotOf(Position(next, i))]
    BY <1>1, <2>2, <2>4, <2>6 DEF TypeOK
  <2> HIDE DEF next
  <2> QED
    BY <2>2, <2>7 DEF EntryAt
<1>6. EntryAt(slots', next, CacheWords) = Window!Entry(address, word)
  <2>1. Position(next, Offset(next, address) + 1) = address
    BY <1>2, OffsetPosition
  <2>2. Position(next, CacheWords) = address
    BY <1>3, <2>1, CacheGeometry
  <2>3. slots'[SlotOf(address)] = word
    BY <1>1, SlotOfAddress DEF TypeOK
  <2> QED
    BY <2>2, <2>3 DEF EntryAt, Window!Entry
<1>7. /\ Len(Region) = CacheWords
      /\ Tail(Region) = [i \in 1 .. CacheWords - 1 |-> EntryAt(slots, regionStart, i + 1)]
  <2>1. Region = [i \in 1 .. CacheWords |-> EntryAt(slots, regionStart, i)]
    BY <1>1, RegionEntries
  <2>2. Region = [i \in 1 .. CacheWords |-> Region[i]]
    BY <2>1
  <2>3. /\ Len(Region) = CacheWords
        /\ Tail(Region) = [i \in 1 .. CacheWords - 1 |-> Region[i + 1]]
    BY <2>2, TailEntries, CacheGeometry
  <2>4. \A i \in 1 .. CacheWords - 1 : Region[i + 1] = EntryAt(slots, regionStart, i + 1)
    BY <2>1, CacheGeometry
  <2> QED
    BY <2>3, <2>4
<1>8. Region' = [i \in 1 .. CacheWords |->
                   IF i = CacheWords THEN Window!Entry(address, word) ELSE Tail(Region)[i]]
  <2>1. Region' = [i \in 1 .. CacheWords |-> EntryAt(slots', next, i)]
    BY <1>1, RegionEntries
  <2>2. ASSUME NEW i \in 1 .. CacheWords
        PROVE  EntryAt(slots', next, i)
                 = IF i = CacheWords THEN Window!Entry(address, word) ELSE Tail(Region)[i]
    <3>1. CASE i = CacheWords
      BY <1>6, <3>1
    <3>2. CASE i # CacheWords
      <4>1. i \in 1 .. CacheWords - 1
        BY <3>2, CacheGeometry
      <4> QED
        BY <1>5, <1>7, <3>2, <4>1
    <3> QED
      BY <3>1, <3>2
  <2> QED
    BY <2>1, <2>2
<1>9. Region' = Append(Tail(Region), Window!Entry(address, word))
  <2> DEFINE t == Tail(Region)
             e == Window!Entry(address, word)
  <2>1. t = [i \in 1 .. CacheWords - 1 |-> t[i]]
    BY <1>7
  <2> HIDE DEF t, e
  <2>2. Append(t, e) = [i \in 1 .. CacheWords |-> IF i = CacheWords THEN e ELSE t[i]]
    <3>1. PICK n \in Nat : n = CacheWords - 1
      BY CacheGeometry
    <3>2. CacheWords = n + 1 /\ t = [i \in 1 .. n |-> t[i]]
      BY <2>1, <3>1, CacheGeometry
    <3> QED
      BY <3>2, AppendEntry
  <2> QED
    BY <1>8, <2>2 DEF t, e
<1> QED
  BY <1>7, <1>9 DEF Window!Extend

LEMMA RestartAgrees ==
  ASSUME TypeOK, NEW address \in CacheAddresses, NEW word \in Values, Restart(address, word)
  PROVE  Region' = <<Window!Entry(address, word)>>
<1>1. regionStart' = address /\ regionCount' = 1 /\ slots'[SlotOf(address)] = word
  BY SlotOfAddress DEF Restart, Place, NoValidSlot
<1>2. Position(address, 1) = address
  BY CacheGeometry DEF Position, CacheAddresses
<1>3. Region' = [i \in 1 .. 1 |-> EntryAt(slots', address, i)]
  BY <1>1, RegionEntries
<1>4. \A i \in 1 .. 1 : EntryAt(slots', address, i) = Window!Entry(address, word)
  BY <1>1, <1>2 DEF EntryAt, Window!Entry
<1> QED
  BY <1>3, <1>4

\* The window continues where the region appends.
LEMMA ContinuesAtAppend ==
  ASSUME TypeOK, NEW address \in CacheAddresses
  PROVE  Window!Continues(address) <=> regionCount > 0 /\ address = AppendAddress
<1>1. regionCount \in Nat /\ regionStart \in Int
  BY CacheGeometry DEF TypeOK, CacheAddresses
<1>2. Region = [i \in 1 .. regionCount |-> EntryAt(slots, regionStart, i)]
  BY RegionEntries
<1>3. Len(Region) = regionCount /\ (Region # <<>> <=> regionCount > 0)
  BY <1>1, <1>2
<1>4. ASSUME regionCount > 0
      PROVE  (Region[Len(Region)].address + 1) % AddressSpace = AppendAddress
  <2>1. Region[Len(Region)].address = (regionStart + regionCount - 1) % AddressSpace
    BY <1>1, <1>2, <1>3, <1>4 DEF EntryAt, Position
  <2>2. regionStart + regionCount - 1 \in Int
    BY <1>1
  <2>3. (((regionStart + regionCount - 1) % AddressSpace) + 1) % AddressSpace
          = (regionStart + regionCount - 1 + 1) % AddressSpace
    BY <2>2, ModSum, CacheGeometry
  <2>4. regionStart + regionCount - 1 + 1 = regionStart + regionCount
    BY <1>1
  <2> QED
    BY <2>1, <2>3, <2>4 DEF AppendAddress
<1> QED
  BY <1>3, <1>4 DEF Window!Continues

\* Every fill is the window's fill with the same address and word.
LEMMA FillAgrees ==
  ASSUME TypeOK, NEW address \in CacheAddresses, NEW word \in Values, Fill(address, word)
  PROVE  Window!Fill(address, word)
<1>1. Window!Holds(address) <=> InRegion(address)
  BY RegionIsWindow DEF Window!Holds
<1>2. Window!Continues(address) <=> regionCount > 0 /\ address = AppendAddress
  BY ContinuesAtAppend
<1>3. CASE Rewrite(address, word)
  BY <1>1, <1>3, RewriteAgrees DEF Rewrite, Window!Fill
<1>4. CASE Lengthen(address, word)
  <2>1. regionCount > 0
    BY <1>4, CacheGeometry DEF Lengthen
  <2> QED
    BY <1>1, <1>2, <1>4, <2>1, LengthenAgrees DEF Lengthen, Window!Fill
<1>5. CASE ReplaceOldest(address, word)
  <2>1. regionCount > 0
    BY <1>5, CacheGeometry DEF ReplaceOldest
  <2> QED
    BY <1>1, <1>2, <1>5, <2>1, ReplaceAgrees DEF ReplaceOldest, Window!Fill
<1>6. CASE Restart(address, word)
  <2>1. ~InRegion(address) /\ ~Window!Continues(address)
    <3>1. CASE regionCount = 0
      <4>1. regionStart \in CacheAddresses
        BY DEF TypeOK
      <4>2. Offset(regionStart, address) >= 0
        BY <4>1, OffsetRange, CacheGeometry
      <4> QED
        BY <1>2, <3>1, <4>2, OffsetRange, RegionOffsets, <4>1, CacheGeometry
    <3>2. CASE regionCount # 0
      BY <1>2, <1>6, <3>2 DEF Restart
    <3> QED
      BY <3>1, <3>2
  <2> QED
    BY <1>1, <1>6, <2>1, RestartAgrees DEF Window!Fill
<1> QED
  BY <1>3, <1>4, <1>5, <1>6 DEF Fill

\* The ring implements the window of the most recent unbroken run of fetches:
\* every fill and every clearing is the window's own, with the same arguments.
THEOREM ImplementsWindow == Spec => WindowSpec
<1>1. Init => Window!Init
  BY DEF Init, Region, Window!Init
<1>2. TypeOK /\ [Next]_vars => [Next /\ StepAgrees]_vars
  <2>1. Clear => Window!Forget
    <3>1. Clear => Region' = [i \in 1 .. 0 |-> EntryAt(slots', regionStart', i)]
      BY RegionEntries DEF Clear
    <3> QED
      BY <3>1 DEF Window!Forget
  <2> QED
    BY <2>1, FillAgrees DEF StepAgrees
<1> QED
  BY <1>1, <1>2, TypeCorrect, PTL DEF Spec, WindowSpec

-----------------------------------------------------------------------------
(* What a cache that is filled from one memory answers. *)

AnswersFrom(memory) == \A address \in CacheAddresses : Lookup(address) \in {memory[address], Unknown}

LEMMA OffsetUnique ==
  ASSUME NEW start \in CacheAddresses, NEW a \in CacheAddresses, NEW b \in CacheAddresses,
         Offset(start, a) = Offset(start, b)
  PROVE  a = b
<1>1. /\ Position(start, Offset(start, a) + 1) = a
      /\ Position(start, Offset(start, b) + 1) = b
  BY OffsetPosition
<1> QED
  BY <1>1

\* The addresses in the region after a fill were there before, the filled one aside.
LEMMA FillAddsOne ==
  ASSUME TypeOK, NEW address \in CacheAddresses, NEW word \in Values, Fill(address, word),
         NEW a \in CacheAddresses, InRegion(a)', a # address
  PROVE  InRegion(a) /\ slots'[SlotOf(a)] \in {slots[SlotOf(a)], Unknown}
<1>1. /\ TypeOK'
      /\ SlotOf(a) \in Slots /\ SlotOf(address) \in Slots
      /\ regionStart \in CacheAddresses /\ regionStart' \in CacheAddresses
      /\ regionCount \in 0 .. CacheWords /\ regionCount' \in 0 .. CacheWords
  BY FillType, SlotOfAddress DEF TypeOK
<1>2. /\ Offset(regionStart', a) < regionCount'
      /\ Offset(regionStart, a) \in 0 .. AddressSpace - 1
      /\ Offset(regionStart, address) \in 0 .. AddressSpace - 1
      /\ Offset(regionStart', a) \in 0 .. AddressSpace - 1
  BY <1>1, RegionOffsets, OffsetRange
<1>3. SlotOf(a) # SlotOf(address) => slots'[SlotOf(a)] \in {slots[SlotOf(a)], Unknown}
  BY <1>1 DEF Fill, Rewrite, Lengthen, ReplaceOldest, Restart, Place, NoValidSlot, TypeOK
<1>4. InRegion(address)' => SlotOf(a) # SlotOf(address)
  <2>1. InRegion(address)' => Offset(regionStart', address) < CacheWords
    BY <1>1, RegionOffsets, OffsetRange, CacheGeometry
  <2>2. Offset(regionStart', a) < CacheWords
    BY <1>1, <1>2, CacheGeometry
  <2> QED
    BY <1>1, <2>1, <2>2, SlotsApart DEF Offset
<1>5. CASE Rewrite(address, word)
  BY <1>3, <1>4, <1>5 DEF Rewrite, InRegion
<1>6. CASE Lengthen(address, word)
  <2>1. regionStart' = regionStart /\ regionCount' = regionCount + 1
    BY <1>6 DEF Lengthen
  <2>2. Offset(regionStart, address) = regionCount
    BY <1>6, AppendOffset, CacheGeometry DEF Lengthen
  <2>3. Offset(regionStart, a) # regionCount
    BY <1>1, <2>2, OffsetUnique
  <2>4. InRegion(a) /\ InRegion(address)'
    BY <1>1, <1>2, <2>1, <2>2, <2>3, RegionOffsets, CacheGeometry
  <2> QED
    BY <1>3, <1>4, <2>4
<1>7. CASE ReplaceOldest(address, word)
  <2>1. \A b \in CacheAddresses :
          Offset(regionStart, b) # 0 => Offset(regionStart', b) = Offset(regionStart, b) - 1
    BY <1>1, <1>7, OffsetAfterStep, CacheGeometry DEF ReplaceOldest, CacheAddresses, Offset
  <2>2. regionCount = CacheWords /\ regionCount' = CacheWords
    BY <1>7 DEF ReplaceOldest
  <2>3. Offset(regionStart, address) = CacheWords
    BY <1>7, AppendOffset, CacheGeometry DEF ReplaceOldest
  <2>4. Offset(regionStart, a) # CacheWords
    BY <1>1, <2>3, OffsetUnique
  <2>5. InRegion(a)
    BY <1>1, <1>2, <2>1, <2>2, <2>4, RegionOffsets, CacheGeometry
  <2>6. InRegion(address)'
    <3>1. Offset(regionStart', address) = CacheWords - 1
      BY <2>1, <2>3, CacheGeometry
    <3> QED
      BY <2>2, <3>1, RegionOffsets, CacheGeometry
  <2> QED
    BY <1>3, <1>4, <2>5, <2>6
<1>8. CASE Restart(address, word)
  <2>1. regionStart' = address /\ regionCount' = 1
    BY <1>8 DEF Restart
  <2>2. Offset(address, a) = 0
    BY <1>2, <2>1
  <2> QED
    BY <2>2, StartOffset
<1> QED
  BY <1>5, <1>6, <1>7, <1>8 DEF Fill

\* Filled with what a memory holds, the cache answers what that memory holds.
LEMMA FillAnswersFrom ==
  ASSUME TypeOK, NEW memory, AnswersFrom(memory), NEW address \in CacheAddresses,
         NEW word \in Values, word \in {memory[address], Unknown}, Fill(address, word)
  PROVE  AnswersFrom(memory)'
<1> SUFFICES ASSUME NEW a \in CacheAddresses, InRegion(a)'
             PROVE  slots'[SlotOf(a)] \in {memory[a], Unknown}
  BY DEF AnswersFrom, Lookup, SlotOf
<1>1. CASE a = address
  <2>1. slots'[SlotOf(address)] = word
    BY SlotOfAddress
       DEF Fill, Rewrite, Lengthen, ReplaceOldest, Restart, Place, NoValidSlot, TypeOK
  <2> QED
    BY <1>1, <2>1
<1>2. CASE a # address
  <2>1. InRegion(a) /\ slots'[SlotOf(a)] \in {slots[SlotOf(a)], Unknown}
    BY <1>2, FillAddsOne
  <2> QED
    BY <2>1 DEF AnswersFrom, Lookup
<1> QED
  BY <1>1, <1>2

=================================================================================
