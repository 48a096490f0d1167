---------------------------- MODULE InstructionCache ----------------------------
(***************************************************************************)
(* rtl/core/adsp2100_instruction_cache.sv: a ring of CacheWords slots      *)
(* addressed by the low address bits, and a monitor that knows one         *)
(* contiguous region by its start and its length.                          *)
(***************************************************************************)
EXTENDS Integers

CONSTANTS CacheWords,    \* 16 slots
          AddressSpace,  \* 2^14 program addresses
          Words,         \* 24-bit instructions
          Unknown        \* an address or a word whose validity sidecar is low

\* The slot of an address is its low bits, so the ring divides the space.
ASSUME CacheGeometry ==
  /\ CacheWords \in Nat \ {0}
  /\ AddressSpace \in Nat \ {0}
  /\ AddressSpace % CacheWords = 0
  /\ Unknown \notin Words
  /\ Unknown \notin 0 .. AddressSpace - 1

VARIABLES slots,        \* cache_data_q where cache_data_valid_q, else Unknown
          regionStart,  \* region_start_q
          regionCount   \* region_count_q

vars == <<slots, regionStart, regionCount>>

CacheAddresses == 0 .. AddressSpace - 1

Values == Words \cup {Unknown}

Slots == 0 .. CacheWords - 1

SlotOf(address) == address % CacheWords

NoValidSlot == [s \in Slots |-> Unknown]

TypeOK ==
  /\ slots \in [Slots -> Values]
  /\ regionStart \in CacheAddresses
  /\ regionCount \in 0 .. CacheWords

Init ==
  /\ slots = NoValidSlot
  /\ regionStart = 0
  /\ regionCount = 0

\* Mutant: the region is one word too long.
InRegionOffByOne(address) == (address - regionStart) % AddressSpace <= regionCount

\* lookup_hit_o, and fill_contained for the address of a fill.
InRegion(address) == (address - regionStart) % AddressSpace < regionCount

AppendAddress == (regionStart + regionCount) % AddressSpace

\* The combinational lookup port: Unknown is lookup_instruction_valid_o low.
Lookup(address) == IF InRegion(address) THEN slots[SlotOf(address)] ELSE Unknown

Place(base, address, word) == [base EXCEPT ![SlotOf(address)] = word]

\* A fill of an address the region holds rewrites its slot.
Rewrite(address, word) ==
  /\ InRegion(address)
  /\ slots' = Place(slots, address, word)
  /\ UNCHANGED <<regionStart, regionCount>>

\* A sequential fill lengthens the region.
Lengthen(address, word) ==
  /\ regionCount \in 1 .. CacheWords - 1
  /\ ~InRegion(address)
  /\ address = AppendAddress
  /\ slots' = Place(slots, address, word)
  /\ regionCount' = regionCount + 1
  /\ UNCHANGED regionStart

\* Mutant: the start of a full region stays behind.
ReplaceInPlace(address, word) ==
  /\ regionCount = CacheWords
  /\ ~InRegion(address)
  /\ address = AppendAddress
  /\ slots' = Place(slots, address, word)
  /\ UNCHANGED <<regionStart, regionCount>>

\* Mutant: the region start runs past the last address.
ReplaceWithoutWrap(address, word) ==
  /\ regionCount = CacheWords
  /\ ~InRegion(address)
  /\ address = AppendAddress
  /\ slots' = Place(slots, address, word)
  /\ regionStart' = regionStart + 1
  /\ UNCHANGED regionCount

\* A sequential fill of a full region replaces its oldest word.
ReplaceOldest(address, word) ==
  /\ regionCount = CacheWords
  /\ ~InRegion(address)
  /\ address = AppendAddress
  /\ slots' = Place([slots EXCEPT ![SlotOf(regionStart)] = Unknown], address, word)
  /\ regionStart' = (regionStart + 1) % AddressSpace
  /\ UNCHANGED regionCount

\* Mutant: the validity bits of the old region survive.
RestartKeepingSlots(address, word) ==
  /\ regionCount = 0 \/ (~InRegion(address) /\ address # AppendAddress)
  /\ slots' = Place(slots, address, word)
  /\ regionStart' = address
  /\ regionCount' = 1

\* Any other fill starts a region of one word.
Restart(address, word) ==
  /\ regionCount = 0 \/ (~InRegion(address) /\ address # AppendAddress)
  /\ slots' = Place(NoValidSlot, address, word)
  /\ regionStart' = address
  /\ regionCount' = 1

\* fill_i with a known address.
Fill(address, word) ==
  \/ Rewrite(address, word)
  \/ Lengthen(address, word)
  \/ ReplaceOldest(address, word)
  \/ Restart(address, word)

\* reset_i, or fill_i with an unknown address: no region is left.
Clear ==
  /\ slots' = NoValidSlot
  /\ regionStart' = 0
  /\ regionCount' = 0

Next == Clear \/ \E address \in CacheAddresses, word \in Values : Fill(address, word)

Spec == Init /\ [][Next]_vars

(***************************************************************************)
(* Properties.                                                             *)
(***************************************************************************)

\* The run of fetches the slots stand for, oldest first.
Region ==
  [i \in 1 .. regionCount |->
     LET address == (regionStart + i - 1) % AddressSpace
     IN  [address |-> address, word |-> slots[SlotOf(address)]]]

Window == INSTANCE FetchWindow WITH window <- Region

\* Each fill, and each clearing, changes the run as the window's own operation
\* with the same arguments does.
StepAgrees ==
  /\ Clear => Window!Forget
  /\ \A address \in CacheAddresses, word \in Values :
       Fill(address, word) => Window!Fill(address, word)

\* The ring with its start and length implements the window of the most recent
\* unbroken run of fetches: wrapping of the ring and of the address space, the
\* replaced word and the restarts lose or alias nothing.
WindowSpec == Window!Init /\ [][Next /\ StepAgrees]_vars

\* A lookup answers exactly what the window holds: never a word fetched from
\* another address that shares the slot, never one older than the last fetch.
LookupAnswersWindow == \A address \in CacheAddresses : Lookup(address) = Window!Lookup(address)

\* No slot outside the region keeps its validity bit, so a region that grows
\* over an old slot cannot revive its word.
NoStaleSlot ==
  \A s \in Slots :
    slots[s] # Unknown => \E address \in CacheAddresses : InRegion(address) /\ SlotOf(address) = s

\* Whatever region the machine restarts, grows or wraps, a hit is the word last
\* fetched from its address, and no slot is left from which another could come.
AnswersAreFresh == LookupAnswersWindow /\ NoStaleSlot

=============================================================================
