---------------------------- MODULE ProgramFlowProofs ----------------------------
(***************************************************************************)
(* Proofs about ProgramFlow.  A rule of ProgramFlow bounds only how high   *)
(* the stacks are when a word pops them.  The proofs show what the stacks  *)
(* then hold: below the entries of a service lies, untouched, what its     *)
(* interrupt found, and the entries of a loop are its own.                 *)
(***************************************************************************)
EXTENDS ProgramFlow, SequenceTheorems, FiniteSetTheorems, TLAPS

\* t starts with s.
Begins(s, t) == Len(s) <= Len(t) /\ \A k \in 1 .. Len(s) : t[k] = s[k]

Statuses == [astat : BOOLEAN, imask : SUBSET Levels]

LoopEntries == [until : Conditions, end : Addresses]

CountRecords == [cntr : Counts \cup {Unknown}, stack : Stacks(Counts)]

Contexts ==
  [pc : Addresses, astat : BOOLEAN, imask : SUBSET Levels, count : CountRecords,
   pcStack : Stacks(Addresses), loopStack : Stacks(LoopEntries),
   statusStack : Stacks(Statuses)]

Rounds ==
  [start : Addresses, load : Counts \cup {Unknown}, tests : Nat, pcs : Nat, counts : Nat]

HistoryOK ==
  /\ interrupted \in Seq([level : Levels, context : Contexts])
  /\ rounds \in Seq(Rounds)

\* No count waits for a counter that is not loaded.
CounterInv(c) == c.cntr = Unknown => c.stack.items = <<>>

CounterOK(c) ==
  c \in CountRecords /\ Len(c.stack.items) <= CountDepth /\ CounterInv(c)

TypeInv ==
  /\ program \in Programs
  /\ TypeOK /\ HistoryOK
  /\ CounterInv(count)
  /\ vectoring # NoLevel => vectoring \in Pins
  /\ edgePending \subseteq Pins

-----------------------------------------------------------------------------
(* What an interrupt saves *)

StatusOf(c) == [astat |-> c.astat, imask |-> c.imask]

SavedPcs(c) == Append(c.pcStack.items, c.pc)

SavedStatuses(c) == Append(c.statusStack.items, StatusOf(c))

\* The stacks of `now` begin with what the interrupt of context c found and pushed.
Kept(c, now) ==
  /\ Begins(SavedPcs(c), now.pcStack.items)
  /\ Begins(SavedStatuses(c), now.statusStack.items)
  /\ Begins(c.loopStack.items, now.loopStack.items)
  /\ Begins(AllCounts(c.count), AllCounts(now.count))

Sound(c) ==
  /\ CounterOK(c.count)
  /\ ~c.pcStack.overflow /\ ~c.loopStack.overflow /\ ~c.statusStack.overflow
  /\ ~c.count.stack.overflow

FrameInv ==
  /\ interrupted # <<>> => ~Overflowed /\ Kept(Last(interrupted).context, Context)
  /\ \A j \in DOMAIN interrupted : Sound(interrupted[j].context)
  /\ \A i, j \in DOMAIN interrupted :
       i < j => Kept(interrupted[i].context, interrupted[j].context)

\* The mask of `now`, and every mask the program has pushed since the interrupt
\* of context c, enables no level outside S.
MasksWithin(c, now, S) ==
  /\ now.imask \subseteq S
  /\ \A k \in DOMAIN now.statusStack.items :
       k > Len(SavedStatuses(c)) => now.statusStack.items[k].imask \subseteq S

\* The levels that the service of a level lets in; EntryMask with nesting as it is.
Above(nest, level) == IF nest THEN {l \in Levels : l > level} ELSE {}

MaskInv ==
  /\ interrupted # <<>> =>
       /\ MasksWithin(Last(interrupted).context, Context,
                      Above(icntl.nest, Last(interrupted).level))
       /\ vectoring # NoLevel => vectoring \in Above(icntl.nest, Last(interrupted).level)
  /\ \A i, j \in DOMAIN interrupted :
       i < j => /\ interrupted[j].level \in Above(icntl.nest, interrupted[i].level)
                /\ MasksWithin(interrupted[i].context, interrupted[j].context,
                               Above(icntl.nest, interrupted[i].level))

-----------------------------------------------------------------------------
(* What a loop owns *)

\* Of how many rounds a count of `load` is, and what is left of it after some tests.
Length(load) == IF load = 0 THEN CountModulus ELSE load

Left(load, tests) == IF load = 0 /\ tests = 0 THEN 0 ELSE Length(load) - tests

Counted(k) == loopStack.items[k].until = "NOT_CE"

\* The entry that the loop goes back to.
PcOwned(k) ==
  rounds[k].pcs < Len(pcStack.items) /\ pcStack.items[rounds[k].pcs + 1] = rounds[k].start

\* A loop whose count is not known can only be the one that DO just set up.
CountOwned(k) ==
  LET r == rounds[k]
  IN /\ r.load # Unknown =>
          /\ r.counts \in DOMAIN AllCounts(count)
          /\ r.tests < Length(r.load)
          /\ AllCounts(count)[r.counts] = Left(r.load, r.tests)
     /\ r.load = Unknown => k = Len(rounds) /\ count.cntr = Unknown

LoopOwns(k) ==
  /\ PcOwned(k)
  /\ \A j \in DOMAIN rounds : j < k => rounds[j].pcs < rounds[k].pcs
  /\ Counted(k) => CountOwned(k)

LoopInv ==
  ~Overflowed => Len(rounds) = Len(loopStack.items) /\ \A k \in DOMAIN rounds : LoopOwns(k)

-----------------------------------------------------------------------------
(* Sequences and stacks *)

\* s and t have the same first n entries.
Share(n, s, t) == n <= Len(s) /\ n <= Len(t) /\ \A k \in 1 .. n : t[k] = s[k]

LEMMA AppendShares ==
  ASSUME NEW S, NEW s \in Seq(S), NEW e \in S, NEW n \in 0 .. Len(s)
  PROVE  Share(n, s, Append(s, e))
BY AppendProperties, LenProperties DEF Share

LEMMA PrefixFacts ==
  ASSUME NEW S, NEW s \in Seq(S), NEW n \in 0 .. Len(s)
  PROVE  /\ SubSeq(s, 1, n) \in Seq(S)
         /\ Len(SubSeq(s, 1, n)) = n
         /\ \A k \in 1 .. n : SubSeq(s, 1, n)[k] = s[k]
BY SMT

\* A sequence without its last entry.
LEMMA CutFacts ==
  ASSUME NEW S, NEW s \in Seq(S), s # <<>>
  PROVE  /\ Len(s) > 0
         /\ SubSeq(s, 1, Len(s) - 1) \in Seq(S)
         /\ Len(SubSeq(s, 1, Len(s) - 1)) = Len(s) - 1
         /\ \A k \in 1 .. Len(s) - 1 : SubSeq(s, 1, Len(s) - 1)[k] = s[k]
         /\ s[Len(s)] \in S
<1>1. Len(s) \in Nat \ {0}
  BY EmptySeq
<1>2. /\ SubSeq(s, 1, Len(s) - 1) \in Seq(S)
      /\ Len(SubSeq(s, 1, Len(s) - 1)) = Len(s) - 1
      /\ \A k \in 1 .. Len(s) - 1 : SubSeq(s, 1, Len(s) - 1)[k] = s[k]
  <2>1. Len(s) - 1 \in 0 .. Len(s)
    BY <1>1
  <2>2. QED
    BY <2>1, PrefixFacts, Zenon
<1>3. s[Len(s)] \in S
  BY <1>1
<1>4. QED
  BY <1>1, <1>2, <1>3

LEMMA CutShares ==
  ASSUME NEW S, NEW s \in Seq(S), NEW n \in Nat, n < Len(s)
  PROVE  Share(n, s, SubSeq(s, 1, Len(s) - 1))
<1>1. Len(s) \in Nat /\ s # <<>>
  BY LenProperties, EmptySeq
<1>2. QED
  BY <1>1, CutFacts DEF Share

LEMMA BeginsShares ==
  ASSUME NEW S, NEW s \in Seq(S), NEW t \in Seq(S), NEW u \in Seq(S),
         Begins(s, t), Share(Len(s), t, u)
  PROVE  Begins(s, u)
BY LenProperties DEF Begins, Share

LEMMA BeginsItself == ASSUME NEW S, NEW s \in Seq(S) PROVE Begins(s, s)
BY LenProperties DEF Begins

LEMMA BeginsTwice ==
  ASSUME NEW S, NEW s \in Seq(S), NEW t \in Seq(S), NEW u \in Seq(S), Begins(s, t), Begins(t, u)
  PROVE  Begins(s, u)
BY LenProperties DEF Begins

LEMMA BeginsWithAppended ==
  ASSUME NEW S, NEW s \in Seq(S), NEW e \in S, NEW t \in Seq(S), Begins(Append(s, e), t)
  PROVE  Begins(s, t) /\ Len(t) > Len(s) /\ t[Len(s) + 1] = e
BY AppendProperties, LenProperties DEF Begins

LEMMA BeginsAllOf ==
  ASSUME NEW S, NEW s \in Seq(S), NEW t \in Seq(S), Begins(s, t), Len(t) = Len(s)
  PROVE  t = s
BY SeqEqual DEF Begins

LEMMA CutAppended ==
  ASSUME NEW S, NEW s \in Seq(S), NEW e \in S
  PROVE  SubSeq(Append(s, e), 1, Len(Append(s, e)) - 1) = s
<1> DEFINE t == Append(s, e)
<1>1. t \in Seq(S) /\ t # <<>> /\ Len(t) = Len(s) + 1 /\ \A k \in 1 .. Len(s) : t[k] = s[k]
  BY AppendProperties
<1>2. Len(t) - 1 = Len(s)
  BY <1>1, LenProperties
<1>3. /\ SubSeq(t, 1, Len(t) - 1) \in Seq(S)
      /\ Len(SubSeq(t, 1, Len(t) - 1)) = Len(s)
      /\ \A k \in 1 .. Len(s) : SubSeq(t, 1, Len(t) - 1)[k] = t[k]
  BY <1>1, <1>2, CutFacts
<1> HIDE DEF t
<1>4. SubSeq(t, 1, Len(t) - 1) = s
  BY <1>1, <1>3, SeqEqual
<1>5. QED
  BY <1>4 DEF t

\* An entry is pushed or the overflow is remembered.
LEMMA PushFacts ==
  ASSUME NEW S, NEW stack \in Stacks(S), NEW e \in S, NEW depth \in Nat,
         Len(stack.items) <= depth
  PROVE  /\ IsStack(Push(stack, e, depth), S, depth)
         /\ stack.overflow => Push(stack, e, depth).overflow
         /\ Push(stack, e, depth).overflow \/ Push(stack, e, depth).items = Append(stack.items, e)
         /\ \A n \in 0 .. Len(stack.items) : Share(n, stack.items, Push(stack, e, depth).items)
<1>1. stack.items \in Seq(S) /\ stack.overflow \in BOOLEAN /\ Len(stack.items) \in Nat
  BY LenProperties DEF Stacks
<1>2. CASE Len(stack.items) < depth
  <2>1. Push(stack, e, depth) = [items |-> Append(stack.items, e), overflow |-> stack.overflow]
    BY <1>2 DEF Push, Stacks
  <2>2. /\ Append(stack.items, e) \in Seq(S)
        /\ Len(Append(stack.items, e)) = Len(stack.items) + 1
    BY <1>1, AppendProperties
  <2>3. QED
    BY <1>1, <1>2, <2>1, <2>2, AppendShares DEF IsStack, Stacks
<1>3. CASE ~(Len(stack.items) < depth)
  <2>1. Push(stack, e, depth) = [items |-> stack.items, overflow |-> TRUE]
    BY <1>3 DEF Push, Stacks
  <2>2. QED
    BY <1>1, <2>1 DEF IsStack, Stacks, Share
<1>4. QED
  BY <1>2, <1>3

LEMMA PopFacts ==
  ASSUME NEW S, NEW stack \in Stacks(S), NEW depth \in Nat, Len(stack.items) <= depth
  PROVE  /\ IsStack(Pop(stack), S, depth)
         /\ Pop(stack).overflow = stack.overflow
         /\ \A n \in Nat : n < Len(stack.items) => Share(n, stack.items, Pop(stack).items)
         /\ HasTop(stack) => /\ Pop(stack).items = SubSeq(stack.items, 1, Len(stack.items) - 1)
                             /\ Len(Pop(stack).items) = Len(stack.items) - 1
                             /\ Top(stack) \in S
<1>1. stack.items \in Seq(S) /\ stack.overflow \in BOOLEAN /\ Len(stack.items) \in Nat
  BY LenProperties DEF Stacks
<1>2. CASE HasTop(stack)
  <2>1. Pop(stack) = [items |-> SubSeq(stack.items, 1, Len(stack.items) - 1),
                      overflow |-> stack.overflow]
    BY <1>2 DEF Pop, Stacks
  <2>2. /\ SubSeq(stack.items, 1, Len(stack.items) - 1) \in Seq(S)
        /\ Len(SubSeq(stack.items, 1, Len(stack.items) - 1)) = Len(stack.items) - 1
        /\ Top(stack) \in S
    BY <1>1, <1>2, CutFacts DEF HasTop, Top
  <2>3. QED
    BY <1>1, <2>1, <2>2, CutShares DEF IsStack, Stacks
<1>3. CASE ~HasTop(stack)
  <2>1. Pop(stack) = stack /\ Len(stack.items) = 0
    BY <1>1, <1>3, EmptySeq DEF Pop, HasTop
  <2>2. QED
    BY <1>1, <1>3, <2>1 DEF IsStack
<1>4. QED
  BY <1>2, <1>3

LEMMA LastBack ==
  ASSUME NEW S, NEW s \in Seq(S), s # <<>>
  PROVE  Append(SubSeq(s, 1, Len(s) - 1), s[Len(s)]) = s
<1> DEFINE t == SubSeq(s, 1, Len(s) - 1)
           u == Append(t, s[Len(s)])
<1>1. /\ Len(s) \in Nat /\ s[Len(s)] \in S
      /\ t \in Seq(S) /\ Len(t) = Len(s) - 1 /\ \A k \in 1 .. Len(t) : t[k] = s[k]
  BY CutFacts, LenProperties
<1> HIDE DEF t
<1>2. /\ u \in Seq(S) /\ Len(u) = Len(t) + 1
      /\ \A k \in 1 .. Len(t) : u[k] = t[k]
      /\ u[Len(t) + 1] = s[Len(s)]
  BY <1>1, AppendProperties
<1> HIDE DEF u
<1>3. Len(u) = Len(s) /\ \A k \in 1 .. Len(u) : u[k] = s[k]
  BY <1>1, <1>2
<1>4. u = s
  BY <1>1, <1>2, <1>3, SeqEqual
<1>5. QED
  BY <1>4 DEF u, t

-----------------------------------------------------------------------------
(* The counter *)

\* The counts are there exactly when the counter is loaded.
LEMMA AllCountsFacts ==
  ASSUME NEW c, CounterOK(c)
  PROVE  /\ AllCounts(c) \in Seq(Counts)
         /\ c.cntr = Unknown => AllCounts(c) = <<>> /\ c.stack.items = <<>>
         /\ c.cntr # Unknown => /\ AllCounts(c) = Append(c.stack.items, c.cntr)
                                /\ Len(AllCounts(c)) = Len(c.stack.items) + 1
                                /\ AllCounts(c)[Len(AllCounts(c))] = c.cntr
<1> USE DEF CounterOK, CountRecords, Stacks, CounterInv
<1>1. CASE c.cntr = Unknown
  BY <1>1, EmptySeq DEF AllCounts
<1>2. CASE c.cntr # Unknown
  <2>1. c.cntr \in Counts /\ c.stack.items \in Seq(Counts)
    BY <1>2
  <2>2. QED
    BY <1>2, <2>1, AppendProperties DEF AllCounts
<1>3. QED
  BY <1>1, <1>2

\* A counter is known by its counts.
LEMMA AllCountsTell ==
  ASSUME NEW c, NEW d, CounterOK(c), CounterOK(d), AllCounts(c) = AllCounts(d),
         c.stack.overflow = d.stack.overflow
  PROVE  c = d
<1> USE DEF CounterOK, CountRecords, Stacks, CounterInv
<1>1. CASE c.cntr = Unknown
  <2>1. d.cntr = Unknown
    BY <1>1, AllCountsFacts, AppendProperties DEF AllCounts
  <2>2. QED
    BY <1>1, <2>1
<1>2. CASE c.cntr # Unknown
  <2>1. d.cntr # Unknown
    BY <1>2, AllCountsFacts, AppendProperties DEF AllCounts
  <2>2. Append(c.stack.items, c.cntr) = Append(d.stack.items, d.cntr)
    BY <1>2, <2>1, AllCountsFacts
  <2>3. c.cntr = d.cntr /\ c.stack.items = d.stack.items
    BY <1>2, <2>1, <2>2, AppendInjective
  <2>4. QED
    BY <2>3
<1>3. QED
  BY <1>1, <1>2

LEMMA LoadFacts ==
  ASSUME CounterOK(count), NEW value \in Counts
  PROVE  /\ CounterOK(Load(value))
         /\ count.stack.overflow => Load(value).stack.overflow
         /\ \/ Load(value).stack.overflow
            \/ AllCounts(Load(value)) = Append(AllCounts(count), value)
<1> DEFINE new == Load(value)
<1>1. value # Unknown /\ CountDepth \in Nat
  BY CounterConstants
<1>2. CASE count.cntr = Unknown
  <2>1. new = [cntr |-> value, stack |-> count.stack]
    BY <1>2 DEF Load
  <2>2. new \in CountRecords /\ new.cntr = value /\ new.stack = count.stack
    BY <2>1 DEF CounterOK, CountRecords
  <2>3. AllCounts(count) = <<>> /\ count.stack.items = <<>>
    BY <1>2 DEF AllCounts, CounterOK, CounterInv
  <2> HIDE DEF new
  <2>4. AllCounts(new) = Append(AllCounts(count), value)
    BY <1>1, <2>2, <2>3 DEF AllCounts
  <2>5. QED
    BY <1>1, <2>2, <2>4 DEF CounterOK, CounterInv, new
<1>3. CASE count.cntr # Unknown
  <2> DEFINE pushed == Push(count.stack, count.cntr, CountDepth)
  <2>1. new = [cntr |-> value, stack |-> pushed]
    BY <1>3 DEF Load
  <2>2. count.cntr \in Counts /\ count.stack \in Stacks(Counts)
        /\ Len(count.stack.items) <= CountDepth
    BY <1>3 DEF CounterOK, CountRecords
  <2>3. /\ IsStack(pushed, Counts, CountDepth)
        /\ count.stack.overflow => pushed.overflow
        /\ pushed.overflow \/ pushed.items = Append(count.stack.items, count.cntr)
    BY <1>1, <2>2, PushFacts
  <2>4. AllCounts(count) = Append(count.stack.items, count.cntr)
    BY <1>3 DEF AllCounts
  <2>5. AllCounts(new) = Append(pushed.items, value)
    BY <1>1, <2>1 DEF AllCounts
  <2> HIDE DEF pushed
  <2>6. new \in CountRecords /\ new.cntr = value /\ new.stack = pushed
    BY <2>1, <2>3 DEF CountRecords, IsStack
  <2> HIDE DEF new
  <2>7. QED
    BY <1>1, <2>3, <2>4, <2>5, <2>6 DEF CounterOK, CounterInv, IsStack, new
<1>4. QED
  BY <1>2, <1>3

LEMMA RestoredFacts ==
  ASSUME CounterOK(count), count.cntr # Unknown
  PROVE  /\ CounterOK(Restored)
         /\ Restored.stack.overflow = count.stack.overflow
         /\ AllCounts(Restored) = count.stack.items
<1>1. /\ count.stack \in Stacks(Counts) /\ Len(count.stack.items) <= CountDepth
      /\ CountDepth \in Nat /\ count.stack.items \in Seq(Counts) /\ Unknown \notin Counts
  BY CounterConstants DEF CounterOK, CountRecords, Stacks
<1>2. CASE HasTop(count.stack)
  <2>1. /\ Restored = [cntr |-> Top(count.stack), stack |-> Pop(count.stack)]
        /\ Top(count.stack) \in Counts
        /\ IsStack(Pop(count.stack), Counts, CountDepth)
        /\ Pop(count.stack).overflow = count.stack.overflow
        /\ Pop(count.stack).items = SubSeq(count.stack.items, 1, Len(count.stack.items) - 1)
    BY <1>1, <1>2, PopFacts DEF Restored
  <2>2. AllCounts(Restored) = Append(Pop(count.stack).items, Top(count.stack))
    BY <1>1, <2>1 DEF AllCounts
  <2>3. AllCounts(Restored) = count.stack.items
    BY <1>1, <1>2, <2>1, <2>2, LastBack DEF HasTop, Top
  <2>4. QED
    BY <1>1, <2>1, <2>3 DEF CounterOK, CounterInv, CountRecords, IsStack
<1>3. CASE ~HasTop(count.stack)
  <2>1. Restored = [cntr |-> Unknown, stack |-> count.stack] /\ count.stack.items = <<>>
    BY <1>3 DEF Restored, Pop, HasTop
  <2>2. QED
    BY <1>1, <2>1 DEF CounterOK, CounterInv, CountRecords, AllCounts
<1>4. QED
  BY <1>2, <1>3

\* A test that does not end the count changes nothing but the innermost count.
LEMMA DecrementFacts ==
  ASSUME CounterOK(count), count.cntr # Unknown, ~Expired
  PROVE  /\ CounterOK(Test)
         /\ Test.stack = count.stack
         /\ Test.cntr = (count.cntr - 1) % CountModulus
         /\ AllCounts(Test) = Append(count.stack.items, (count.cntr - 1) % CountModulus)
<1>1. Test = [count EXCEPT !.cntr = (count.cntr - 1) % CountModulus]
  BY DEF Test, Expired
<1>2. count.cntr \in Counts /\ (count.cntr - 1) % CountModulus \in Counts
  BY CounterConstants DEF CounterOK, CountRecords, Counts
<1>3. Test = [cntr |-> (count.cntr - 1) % CountModulus, stack |-> count.stack]
  BY <1>1 DEF CounterOK, CountRecords
<1>4. QED
  BY <1>2, <1>3, CounterConstants DEF CounterOK, CounterInv, CountRecords, AllCounts

-----------------------------------------------------------------------------
(* What one instruction does to the stacks *)

LEMMA InstructionFacts ==
  ASSUME TypeInv
  PROVE  /\ Is("LOAD") => instruction.value \in Counts
         /\ Is("DO") => instruction.until \in Conditions /\ instruction.end \in Addresses
         /\ Is("IMASK") => instruction.mask \in SUBSET Levels
         /\ Is("ICNTL") => instruction.edge \in SUBSET Levels /\ instruction.nest \in BOOLEAN
         /\ instruction.op \in {"JUMP", "CALL", "TRAP"} => instruction.target \in Addresses
<1>1. instruction \in Instructions
  BY ProgramFlowConstants DEF TypeInv, TypeOK, instruction
<1>2. QED
  BY <1>1 DEF Instructions, Is

LEMMA AddressAfterType ==
  ASSUME NEW address \in Addresses
  PROVE  AddressAfter(address) \in Addresses
<1> DEFINE n == Cardinality(Addresses)
<1>1. n \in Nat \ {0} /\ Addresses = 0 .. n - 1
  BY ProgramFlowConstants
<1> HIDE DEF n
<1>2. (address + 1) % n \in 0 .. n - 1
  BY <1>1
<1>3. QED
  BY <1>1, <1>2 DEF AddressAfter, n

\* The first n counts of the counter c are those of the counter there is.
CountsShared(n, c) == c.stack.overflow \/ Share(n, AllCounts(count), AllCounts(c))

LEMMA RestoredShares ==
  ASSUME CounterOK(count), count.cntr # Unknown, NEW n \in Nat, n < Len(AllCounts(count))
  PROVE  CountsShared(n, Restored)
<1>1. /\ count.cntr \in Counts /\ count.stack.items \in Seq(Counts)
      /\ AllCounts(count) = Append(count.stack.items, count.cntr)
      /\ Len(AllCounts(count)) = Len(count.stack.items) + 1
  BY AllCountsFacts DEF CounterOK, CountRecords, Stacks
<1>2. \A k \in 1 .. Len(count.stack.items) : AllCounts(count)[k] = count.stack.items[k]
  BY <1>1, AppendProperties
<1>3. Len(count.stack.items) \in Nat
  BY <1>1, LenProperties
<1>4. QED
  BY <1>1, <1>2, <1>3, RestoredFacts DEF CountsShared, Share

LEMMA DecrementShares ==
  ASSUME CounterOK(count), count.cntr # Unknown, ~Expired,
         NEW n \in Nat, n < Len(AllCounts(count))
  PROVE  CountsShared(n, Test)
<1> DEFINE left == (count.cntr - 1) % CountModulus
<1>1. /\ count.cntr \in Counts /\ count.stack.items \in Seq(Counts)
      /\ AllCounts(count) = Append(count.stack.items, count.cntr)
      /\ Len(AllCounts(count)) = Len(count.stack.items) + 1
  BY AllCountsFacts DEF CounterOK, CountRecords, Stacks
<1>2. left \in Counts /\ AllCounts(Test) = Append(count.stack.items, left)
  BY <1>1, DecrementFacts, CounterConstants DEF Counts
<1> HIDE DEF left
<1>3. /\ Len(count.stack.items) \in Nat
      /\ n \in 0 .. Len(count.stack.items)
  BY <1>1, LenProperties
<1>4. /\ Share(n, count.stack.items, AllCounts(count))
      /\ Share(n, count.stack.items, AllCounts(Test))
  BY <1>1, <1>2, <1>3, AppendShares
<1>5. QED
  BY <1>4 DEF CountsShared, Share

LEMMA UnchangedShares ==
  ASSUME CounterOK(count), NEW n \in 0 .. Len(AllCounts(count))
  PROVE  CountsShared(n, count)
BY AllCountsFacts DEF CountsShared, Share

\* A counter that a test, a POP or a load leaves is one, and its counts but the
\* one used are still there.
LEMMA TestFacts ==
  ASSUME CounterOK(count)
  PROVE  /\ CounterOK(Test)
         /\ Test.stack.overflow = count.stack.overflow
         /\ \A n \in Nat : n < Len(AllCounts(count)) => CountsShared(n, Test)
<1>1. CASE count.cntr = Unknown
  <2>1. Test = count
    BY <1>1, CounterConstants DEF Test, Expired, Counts
  <2>2. QED
    BY <2>1, UnchangedShares
<1>2. CASE count.cntr # Unknown /\ Expired
  <2>1. Test = Restored
    BY <1>2 DEF Test, Expired
  <2>2. QED
    BY <1>2, <2>1, RestoredFacts, RestoredShares
<1>3. CASE count.cntr # Unknown /\ ~Expired
  BY <1>3, DecrementFacts, DecrementShares
<1>4. QED
  BY <1>1, <1>2, <1>3

LEMMA PopCountFacts ==
  ASSUME CounterOK(count)
  PROVE  /\ CounterOK(PopCount)
         /\ PopCount.stack.overflow = count.stack.overflow
         /\ \A n \in Nat : n < Len(AllCounts(count)) => CountsShared(n, PopCount)
<1>1. CASE HasTop(count.stack)
  <2>1. count.cntr # Unknown /\ PopCount = Restored
    BY <1>1 DEF HasTop, PopCount, CounterOK, CounterInv
  <2>2. QED
    BY <2>1, RestoredFacts, RestoredShares
<1>2. CASE ~HasTop(count.stack)
  BY <1>2, UnchangedShares DEF PopCount
<1>3. QED
  BY <1>1, <1>2

LEMMA LoadShares ==
  ASSUME CounterOK(count), NEW value \in Counts, NEW n \in 0 .. Len(AllCounts(count))
  PROVE  CountsShared(n, Load(value))
BY LoadFacts, AllCountsFacts, AppendShares DEF CountsShared

\* No retirement takes more of the counts than it says it uses.
LEMMA CountAfterFacts ==
  ASSUME TypeInv, Executable
  PROVE  /\ CounterOK(CountAfter)
         /\ count.stack.overflow => CountAfter.stack.overflow
         /\ \A n \in 0 .. Len(AllCounts(count)) :
              (UsesCount => n < Len(AllCounts(count))) => CountsShared(n, CountAfter)
<1>1. CounterOK(count)
  BY DEF TypeInv, TypeOK, CountOK, CounterOK, CountRecords
<1>2. CASE Is("LOAD")
  <2>1. CountAfter = Load(instruction.value)
    BY <1>2 DEF CountAfter, Executable, AutomaticManualConflict, Is, JumpTestsCounter
  <2>2. QED
    BY <1>1, <1>2, <2>1, LoadFacts, LoadShares, InstructionFacts
<1>3. CASE Is("STACK") /\ instruction.count
  <2>1. CountAfter = PopCount /\ UsesCount
    BY <1>3 DEF CountAfter, Executable, AutomaticManualConflict, Is, JumpTestsCounter, UsesCount
  <2>2. QED
    BY <1>1, <2>1, PopCountFacts
<1>4. CASE ~Is("LOAD") /\ ~(Is("STACK") /\ instruction.count)
             /\ (JumpTestsCounter \/ LoopTestsCounter)
  <2>1. CountAfter = Test /\ UsesCount
    BY <1>4 DEF CountAfter, UsesCount
  <2>2. QED
    BY <1>1, <2>1, TestFacts
<1>5. CASE ~Is("LOAD") /\ ~UsesCount
  <2>1. CountAfter = count
    BY <1>5 DEF CountAfter, UsesCount
  <2>2. QED
    BY <1>1, <2>1, UnchangedShares
<1>6. QED
  BY <1>2, <1>3, <1>4, <1>5 DEF UsesCount

LEMMA PcStackAfterFacts ==
  ASSUME TypeInv, Executable
  PROVE  /\ IsStack(PcStackAfter, Addresses, PcDepth)
         /\ pcStack.overflow => PcStackAfter.overflow
         /\ \A n \in 0 .. Len(pcStack.items) :
              (PopsPc => n < Len(pcStack.items)) => Share(n, pcStack.items, PcStackAfter.items)
<1>1. /\ pcStack \in Stacks(Addresses) /\ Len(pcStack.items) <= PcDepth /\ PcDepth \in Nat
      /\ pcStack.items \in Seq(Addresses) /\ AddressAfter(pc) \in Addresses
  BY AddressAfterType, ProgramFlowConstants DEF TypeInv, TypeOK, IsStack, Stacks
<1>2. CASE PcStackAfter = Push(pcStack, AddressAfter(pc), PcDepth)
  BY <1>1, <1>2, PushFacts
<1>3. CASE PcStackAfter = Pop(pcStack) /\ PopsPc
  BY <1>1, <1>3, PopFacts
<1>4. CASE PcStackAfter = pcStack
  BY <1>1, <1>4, LenProperties DEF IsStack, Share
<1>5. QED
  BY <1>2, <1>3, <1>4 DEF PcStackAfter, PopsPc

LEMMA LoopStackAfterFacts ==
  ASSUME TypeInv, Executable
  PROVE  /\ IsStack(LoopStackAfter, LoopEntries, LoopDepth)
         /\ loopStack.overflow => LoopStackAfter.overflow
         /\ \A n \in 0 .. Len(loopStack.items) :
              (PopsLoop => n < Len(loopStack.items))
                => Share(n, loopStack.items, LoopStackAfter.items)
<1>1. /\ loopStack \in Stacks(LoopEntries) /\ Len(loopStack.items) <= LoopDepth
      /\ LoopDepth \in Nat /\ loopStack.items \in Seq(LoopEntries)
  BY ProgramFlowConstants DEF TypeInv, TypeOK, IsStack, Stacks, LoopEntries
<1>2. CASE Is("DO")
  <2> DEFINE entry == [until |-> instruction.until, end |-> instruction.end]
  <2>1. entry \in LoopEntries
    BY <1>2, InstructionFacts DEF LoopEntries
  <2>2. LoopStackAfter = Push(loopStack, entry, LoopDepth)
    BY <1>2 DEF LoopStackAfter, Executable, LoopSetupPossible, LoopExits, LoopActs, Is
  <2> HIDE DEF entry
  <2>3. QED
    BY <1>1, <2>1, <2>2, PushFacts
<1>3. CASE ~Is("DO") /\ PopsLoop
  <2>1. LoopStackAfter = Pop(loopStack)
    BY <1>3 DEF LoopStackAfter, PopsLoop
  <2>2. QED
    BY <1>1, <1>3, <2>1, PopFacts
<1>4. CASE ~Is("DO") /\ ~PopsLoop
  <2>1. LoopStackAfter = loopStack
    BY <1>4 DEF LoopStackAfter, PopsLoop
  <2>2. QED
    BY <1>1, <2>1, LenProperties DEF IsStack, Share
<1>5. QED
  BY <1>2, <1>3, <1>4

LEMMA WriteStatusFacts ==
  ASSUME TypeInv, WriteStatus
  PROVE  /\ IsStack(statusStack', Statuses, StatusDepth)
         /\ astat' \in BOOLEAN /\ imask' \in SUBSET Levels
         /\ icntl' \in [edge : SUBSET Levels, nest : BOOLEAN] \cup {Unset}
         /\ statusStack.overflow => statusStack.overflow'
         /\ \A n \in 0 .. Len(statusStack.items) :
              (RestoresStatus => n < Len(statusStack.items))
                => Share(n, statusStack.items, statusStack'.items)
<1>1. /\ statusStack \in Stacks(Statuses) /\ Len(statusStack.items) <= StatusDepth
      /\ StatusDepth \in Nat /\ statusStack.items \in Seq(Statuses)
      /\ astat \in BOOLEAN /\ imask \in SUBSET Levels
      /\ icntl \in [edge : SUBSET Levels, nest : BOOLEAN] \cup {Unset}
  BY ProgramFlowConstants DEF TypeInv, TypeOK, IsStack, Stacks, Statuses, InterruptOK
<1>2. Status \in Statuses
  BY <1>1 DEF Status, Statuses
<1>3. CASE PushStatus
  BY <1>1, <1>2, <1>3, PushFacts DEF PushStatus
<1>4. CASE RestoreStatus
  <2>1. Top(statusStack) \in Statuses
    BY <1>1, <1>4, PopFacts DEF RestoreStatus
  <2>2. Top(statusStack).astat \in BOOLEAN /\ Top(statusStack).imask \in SUBSET Levels
    BY <2>1 DEF Statuses
  <2>3. QED
    BY <1>1, <1>4, <2>2, PopFacts DEF RestoreStatus
<1>5. CASE Compute \/ WriteMask \/ WriteControl \/ KeepStatus
  <2>1. /\ statusStack' = statusStack /\ astat' \in BOOLEAN /\ imask' \in SUBSET Levels
        /\ icntl' \in [edge : SUBSET Levels, nest : BOOLEAN] \cup {Unset}
    BY <1>1, <1>5, InstructionFacts DEF Compute, WriteMask, WriteControl, KeepStatus
  <2>2. QED
    BY <1>1, <2>1, LenProperties DEF IsStack, Share
<1>6. QED
  BY <1>3, <1>4, <1>5 DEF WriteStatus

LEMMA NextPcType == ASSUME TypeInv, Executable PROVE NextPc \in Addresses
<1>1. /\ pcStack \in Stacks(Addresses) /\ Len(pcStack.items) <= PcDepth /\ PcDepth \in Nat
      /\ AddressAfter(pc) \in Addresses
  BY AddressAfterType, ProgramFlowConstants DEF TypeInv, TypeOK, IsStack
<1>2. HasTop(pcStack) => Top(pcStack) \in Addresses
  BY <1>1, PopFacts
<1>3. CASE Taken
  <2>1. Target \in Addresses
    BY <1>1, <1>2, <1>3, InstructionFacts
       DEF Target, Executable, ReturnPossible, Taken, Transfers, Is
  <2>2. QED
    BY <1>3, <2>1 DEF NextPc, LoopActs
<1>4. CASE LoopActs
  BY <1>1, <1>2, <1>4 DEF NextPc, LoopActs, AtLoopEnd, Executable, LoopContextValid
<1>5. CASE ~Taken /\ ~LoopActs
  BY <1>1, <1>5 DEF NextPc
<1>6. QED
  BY <1>3, <1>4, <1>5

-----------------------------------------------------------------------------
(* The interrupt controller *)

LEMMA MaxInSet ==
  ASSUME NEW S \in SUBSET Levels, S # {}
  PROVE  Max(S) \in S
<1>1. \E x \in S : \A y \in S : x >= y
  <2>1. CASE 3 \in S
    <3>1. \A y \in S : 3 >= y
      BY DEF Levels
    <3>2. QED
      BY <2>1, <3>1
  <2>2. CASE 3 \notin S /\ 2 \in S
    <3>1. \A y \in S : 2 >= y
      BY <2>2 DEF Levels
    <3>2. QED
      BY <2>2, <3>1
  <2>3. CASE 3 \notin S /\ 2 \notin S
    <3>1. \A y \in S : y \in {0, 1}
      BY <2>3 DEF Levels
    <3>2. QED
      BY <3>1
  <2>4. QED
    BY <2>1, <2>2, <2>3
<1>2. QED
  BY <1>1 DEF Max

LEMMA SampleFacts ==
  ASSUME TypeInv, NEW low \in SUBSET Pins, NEW allowed \in BOOLEAN, Sample(low, allowed)
  PROVE  /\ previousLow' \in (SUBSET Levels) \cup {Unset} /\ edgePending' \in SUBSET Pins
         /\ \/ Recognized(low, allowed) = NoLevel
            \/ allowed /\ Recognized(low, allowed) \in Pins \cap imask
<1>1. Pins \in SUBSET Levels
  BY ProgramFlowConstants
<1>2. EdgesWith(low) \in SUBSET Pins /\ Requests(low) \in SUBSET Pins
  BY DEF EdgesWith, DetectedEdges, Requests, TypeInv
<1>3. previousLow' \in (SUBSET Levels) \cup {Unset} /\ edgePending' \in SUBSET Pins
  BY <1>1, <1>2 DEF Sample
<1>4. EnabledRequests(low) \in SUBSET (Pins \cap imask)
  BY <1>2 DEF EnabledRequests
<1>5. EnabledRequests(low) # {} => Max(EnabledRequests(low)) \in Pins \cap imask
  BY <1>1, <1>4, MaxInSet
<1>6. QED
  BY <1>3, <1>5 DEF Recognized

-----------------------------------------------------------------------------
(* Types *)

LEMMA WithoutLastType ==
  ASSUME NEW S, NEW s \in Seq(S)
  PROVE  /\ WithoutLast(s) \in Seq(S)
         /\ s # <<>> => /\ Len(WithoutLast(s)) = Len(s) - 1
                        /\ \A k \in 1 .. Len(s) - 1 : WithoutLast(s)[k] = s[k]
<1>1. CASE s = <<>>
  BY <1>1, EmptySeq DEF WithoutLast
<1>2. CASE s # <<>>
  BY <1>2, CutFacts DEF WithoutLast, Front
<1>3. QED
  BY <1>1, <1>2

LEMMA CountsWellTyped == ASSUME TypeInv PROVE CounterOK(count)
BY DEF TypeInv, TypeOK, CountOK, CounterOK, CountRecords

LEMMA ContextType == ASSUME TypeInv PROVE Context \in Contexts
BY DEF TypeInv, TypeOK, CountOK, CountRecords, InterruptOK, IsStack, Context, Contexts,
       Statuses, LoopEntries

LEMMA InitTypeInv == Init => TypeInv
<1> SUFFICES ASSUME Init PROVE TypeInv
  OBVIOUS
<1>1. \A S : EmptyStack \in Stacks(S) /\ Len(EmptyStack.items) = 0
  BY EmptySeq DEF EmptyStack, Stacks
<1>2. CountOK /\ CounterInv(count)
  BY <1>1, CounterConstants DEF Init, NoCount, CountOK, CounterInv, EmptyStack
<1>3. InterruptOK
  BY DEF Init, InitInterrupts, InterruptOK
<1>4. TypeOK
  BY <1>1, <1>2, <1>3, ProgramFlowConstants DEF Init, TypeOK, IsStack
<1>5. QED
  BY <1>2, <1>4, InterruptConstants DEF Init, InitInterrupts, TypeInv, HistoryOK

LEMMA RoundsType ==
  ASSUME TypeInv, Executable, RememberLoops
  PROVE  rounds' \in Seq(Rounds)
<1>1. rounds \in Seq(Rounds)
  BY DEF TypeInv, HistoryOK
<1> DEFINE new == [start |-> AddressAfter(pc), load |-> count.cntr, tests |-> 0,
                   pcs |-> Len(pcStack.items), counts |-> Len(AllCounts(count))]
           tested == [rounds EXCEPT ![Len(rounds)].tests = @ + 1]
<1>2. new \in Rounds
  <2>1. /\ AddressAfter(pc) \in Addresses /\ count.cntr \in Counts \cup {Unknown}
        /\ Len(pcStack.items) \in Nat /\ Len(AllCounts(count)) \in Nat
    BY CountsWellTyped, AllCountsFacts, AddressAfterType, LenProperties
       DEF TypeInv, TypeOK, CounterOK, CountRecords, IsStack, Stacks
  <2>2. QED
    BY <2>1 DEF Rounds
<1>3. rounds # <<>> => tested \in Seq(Rounds)
  <2>1. SUFFICES ASSUME rounds # <<>> PROVE tested \in Seq(Rounds)
    OBVIOUS
  <2>2. Len(rounds) \in 1 .. Len(rounds) /\ rounds[Len(rounds)] \in Rounds
    BY <1>1, <2>1, CutFacts, LenProperties
  <2>3. [rounds[Len(rounds)] EXCEPT !.tests = @ + 1] \in Rounds
    BY <2>2 DEF Rounds
  <2>4. tested = [rounds EXCEPT ![Len(rounds)] = [rounds[Len(rounds)] EXCEPT !.tests = @ + 1]]
    BY <1>1, <2>2
  <2>5. QED
    BY <1>1, <2>2, <2>3, <2>4, ExceptSeq
<1>4. /\ <<>> \in Seq(Rounds) /\ WithoutLast(rounds) \in Seq(Rounds)
      /\ Append(rounds, new) \in Seq(Rounds)
  BY <1>1, <1>2, WithoutLastType, EmptySeq, AppendProperties
<1>5. QED
  BY <1>1, <1>3, <1>4 DEF RememberLoops

LEMMA RetireTypeInv ==
  ASSUME TypeInv, NEW low \in SUBSET Pins, Retire(low)
  PROVE  TypeInv'
<1>1. Executable /\ WriteStatus
  BY DEF Retire
<1>2. CountOK' /\ CounterInv(count')
  BY <1>1, CountAfterFacts DEF Retire, CountOK, CounterOK, CountRecords
<1>3. /\ IsStack(pcStack', Addresses, PcDepth)
      /\ IsStack(loopStack', LoopEntries, LoopDepth)
      /\ IsStack(statusStack', Statuses, StatusDepth)
      /\ pc' \in Addresses
  BY <1>1, PcStackAfterFacts, LoopStackAfterFacts, WriteStatusFacts, NextPcType DEF Retire
<1>4. /\ previousLow' \in (SUBSET Levels) \cup {Unset} /\ edgePending' \in SUBSET Pins
      /\ vectoring' = NoLevel \/ vectoring' \in Pins
  BY SampleFacts DEF Retire, ServiceAllowed
<1>5. InterruptOK' /\ astat' \in BOOLEAN
  BY <1>1, <1>4, WriteStatusFacts, ProgramFlowConstants DEF InterruptOK
<1>6. TypeOK'
  BY <1>2, <1>3, <1>4, <1>5, ProgramFlowConstants DEF TypeOK, LoopEntries, Statuses
<1>7. HistoryOK'
  <2>1. interrupted' \in Seq([level : Levels, context : Contexts])
    BY WithoutLastType, EmptySeq DEF TypeInv, HistoryOK, Retire, RememberServices
  <2>2. QED
    BY <1>1, <2>1, RoundsType DEF Retire, HistoryOK
<1>8. QED
  BY <1>2, <1>4, <1>6, <1>7 DEF Retire, TypeInv

LEMMA EnterTypeInv ==
  ASSUME TypeInv, NEW low \in SUBSET Pins, EnterInterrupt(low)
  PROVE  TypeInv'
<1>1. /\ pcStack \in Stacks(Addresses) /\ Len(pcStack.items) <= PcDepth /\ PcDepth \in Nat
      /\ statusStack \in Stacks(Statuses) /\ Len(statusStack.items) <= StatusDepth
      /\ StatusDepth \in Nat /\ pc \in Addresses /\ vectoring \in Levels
      /\ vectoring \in Addresses
  BY ProgramFlowConstants DEF TypeInv, TypeOK, IsStack, Statuses, EnterInterrupt
<1>2. Status \in Statuses
  BY DEF TypeInv, TypeOK, InterruptOK, Status, Statuses
<1>3. /\ IsStack(pcStack', Addresses, PcDepth)
      /\ IsStack(statusStack', Statuses, StatusDepth)
  BY <1>1, <1>2, PushFacts DEF EnterInterrupt
<1>4. previousLow' \in (SUBSET Levels) \cup {Unset} /\ edgePending' \in SUBSET Pins
  BY SampleFacts DEF EnterInterrupt
<1>5. InterruptOK'
  <2>1. EntryMask(vectoring) \in SUBSET Levels
    BY DEF EntryMask
  <2>2. QED
    BY <1>4, <2>1, ProgramFlowConstants DEF EnterInterrupt, TypeInv, TypeOK, InterruptOK
<1>6. TypeOK'
  BY <1>1, <1>3, <1>5 DEF EnterInterrupt, TypeInv, TypeOK, CountOK, Statuses
<1>7. HistoryOK'
  <2>1. [level |-> vectoring, context |-> Context] \in [level : Levels, context : Contexts]
    BY <1>1, ContextType
  <2>2. interrupted' \in Seq([level : Levels, context : Contexts])
    BY <2>1, EmptySeq, AppendProperties DEF EnterInterrupt, TypeInv, HistoryOK
  <2>3. rounds' \in Seq(Rounds)
    BY EmptySeq DEF EnterInterrupt, TypeInv, HistoryOK
  <2>4. QED
    BY <2>2, <2>3 DEF HistoryOK
<1>8. QED
  BY <1>4, <1>6, <1>7 DEF EnterInterrupt, TypeInv

LEMMA ResetTypeInv == ASSUME TypeInv, Reset PROVE TypeInv'
<1>1. \A S : EmptyStack \in Stacks(S) /\ Len(EmptyStack.items) = 0
  BY EmptySeq DEF EmptyStack, Stacks
<1>2. CountOK' /\ CounterInv(count')
  BY <1>1, CounterConstants DEF Reset, NoCount, CountOK, CounterInv, EmptyStack
<1>3. InterruptOK'
  BY DEF Reset, ResetInterrupts, InterruptOK
<1>4. TypeOK'
  BY <1>1, <1>2, <1>3, ProgramFlowConstants DEF Reset, TypeInv, TypeOK, IsStack
<1>5. HistoryOK'
  BY EmptySeq DEF Reset, HistoryOK
<1>6. QED
  BY <1>2, <1>4, <1>5 DEF Reset, ResetInterrupts, TypeInv

LEMMA StepTypeInv == ASSUME TypeInv, [Next]_vars PROVE TypeInv'
<1>1. ASSUME NEW low \in SUBSET Pins, WaitCycle(low)
      PROVE  TypeInv'
  <2>1. previousLow' \in (SUBSET Levels) \cup {Unset} /\ edgePending' \in SUBSET Pins
    BY <1>1, SampleFacts DEF WaitCycle
  <2>2. QED
    BY <1>1, <2>1, ProgramFlowConstants
       DEF WaitCycle, machine, TypeInv, TypeOK, HistoryOK, CountOK, InterruptOK
<1>2. CASE UNCHANGED vars
  BY <1>2 DEF vars, machine, interruptVars, TypeInv, TypeOK, HistoryOK, CountOK, InterruptOK
<1>3. QED
  BY <1>1, <1>2, RetireTypeInv, EnterTypeInv, ResetTypeInv DEF Next, Advance

LEMMA TypeInvHolds == Spec => []TypeInv
<1>1. QED
  BY InitTypeInv, StepTypeInv, PTL DEF Spec

\* Whatever the program: pc, the counter and the four stacks stay within their
\* widths and depths, adsp2100_sequencer_stacks.sv and adsp2100_status_stack.sv.
THEOREM TypeCorrect == Spec => []TypeOK
<1>1. TypeInv => TypeOK
  BY DEF TypeInv
<1>2. QED
  BY <1>1, TypeInvHolds, PTL

-----------------------------------------------------------------------------
(* What a service leaves alone *)

LEMMA OverflowStays ==
  ASSUME TypeInv, NEW low \in SUBSET Pins, Retire(low) \/ EnterInterrupt(low), ~Overflowed'
  PROVE  ~Overflowed
<1>1. CASE Retire(low)
  BY <1>1, CountAfterFacts, PcStackAfterFacts, LoopStackAfterFacts, WriteStatusFacts
     DEF Retire, Overflowed
<1>2. CASE EnterInterrupt(low)
  BY <1>2 DEF EnterInterrupt, Overflowed, Push
<1>3. QED
  BY <1>1, <1>2

LEMMA SavedTypes ==
  ASSUME NEW c \in Contexts
  PROVE  /\ SavedPcs(c) \in Seq(Addresses) /\ Len(SavedPcs(c)) = Len(c.pcStack.items) + 1
         /\ SavedStatuses(c) \in Seq(Statuses)
         /\ Len(SavedStatuses(c)) = Len(c.statusStack.items) + 1
         /\ c.pcStack.items \in Seq(Addresses) /\ c.statusStack.items \in Seq(Statuses)
         /\ c.loopStack.items \in Seq(LoopEntries)
         /\ c.pc \in Addresses /\ StatusOf(c) \in Statuses
<1>1. /\ c.pc \in Addresses /\ StatusOf(c) \in Statuses
      /\ c.pcStack.items \in Seq(Addresses) /\ c.statusStack.items \in Seq(Statuses)
      /\ c.loopStack.items \in Seq(LoopEntries)
  BY DEF Contexts, Stacks, StatusOf, Statuses
<1>2. QED
  BY <1>1, AppendProperties DEF SavedPcs, SavedStatuses

\* Kept hands on from an interrupt to the interrupts inside it.
LEMMA KeptTwice ==
  ASSUME NEW c \in Contexts, NEW d \in Contexts, NEW e \in Contexts,
         CounterOK(c.count), CounterOK(d.count), CounterOK(e.count), Kept(c, d), Kept(d, e)
  PROVE  Kept(c, e)
<1>1. Begins(SavedPcs(c), e.pcStack.items)
  <2>1. Begins(d.pcStack.items, e.pcStack.items)
    BY SavedTypes, BeginsWithAppended DEF Kept, SavedPcs
  <2>2. QED
    BY <2>1, SavedTypes, BeginsTwice DEF Kept
<1>2. Begins(SavedStatuses(c), e.statusStack.items)
  <2>1. Begins(d.statusStack.items, e.statusStack.items)
    BY SavedTypes, BeginsWithAppended DEF Kept, SavedStatuses
  <2>2. QED
    BY <2>1, SavedTypes, BeginsTwice DEF Kept
<1>3. Begins(c.loopStack.items, e.loopStack.items)
  BY SavedTypes, BeginsTwice DEF Kept
<1>4. Begins(AllCounts(c.count), AllCounts(e.count))
  BY AllCountsFacts, BeginsTwice DEF Kept
<1>5. QED
  BY <1>1, <1>2, <1>3, <1>4 DEF Kept

\* A retirement that takes nothing from below the entries of a service keeps
\* what the service found.
LEMMA RetireKeeps ==
  ASSUME TypeInv, NEW low \in SUBSET Pins, Retire(low), ~Overflowed',
         NEW c \in Contexts, CounterOK(c.count), Kept(c, Context),
         PopsPc => Len(pcStack.items) > Len(c.pcStack.items) + 1,
         RestoresStatus => Len(statusStack.items) > Len(c.statusStack.items) + 1,
         PopsLoop => Len(loopStack.items) > Len(c.loopStack.items),
         UsesCount => Len(AllCounts(count)) > Len(AllCounts(c.count))
  PROVE  Kept(c, Context')
<1>1. TypeInv' /\ Executable /\ WriteStatus
  BY RetireTypeInv DEF Retire
<1>2. /\ pcStack.items \in Seq(Addresses) /\ pcStack'.items \in Seq(Addresses)
      /\ statusStack.items \in Seq(Statuses) /\ statusStack'.items \in Seq(Statuses)
      /\ loopStack.items \in Seq(LoopEntries) /\ loopStack'.items \in Seq(LoopEntries)
  BY <1>1 DEF TypeInv, TypeOK, IsStack, Stacks, Statuses, LoopEntries
<1>3. CounterOK(count) /\ CounterOK(count')
  BY <1>1, CountsWellTyped DEF TypeInv, TypeOK, CountOK, CounterOK, CountRecords
<1>4. Begins(SavedPcs(c), pcStack'.items)
  <2>1. Begins(SavedPcs(c), pcStack.items)
    BY DEF Kept, Context
  <2>2. Len(SavedPcs(c)) \in 0 .. Len(pcStack.items)
    BY <1>2, <2>1, SavedTypes, LenProperties DEF Begins
  <2>3. Share(Len(SavedPcs(c)), pcStack.items, pcStack'.items)
    BY <1>1, <2>2, SavedTypes, PcStackAfterFacts DEF Retire
  <2>4. QED
    BY <1>2, <2>1, <2>3, SavedTypes, BeginsShares
<1>5. Begins(SavedStatuses(c), statusStack'.items)
  <2>1. Begins(SavedStatuses(c), statusStack.items)
    BY DEF Kept, Context
  <2>2. Len(SavedStatuses(c)) \in 0 .. Len(statusStack.items)
    BY <1>2, <2>1, SavedTypes, LenProperties DEF Begins
  <2>3. Share(Len(SavedStatuses(c)), statusStack.items, statusStack'.items)
    BY <1>1, <2>2, SavedTypes, WriteStatusFacts
  <2>4. QED
    BY <1>2, <2>1, <2>3, SavedTypes, BeginsShares
<1>6. Begins(c.loopStack.items, loopStack'.items)
  <2>1. Begins(c.loopStack.items, loopStack.items)
    BY DEF Kept, Context
  <2>2. Len(c.loopStack.items) \in 0 .. Len(loopStack.items)
    BY <1>2, <2>1, SavedTypes, LenProperties DEF Begins
  <2>3. Share(Len(c.loopStack.items), loopStack.items, loopStack'.items)
    BY <1>1, <2>2, LoopStackAfterFacts DEF Retire
  <2>4. QED
    BY <1>2, <2>1, <2>3, SavedTypes, BeginsShares
<1>7. Begins(AllCounts(c.count), AllCounts(count'))
  <2>1. Begins(AllCounts(c.count), AllCounts(count))
    BY DEF Kept, Context
  <2>2. Len(AllCounts(c.count)) \in 0 .. Len(AllCounts(count))
    BY <1>3, <2>1, AllCountsFacts, LenProperties DEF Begins
  <2>3. CountsShared(Len(AllCounts(c.count)), count')
    BY <1>1, <2>2, CountAfterFacts DEF Retire
  <2>4. QED
    BY <1>3, <2>1, <2>3, AllCountsFacts, BeginsShares DEF CountsShared, Overflowed
<1>8. QED
  BY <1>4, <1>5, <1>6, <1>7 DEF Kept, Context

LEMMA StackTells ==
  ASSUME NEW S, NEW s \in Stacks(S), NEW t \in Stacks(S),
         s.items = t.items, s.overflow = t.overflow
  PROVE  s = t
BY DEF Stacks

\* An RTI with the stacks as high as the interrupt left them gives back the
\* context that the interrupt found.
LEMMA ReturnRestores ==
  ASSUME TypeInv, NEW low \in SUBSET Pins, Retire(low), RTI, ~Overflowed,
         NEW c \in Contexts, Sound(c), Kept(c, Context),
         Len(pcStack.items) = Len(c.pcStack.items) + 1,
         Len(statusStack.items) = Len(c.statusStack.items) + 1,
         Len(loopStack.items) = Len(c.loopStack.items),
         Len(AllCounts(count)) = Len(AllCounts(c.count))
  PROVE  Context' = c
<1>1. /\ HasTop(pcStack) /\ HasTop(statusStack)
      /\ pcStack \in Stacks(Addresses) /\ pcStack.items \in Seq(Addresses)
      /\ statusStack \in Stacks(Statuses) /\ statusStack.items \in Seq(Statuses)
      /\ loopStack \in Stacks(LoopEntries) /\ loopStack.items \in Seq(LoopEntries)
  BY DEF Retire, Executable, ReturnPossible, RTI, TypeInv, TypeOK, IsStack, Stacks,
         Statuses, LoopEntries
<1>2. /\ c.pcStack \in Stacks(Addresses) /\ c.statusStack \in Stacks(Statuses)
      /\ c.loopStack \in Stacks(LoopEntries) /\ c.count \in CountRecords
  BY DEF Contexts
<1>3. pc' = c.pc /\ pcStack' = c.pcStack
  <2>1. Begins(SavedPcs(c), pcStack.items)
    BY DEF Kept, Context
  <2>2. pcStack.items = SavedPcs(c)
    BY <1>1, <2>1, SavedTypes, BeginsAllOf
  <2>3. pcStack' = Pop(pcStack) /\ pc' = Top(pcStack)
    BY DEF Retire, RTI, PcStackAfter, NextPc, Target, Is, Executable
  <2>4. pc' = c.pc
    BY <2>2, <2>3, SavedTypes, AppendProperties DEF Top, SavedPcs
  <2>5. /\ pcStack'.items = SubSeq(pcStack.items, 1, Len(pcStack.items) - 1)
        /\ pcStack'.overflow = pcStack.overflow /\ pcStack' \in Stacks(Addresses)
    BY <1>1, <2>3, PopFacts, ProgramFlowConstants DEF TypeInv, TypeOK, IsStack
  <2>6. pcStack'.items = c.pcStack.items
    BY <2>2, <2>5, SavedTypes, CutAppended DEF SavedPcs
  <2>7. pcStack' = c.pcStack
    BY <1>2, <2>5, <2>6, StackTells DEF Sound, Overflowed, Stacks
  <2>8. QED
    BY <2>4, <2>7
<1>4. astat' = c.astat /\ imask' = c.imask /\ statusStack' = c.statusStack
  <2>1. Begins(SavedStatuses(c), statusStack.items)
    BY DEF Kept, Context
  <2>2. statusStack.items = SavedStatuses(c)
    BY <1>1, <2>1, SavedTypes, BeginsAllOf
  <2>3. /\ astat' = Top(statusStack).astat /\ imask' = Top(statusStack).imask
        /\ statusStack' = Pop(statusStack)
    BY <1>1 DEF Retire, RTI, WriteStatus, Compute, WriteMask, WriteControl, PushStatus,
                RestoreStatus, KeepStatus, RestoresStatus, Is
  <2>4. Top(statusStack) = StatusOf(c)
    BY <2>2, SavedTypes, AppendProperties DEF Top, SavedStatuses
  <2>5. /\ statusStack'.items = SubSeq(statusStack.items, 1, Len(statusStack.items) - 1)
        /\ statusStack'.overflow = statusStack.overflow /\ statusStack' \in Stacks(Statuses)
    BY <1>1, <2>3, PopFacts, ProgramFlowConstants DEF TypeInv, TypeOK, IsStack, Statuses
  <2>6. statusStack'.items = c.statusStack.items
    BY <2>2, <2>5, SavedTypes, CutAppended DEF SavedStatuses
  <2>7. statusStack' = c.statusStack
    BY <1>2, <2>5, <2>6, StackTells DEF Sound, Overflowed, Stacks
  <2>8. QED
    BY <2>3, <2>4, <2>7 DEF StatusOf
<1>5. loopStack' = c.loopStack
  <2>1. Begins(c.loopStack.items, loopStack.items)
    BY DEF Kept, Context
  <2>2. loopStack.items = c.loopStack.items
    BY <1>1, <2>1, SavedTypes, BeginsAllOf
  <2>3. loopStack' = loopStack
    BY DEF Retire, RTI, LoopStackAfter, LoopExits, LoopActs, Is
  <2>4. QED
    BY <1>1, <1>2, <2>2, <2>3, StackTells DEF Sound, Overflowed, Stacks
<1>6. count' = c.count
  <2>1. CounterOK(count) /\ CounterOK(c.count)
    BY CountsWellTyped DEF Sound
  <2>2. Begins(AllCounts(c.count), AllCounts(count))
    BY DEF Kept, Context
  <2>3. AllCounts(count) = AllCounts(c.count)
    BY <2>1, <2>2, AllCountsFacts, BeginsAllOf
  <2>4. count' = count
    BY DEF Retire, RTI, CountAfter, JumpTestsCounter, LoopTestsCounter, LoopActs, Is
  <2>5. count.stack.overflow = c.count.stack.overflow
    BY <2>1 DEF Sound, Overflowed, CounterOK, CountRecords, Stacks
  <2>6. QED
    BY <2>1, <2>3, <2>4, <2>5, AllCountsTell
<1>7. QED
  BY <1>3, <1>4, <1>5, <1>6 DEF Context, Contexts

LEMMA ServedContexts ==
  ASSUME TypeInv, NEW k \in DOMAIN interrupted
  PROVE  interrupted[k].context \in Contexts /\ interrupted[k].level \in Levels
         /\ k \in 1 .. Len(interrupted) /\ Len(interrupted) \in Nat
<1> DEFINE S == [level : Levels, context : Contexts]
<1>1. interrupted \in Seq(S)
  BY DEF TypeInv, HistoryOK
<1>2. interrupted[k] \in S /\ k \in 1 .. Len(interrupted) /\ Len(interrupted) \in Nat
  <2> HIDE DEF S
  <2>1. QED
    BY <1>1, LenProperties, ElementOfSeq
<1>3. QED
  BY <1>2

LEMMA LastService ==
  ASSUME TypeInv, interrupted # <<>>
  PROVE  /\ Len(interrupted) \in DOMAIN interrupted /\ Len(interrupted) \in Nat
         /\ Last(interrupted) = interrupted[Len(interrupted)]
         /\ \A k \in DOMAIN interrupted : k <= Len(interrupted) /\ k \in Nat
BY EmptySeq, LenProperties DEF TypeInv, HistoryOK, Last

LEMMA ReturnIsTransparent ==
  ASSUME TypeInv, FrameInv, ServicesKeepTheirPlace, NEW low \in SUBSET Pins, Retire(low),
         RTI, interrupted # <<>>
  PROVE  Context' = Last(interrupted).context
<1> DEFINE c == Last(interrupted).context
<1>1. c \in Contexts /\ Sound(c) /\ Kept(c, Context) /\ ~Overflowed
  BY LastService, ServedContexts DEF FrameInv
<1>2. /\ Len(pcStack.items) = Len(c.pcStack.items) + 1
      /\ Len(statusStack.items) = Len(c.statusStack.items) + 1
      /\ Len(loopStack.items) = Len(c.loopStack.items)
      /\ Len(AllCounts(count)) = Len(AllCounts(c.count))
  BY DEF ServicesKeepTheirPlace, Retire
<1> HIDE DEF c
<1>3. Context' = c
  BY <1>1, <1>2, ReturnRestores
<1>4. QED
  BY <1>3 DEF c

LEMMA NoFrames == ASSUME interrupted' = <<>> PROVE FrameInv' /\ MaskInv'
BY DEF FrameInv, MaskInv

LEMMA WithoutLastService ==
  ASSUME TypeInv, interrupted # <<>>, interrupted' = WithoutLast(interrupted)
  PROVE  /\ \A k \in DOMAIN interrupted' :
              k \in DOMAIN interrupted /\ k < Len(interrupted) /\ interrupted'[k] = interrupted[k]
         /\ interrupted' # <<>> =>
              /\ Len(interrupted') \in DOMAIN interrupted'
              /\ Last(interrupted)' = interrupted[Len(interrupted')]
<1> DEFINE S == [level : Levels, context : Contexts]
<1>1. interrupted \in Seq(S)
  BY DEF TypeInv, HistoryOK
<1> HIDE DEF S
<1>2. /\ interrupted' \in Seq(S) /\ Len(interrupted') = Len(interrupted) - 1
      /\ \A k \in 1 .. Len(interrupted) - 1 : interrupted'[k] = interrupted[k]
      /\ Len(interrupted) \in Nat /\ DOMAIN interrupted = 1 .. Len(interrupted)
      /\ DOMAIN interrupted' = 1 .. Len(interrupted')
  BY <1>1, WithoutLastType, LenProperties
<1>3. interrupted' # <<>> => Len(interrupted') \in 1 .. Len(interrupted')
  BY <1>2, EmptySeq
<1>4. QED
  BY <1>2, <1>3 DEF Last

LEMMA OneMoreService ==
  ASSUME TypeInv, vectoring \in Levels,
         interrupted' = Append(interrupted, [level |-> vectoring, context |-> Context])
  PROVE  /\ Len(interrupted) \in Nat /\ DOMAIN interrupted = 1 .. Len(interrupted)
         /\ DOMAIN interrupted' = 1 .. Len(interrupted) + 1
         /\ \A k \in DOMAIN interrupted : interrupted'[k] = interrupted[k]
         /\ interrupted'[Len(interrupted) + 1] = [level |-> vectoring, context |-> Context]
         /\ Last(interrupted)' = [level |-> vectoring, context |-> Context]
<1> DEFINE S == [level : Levels, context : Contexts]
           e == [level |-> vectoring, context |-> Context]
<1>1. interrupted \in Seq(S) /\ e \in S
  BY ContextType DEF TypeInv, HistoryOK
<1> HIDE DEF S, e
<1>2. interrupted' = Append(interrupted, e)
  BY DEF e
<1>3. /\ interrupted' \in Seq(S) /\ Len(interrupted') = Len(interrupted) + 1
      /\ \A k \in 1 .. Len(interrupted) : interrupted'[k] = interrupted[k]
      /\ interrupted'[Len(interrupted) + 1] = e
      /\ Len(interrupted) \in Nat /\ DOMAIN interrupted = 1 .. Len(interrupted)
      /\ DOMAIN interrupted' = 1 .. Len(interrupted')
  BY <1>1, <1>2, AppendProperties, LenProperties
<1>4. QED
  BY <1>3 DEF Last, e

LEMMA RetireFrameInv ==
  ASSUME TypeInv, FrameInv, ServicesKeepTheirPlace, NEW low \in SUBSET Pins, Retire(low)
  PROVE  FrameInv'
<1>1. RememberServices
  BY DEF Retire
<1>2. CASE interrupted = <<>> \/ Overflowed'
  BY <1>1, <1>2, NoFrames DEF RememberServices, WithoutLast
<1>3. CASE interrupted # <<>> /\ ~Overflowed' /\ RTI
  <2>1. interrupted' = WithoutLast(interrupted)
    BY <1>1, <1>3 DEF RememberServices, RTI
  <2>2. Context' = Last(interrupted).context
    BY <1>3, ReturnIsTransparent
  <2>3. interrupted' # <<>> => Kept(Last(interrupted)'.context, Context')
    BY <1>3, <2>1, <2>2, WithoutLastService, LastService DEF FrameInv
  <2>4. \A j \in DOMAIN interrupted' : Sound(interrupted'[j].context)
    BY <1>3, <2>1, WithoutLastService DEF FrameInv
  <2>5. \A i, j \in DOMAIN interrupted' :
          i < j => Kept(interrupted'[i].context, interrupted'[j].context)
    BY <1>3, <2>1, WithoutLastService DEF FrameInv
  <2>6. QED
    BY <1>3, <2>3, <2>4, <2>5 DEF FrameInv
<1>4. CASE interrupted # <<>> /\ ~Overflowed' /\ ~RTI
  <2>1. interrupted' = interrupted
    BY <1>1, <1>4 DEF RememberServices, RTI
  <2> DEFINE c == Last(interrupted).context
  <2>2. c \in Contexts /\ CounterOK(c.count) /\ Kept(c, Context)
    BY <1>4, LastService, ServedContexts DEF FrameInv, Sound
  <2>3. /\ PopsPc => Len(pcStack.items) > Len(c.pcStack.items) + 1
        /\ RestoresStatus => Len(statusStack.items) > Len(c.statusStack.items) + 1
        /\ PopsLoop => Len(loopStack.items) > Len(c.loopStack.items)
        /\ UsesCount => Len(AllCounts(count)) > Len(AllCounts(c.count))
    BY <1>4 DEF ServicesKeepTheirPlace, Retire
  <2> HIDE DEF c
  <2>4. Kept(c, Context')
    BY <1>4, <2>2, <2>3, RetireKeeps
  <2>5. QED
    BY <1>4, <2>1, <2>4 DEF FrameInv, c
<1>5. QED
  BY <1>2, <1>3, <1>4

\* What an interrupt pushes is what its service has to leave alone.
LEMMA EntryKeeps ==
  ASSUME TypeInv, NEW low \in SUBSET Pins, EnterInterrupt(low), ~Overflowed'
  PROVE  /\ pcStack'.items = SavedPcs(Context) /\ statusStack'.items = SavedStatuses(Context)
         /\ Kept(Context, Context')
<1>1. /\ pcStack \in Stacks(Addresses) /\ Len(pcStack.items) <= PcDepth /\ PcDepth \in Nat
      /\ statusStack \in Stacks(Statuses) /\ Len(statusStack.items) <= StatusDepth
      /\ StatusDepth \in Nat /\ pc \in Addresses /\ Status \in Statuses
      /\ loopStack.items \in Seq(LoopEntries)
  BY ProgramFlowConstants
     DEF TypeInv, TypeOK, IsStack, Stacks, Statuses, LoopEntries, InterruptOK, Status
<1>2. pcStack'.items = Append(pcStack.items, pc)
  BY <1>1, PushFacts DEF EnterInterrupt, Overflowed
<1>3. statusStack'.items = Append(statusStack.items, Status)
  BY <1>1, PushFacts DEF EnterInterrupt, Overflowed
<1>4. pcStack'.items = SavedPcs(Context) /\ statusStack'.items = SavedStatuses(Context)
  BY <1>2, <1>3 DEF SavedPcs, SavedStatuses, Context, Status, StatusOf
<1>5. /\ Begins(SavedPcs(Context), SavedPcs(Context))
      /\ Begins(SavedStatuses(Context), SavedStatuses(Context))
      /\ Begins(loopStack.items, loopStack.items)
      /\ Begins(AllCounts(count), AllCounts(count))
  BY <1>1, ContextType, SavedTypes, CountsWellTyped, AllCountsFacts, BeginsItself
<1>6. QED
  BY <1>4, <1>5 DEF Kept, Context, EnterInterrupt

LEMMA EnterFrameInv ==
  ASSUME TypeInv, FrameInv, NEW low \in SUBSET Pins, EnterInterrupt(low)
  PROVE  FrameInv'
<1>1. CASE Overflowed'
  BY <1>1, NoFrames DEF EnterInterrupt
<1>2. CASE ~Overflowed'
  <2> DEFINE n == Len(interrupted)
  <2>1. /\ ~Overflowed /\ vectoring \in Levels
        /\ interrupted' = Append(interrupted, [level |-> vectoring, context |-> Context])
    BY <1>2, OverflowStays DEF EnterInterrupt, TypeInv, TypeOK
  <2>2. Context \in Contexts /\ Sound(Context) /\ Kept(Context, Context')
    BY <1>2, <2>1, ContextType, CountsWellTyped, EntryKeeps DEF Sound, Context, Overflowed
  <2>3. \A i \in DOMAIN interrupted : Kept(interrupted[i].context, Context)
    <3>1. TAKE i \in DOMAIN interrupted
    <3>2. interrupted # <<>>
      OBVIOUS
    <3>3. CASE i = n
      BY <3>2, <3>3, LastService DEF FrameInv
    <3>4. CASE i # n
      <4>1. i < n /\ n \in DOMAIN interrupted
        BY <3>2, <3>4, LastService
      <4>2. /\ Kept(interrupted[i].context, interrupted[n].context)
            /\ Kept(interrupted[n].context, Context)
            /\ Sound(interrupted[i].context) /\ Sound(interrupted[n].context)
        BY <3>2, <4>1, LastService DEF FrameInv
      <4>3. interrupted[i].context \in Contexts /\ interrupted[n].context \in Contexts
        BY <4>1, ServedContexts
      <4>4. QED
        BY <2>2, <4>2, <4>3, KeptTwice DEF Sound
    <3>5. QED
      BY <3>3, <3>4
  <2>4. \A j \in DOMAIN interrupted' : Sound(interrupted'[j].context)
    BY <2>1, <2>2, OneMoreService DEF FrameInv
  <2>5. \A i, j \in DOMAIN interrupted' :
          i < j => Kept(interrupted'[i].context, interrupted'[j].context)
    BY <2>1, <2>3, OneMoreService DEF FrameInv
  <2>6. Kept(Last(interrupted)'.context, Context')
    BY <2>1, <2>2, OneMoreService
  <2>7. QED
    BY <1>2, <2>4, <2>5, <2>6 DEF FrameInv
<1>3. QED
  BY <1>1, <1>2

LEMMA StepFrameInv ==
  ASSUME TypeInv, FrameInv, ServicesKeepTheirPlace, [Next]_vars
  PROVE  FrameInv'
<1>1. ASSUME UNCHANGED <<machine, imask, interrupted>>
      PROVE  FrameInv'
  BY <1>1 DEF machine, FrameInv, Context, Overflowed
<1>2. QED
  BY <1>1, RetireFrameInv, EnterFrameInv, NoFrames
     DEF Next, Advance, WaitCycle, Reset, vars, interruptVars

LEMMA FrameInvHolds == Spec /\ []ServicesKeepTheirPlace => []FrameInv
<1>1. Init => FrameInv
  BY DEF Init, FrameInv
<1>2. QED
  BY <1>1, TypeInvHolds, StepFrameInv, PTL DEF Spec

\* Where services keep their place on the stacks, an RTI gives the interrupted
\* code back its next address, flags, mask, count and all four stacks.
THEOREM ReturnGivesBack == Spec /\ []ServicesKeepTheirPlace => InterruptTransparent
<1>1. ASSUME TypeInv, FrameInv, ServicesKeepTheirPlace,
             NEW low \in SUBSET Pins, Retire(low),
             Is("RETURN") /\ Taken /\ instruction.restore, interrupted # <<>>
      PROVE  Context' = Last(interrupted).context
  BY <1>1, ReturnIsTransparent DEF RTI
<1>2. TypeInv /\ FrameInv /\ ServicesKeepTheirPlace =>
        [(\E low \in SUBSET Pins : Retire(low))
           /\ Is("RETURN") /\ Taken /\ instruction.restore /\ interrupted # <<>> /\ ~Overflowed'
         => Context' = Last(interrupted).context]_vars
  BY <1>1
<1>3. QED
  BY <1>2, TypeInvHolds, FrameInvHolds, PTL DEF InterruptTransparent

-----------------------------------------------------------------------------
(* Which levels a service lets in *)

LEMMA EntryMaskIsAbove == ASSUME NEW level PROVE EntryMask(level) = Above(icntl.nest, level)
BY DEF EntryMask, Above

\* What a level shuts out, the levels it lets in shut out as well.
LEMMA AboveNests ==
  ASSUME NEW nest, NEW l \in Levels, NEW m \in Above(nest, l)
  PROVE  Above(nest, m) \subseteq Above(nest, l) /\ m > l /\ m \in Levels /\ nest
BY DEF Above, Levels

\* The masks of an outer service hold for what an inner one has found.
LEMMA MasksWithinFound ==
  ASSUME NEW c \in Contexts, NEW d \in Contexts, NEW e \in Contexts, NEW S, NEW T,
         Kept(c, d), Kept(d, e), MasksWithin(c, d, S), MasksWithin(d, e, T), T \subseteq S
  PROVE  MasksWithin(c, e, S)
<1>1. Len(SavedStatuses(d)) \in Nat /\ Len(SavedStatuses(c)) \in Nat
  BY SavedTypes, LenProperties
<1>2. ASSUME NEW k \in DOMAIN e.statusStack.items, k > Len(SavedStatuses(c))
      PROVE  e.statusStack.items[k].imask \subseteq S
  <2>1. /\ k \in Nat /\ k > 0 /\ Len(d.statusStack.items) \in Nat
        /\ Len(SavedStatuses(d)) = Len(d.statusStack.items) + 1
    <3>1. /\ e.statusStack.items \in Seq(Statuses) /\ d.statusStack.items \in Seq(Statuses)
          /\ Len(SavedStatuses(d)) = Len(d.statusStack.items) + 1
      BY SavedTypes
    <3>2. k \in 1 .. Len(e.statusStack.items) /\ Len(d.statusStack.items) \in Nat
          /\ Len(e.statusStack.items) \in Nat
      BY <1>2, <3>1, LenProperties
    <3>3. QED
      BY <3>1, <3>2
  <2>2. CASE k > Len(SavedStatuses(d))
    BY <1>2, <2>2 DEF MasksWithin
  <2>3. CASE k <= Len(d.statusStack.items)
    <3>1. e.statusStack.items[k] = d.statusStack.items[k]
      <4>1. Begins(d.statusStack.items, e.statusStack.items)
        BY SavedTypes, BeginsWithAppended DEF Kept, SavedStatuses
      <4>2. QED
        BY <2>1, <2>3, <4>1 DEF Begins
    <3>2. k \in DOMAIN d.statusStack.items
      BY <2>1, <2>3, SavedTypes, LenProperties
    <3>3. QED
      BY <1>2, <3>1, <3>2 DEF MasksWithin
  <2>4. CASE k = Len(d.statusStack.items) + 1
    <3>1. e.statusStack.items[k] = StatusOf(d)
      BY <2>4, SavedTypes, BeginsWithAppended DEF Kept, SavedStatuses
    <3>2. QED
      BY <3>1 DEF MasksWithin, StatusOf
  <2>5. QED
    BY <2>1, <2>2, <2>3, <2>4
<1>3. QED
  BY <1>2 DEF MasksWithin

\* A service that keeps the rules keeps its masks within a set.
LEMMA RetireMasks ==
  ASSUME TypeInv, NEW low \in SUBSET Pins, Retire(low), NEW c \in Contexts,
         NEW S, MasksWithin(c, Context, S),
         RestoresStatus => Len(statusStack.items) > Len(c.statusStack.items) + 1,
         Is("IMASK") => instruction.mask \subseteq S
  PROVE  MasksWithin(c, Context', S) /\ (vectoring' # NoLevel => vectoring' \in S)
<1> DEFINE h == Len(SavedStatuses(c))
<1>1. /\ h \in Nat /\ h = Len(c.statusStack.items) + 1
      /\ statusStack \in Stacks(Statuses) /\ statusStack.items \in Seq(Statuses)
      /\ Len(statusStack.items) <= StatusDepth /\ StatusDepth \in Nat
      /\ Len(statusStack.items) \in Nat /\ DOMAIN statusStack.items = 1 .. Len(statusStack.items)
      /\ Status \in Statuses /\ imask \subseteq S
      /\ \A k \in 1 .. Len(statusStack.items) : k > h => statusStack.items[k].imask \subseteq S
  BY SavedTypes, LenProperties, ProgramFlowConstants
     DEF TypeInv, TypeOK, IsStack, Stacks, Statuses, InterruptOK, Status, MasksWithin, Context
<1> HIDE DEF h
<1>2. imask' \subseteq S /\ \A k \in DOMAIN statusStack'.items :
                              k > h => statusStack'.items[k].imask \subseteq S
  <2>1. CASE PushStatus
    <3>1. statusStack'.items \in {statusStack.items, Append(statusStack.items, Status)}
      BY <1>1, <2>1 DEF PushStatus, Push, Stacks
    <3>2. CASE statusStack'.items = Append(statusStack.items, Status)
      <4>1. /\ DOMAIN statusStack'.items = 1 .. Len(statusStack.items) + 1
            /\ \A k \in 1 .. Len(statusStack.items) :
                 statusStack'.items[k] = statusStack.items[k]
            /\ statusStack'.items[Len(statusStack.items) + 1].imask = imask
        BY <1>1, <3>2, AppendProperties, LenProperties DEF Status
      <4>2. QED
        BY <1>1, <2>1, <4>1 DEF PushStatus
    <3>3. QED
      BY <1>1, <2>1, <3>1, <3>2 DEF PushStatus
  <2>2. CASE RestoreStatus
    <3>1. /\ statusStack'.items = SubSeq(statusStack.items, 1, Len(statusStack.items) - 1)
          /\ statusStack.items # <<>> /\ imask' = statusStack.items[Len(statusStack.items)].imask
          /\ Len(statusStack.items) > h
      BY <1>1, <2>2, PopFacts DEF RestoreStatus, HasTop, Top
    <3>2. /\ DOMAIN statusStack'.items = 1 .. Len(statusStack.items) - 1
          /\ \A k \in 1 .. Len(statusStack.items) - 1 :
               statusStack'.items[k] = statusStack.items[k]
      BY <1>1, <3>1, CutFacts, LenProperties
    <3>3. imask' \subseteq S
      <4>1. Len(statusStack.items) \in 1 .. Len(statusStack.items)
        BY <1>1, <3>1
      <4>2. QED
        BY <1>1, <3>1, <4>1
    <3>4. \A k \in 1 .. Len(statusStack.items) - 1 :
            k > h => statusStack'.items[k].imask \subseteq S
      BY <1>1, <3>2
    <3>5. QED
      BY <3>2, <3>3, <3>4
  <2>3. CASE Compute \/ WriteMask \/ WriteControl \/ KeepStatus
    <3>1. statusStack' = statusStack /\ imask' \subseteq S
      BY <1>1, <2>3 DEF Compute, WriteMask, WriteControl, KeepStatus
    <3>2. QED
      BY <1>1, <3>1
  <2>4. QED
    BY <2>1, <2>2, <2>3 DEF Retire, WriteStatus
<1>3. vectoring' = NoLevel \/ vectoring' \in imask
  BY SampleFacts DEF Retire, ServiceAllowed
<1>4. QED
  BY <1>1, <1>2, <1>3 DEF MasksWithin, Context, h

LEMMA RetireNesting ==
  ASSUME TypeInv, ServicesKeepTheirMask, interrupted # <<>>,
         NEW low \in SUBSET Pins, Retire(low)
  PROVE  icntl'.nest = icntl.nest
BY DEF ServicesKeepTheirMask, Retire, WriteStatus, Compute, WriteMask, WriteControl,
       PushStatus, RestoreStatus, KeepStatus

LEMMA RetireMaskInv ==
  ASSUME TypeInv, FrameInv, MaskInv, ServicesKeepTheirPlace, ServicesKeepTheirMask,
         NEW low \in SUBSET Pins, Retire(low)
  PROVE  MaskInv'
<1>1. RememberServices
  BY DEF Retire
<1>2. CASE interrupted = <<>> \/ Overflowed'
  BY <1>1, <1>2, NoFrames DEF RememberServices, WithoutLast
<1>3. CASE interrupted # <<>> /\ ~Overflowed'
  <2> DEFINE n == Len(interrupted)
             c == interrupted[n].context
             S == Above(icntl.nest, interrupted[n].level)
  <2>1. /\ n \in DOMAIN interrupted /\ Last(interrupted) = interrupted[n]
        /\ c \in Contexts /\ interrupted[n].level \in Levels
        /\ \A k \in DOMAIN interrupted : interrupted[k].level \in Levels
    BY <1>3, LastService, ServedContexts
  <2>2. icntl'.nest = icntl.nest
    BY <1>3, RetireNesting
  <2>3. MasksWithin(c, Context, S)
    BY <1>3, <2>1 DEF MaskInv
  <2>4. /\ RestoresStatus /\ ~RTI => Len(statusStack.items) > Len(c.statusStack.items) + 1
        /\ Is("IMASK") => instruction.mask \subseteq S
    BY <1>3, <2>1, EntryMaskIsAbove DEF ServicesKeepTheirPlace, ServicesKeepTheirMask, Retire
  <2>5. CASE RTI
    <3>1. interrupted' = WithoutLast(interrupted)
      BY <1>1, <1>3, <2>5 DEF RememberServices, RTI
    <3>2. Context' = c
      BY <1>3, <2>1, <2>5, ReturnIsTransparent
    <3>3. \A i, j \in DOMAIN interrupted' :
            i < j => /\ interrupted'[j].level \in Above(icntl.nest, interrupted'[i].level)
                     /\ MasksWithin(interrupted'[i].context, interrupted'[j].context,
                                    Above(icntl.nest, interrupted'[i].level))
      BY <1>3, <2>2, <3>1, WithoutLastService DEF MaskInv
    <3>4. ASSUME interrupted' # <<>>
          PROVE  /\ MasksWithin(Last(interrupted)'.context, Context',
                                Above(icntl.nest, Last(interrupted)'.level))
                 /\ vectoring' # NoLevel => vectoring' \in Above(icntl.nest, Last(interrupted)'.level)
      <4> DEFINE m == Len(interrupted')
      <4>1. m \in DOMAIN interrupted /\ m < n /\ Last(interrupted)' = interrupted[m]
        BY <1>3, <3>1, <3>4, WithoutLastService
      <4>2. /\ interrupted[n].level \in Above(icntl.nest, interrupted[m].level)
            /\ MasksWithin(interrupted[m].context, c, Above(icntl.nest, interrupted[m].level))
        BY <2>1, <4>1 DEF MaskInv
      <4>3. S \subseteq Above(icntl.nest, interrupted[m].level)
        BY <2>1, <4>1, <4>2, AboveNests
      <4>4. vectoring' = NoLevel \/ vectoring' \in S
        <5>1. vectoring' = NoLevel \/ vectoring' \in imask
          BY SampleFacts DEF Retire, ServiceAllowed
        <5>2. QED
          BY <2>3, <5>1 DEF MasksWithin, Context
      <4>5. QED
        BY <2>2, <3>2, <4>1, <4>2, <4>3, <4>4
    <3>5. QED
      BY <2>2, <3>3, <3>4 DEF MaskInv
  <2>6. CASE ~RTI
    <3>1. interrupted' = interrupted
      BY <1>1, <1>3, <2>6 DEF RememberServices, RTI
    <3> HIDE DEF c, S
    <3>2. MasksWithin(c, Context', S) /\ (vectoring' # NoLevel => vectoring' \in S)
      BY <2>1, <2>3, <2>4, <2>6, RetireMasks
    <3>3. QED
      BY <1>3, <2>1, <2>2, <3>1, <3>2 DEF MaskInv, c, S
  <2>7. QED
    BY <2>5, <2>6
<1>4. QED
  BY <1>2, <1>3

LEMMA EnterMaskInv ==
  ASSUME TypeInv, FrameInv, MaskInv, NEW low \in SUBSET Pins, EnterInterrupt(low)
  PROVE  MaskInv'
<1>1. CASE Overflowed'
  BY <1>1, NoFrames DEF EnterInterrupt
<1>2. CASE ~Overflowed'
  <2> DEFINE n == Len(interrupted)
             S(k) == Above(icntl.nest, interrupted[k].level)
  <2>1. /\ vectoring \in Levels /\ vectoring # NoLevel /\ vectoring' = NoLevel
        /\ imask' = Above(icntl.nest, vectoring)
        /\ interrupted' = Append(interrupted, [level |-> vectoring, context |-> Context])
    BY <1>2, EntryMaskIsAbove DEF EnterInterrupt, TypeInv, TypeOK
  <2>2. icntl'.nest = icntl.nest
    BY DEF EnterInterrupt
  <2>3. MasksWithin(Context, Context', Above(icntl.nest, vectoring))
    <3>1. statusStack'.items = SavedStatuses(Context)
      BY <1>2, EntryKeeps
    <3>2. \A k \in DOMAIN SavedStatuses(Context) : ~(k > Len(SavedStatuses(Context)))
      BY ContextType, SavedTypes, LenProperties
    <3>3. QED
      BY <2>1, <3>1, <3>2 DEF MasksWithin, Context
  <2>4. \A i \in DOMAIN interrupted :
          vectoring \in S(i) /\ MasksWithin(interrupted[i].context, Context, S(i))
    <3>1. TAKE i \in DOMAIN interrupted
    <3>2. interrupted # <<>>
      OBVIOUS
    <3>3. /\ n \in DOMAIN interrupted /\ Last(interrupted) = interrupted[n]
          /\ i = n \/ i < n
          /\ interrupted[n].context \in Contexts /\ interrupted[i].context \in Contexts
          /\ interrupted[n].level \in Levels /\ interrupted[i].level \in Levels
      BY <3>2, LastService, ServedContexts
    <3>4. vectoring \in S(n) /\ MasksWithin(interrupted[n].context, Context, S(n))
      BY <2>1, <3>2, <3>3 DEF MaskInv
    <3>5. CASE i = n
      BY <3>4, <3>5
    <3>6. CASE i < n
      <4>1. /\ interrupted[n].level \in S(i)
            /\ MasksWithin(interrupted[i].context, interrupted[n].context, S(i))
        BY <3>3, <3>6 DEF MaskInv
      <4>2. S(n) \subseteq S(i)
        BY <3>3, <4>1, AboveNests
      <4>3. /\ Kept(interrupted[i].context, interrupted[n].context)
            /\ Kept(interrupted[n].context, Context)
        BY <3>2, <3>3, <3>6 DEF FrameInv
      <4>4. MasksWithin(interrupted[i].context, Context, S(i))
        BY <3>3, <3>4, <4>1, <4>2, <4>3, ContextType, MasksWithinFound
      <4>5. QED
        BY <3>4, <4>2, <4>4
    <3>7. QED
      BY <3>3, <3>5, <3>6
  <2>5. \A i, j \in DOMAIN interrupted' :
          i < j => /\ interrupted'[j].level \in Above(icntl.nest, interrupted'[i].level)
                   /\ MasksWithin(interrupted'[i].context, interrupted'[j].context,
                                  Above(icntl.nest, interrupted'[i].level))
    <3>1. SUFFICES ASSUME NEW i \in DOMAIN interrupted', NEW j \in DOMAIN interrupted', i < j
                   PROVE  /\ interrupted'[j].level \in Above(icntl.nest, interrupted'[i].level)
                          /\ MasksWithin(interrupted'[i].context, interrupted'[j].context,
                                         Above(icntl.nest, interrupted'[i].level))
      BY <2>2
    <3>2. i \in DOMAIN interrupted /\ interrupted'[i] = interrupted[i]
      BY <2>1, <3>1, OneMoreService
    <3>3. CASE j \in DOMAIN interrupted
      BY <2>1, <3>1, <3>2, <3>3, OneMoreService DEF MaskInv
    <3>4. CASE j \notin DOMAIN interrupted
      <4>1. interrupted'[j] = [level |-> vectoring, context |-> Context]
        BY <2>1, <3>1, <3>4, OneMoreService
      <4>2. QED
        BY <2>4, <3>2, <4>1
    <3>5. QED
      BY <3>3, <3>4
  <2>6. Last(interrupted)' = [level |-> vectoring, context |-> Context]
    BY <2>1, OneMoreService
  <2>7. QED
    BY <2>1, <2>2, <2>3, <2>5, <2>6 DEF MaskInv
<1>3. QED
  BY <1>1, <1>2

LEMMA StepMaskInv ==
  ASSUME TypeInv, FrameInv, MaskInv, ServicesKeepTheirPlace, ServicesKeepTheirMask,
         [Next]_vars
  PROVE  MaskInv'
<1>1. ASSUME UNCHANGED <<machine, imask, icntl, interrupted>>
      PROVE  MaskInv'
  BY <1>1 DEF machine, MaskInv, Context
<1>2. QED
  BY <1>1, RetireMaskInv, EnterMaskInv, NoFrames
     DEF Next, Advance, WaitCycle, Reset, vars, interruptVars

LEMMA MaskInvHolds ==
  Spec /\ []ServicesKeepTheirPlace /\ []ServicesKeepTheirMask => []MaskInv
<1>1. Init => MaskInv
  BY DEF Init, MaskInv
<1>2. QED
  BY <1>1, TypeInvHolds, FrameInvHolds, StepMaskInv, PTL DEF Spec

\* Where services keep their place and enable nothing their entry disabled, a
\* service is interrupted only by a higher level and, nesting off, by none.
THEOREM HigherLevelsOnly ==
  Spec /\ []ServicesKeepTheirPlace /\ []ServicesKeepTheirMask => []PriorityNesting
<1>1. ASSUME TypeInv, MaskInv
      PROVE  PriorityNesting
  <2>1. ASSUME NEW i \in DOMAIN interrupted, NEW j \in DOMAIN interrupted, i < j
        PROVE  interrupted[i].level < interrupted[j].level /\ icntl.nest
    <3>1. interrupted[j].level \in Above(icntl.nest, interrupted[i].level)
      BY <1>1, <2>1 DEF MaskInv
    <3>2. QED
      BY <1>1, <3>1, ServedContexts, AboveNests DEF Levels
  <2>2. Len(interrupted) \in Nat /\ DOMAIN interrupted = 1 .. Len(interrupted)
    BY <1>1, LenProperties DEF TypeInv, HistoryOK
  <2>3. ~icntl.nest => Len(interrupted) <= 1
    <3>1. SUFFICES ASSUME Len(interrupted) > 1 PROVE icntl.nest
      BY <2>2
    <3>2. 1 \in DOMAIN interrupted /\ 2 \in DOMAIN interrupted
      BY <2>2, <3>1
    <3>3. QED
      BY <2>1, <3>2
  <2>4. QED
    BY <2>1, <2>3 DEF PriorityNesting
<1>2. QED
  BY <1>1, TypeInvHolds, MaskInvHolds, PTL

-----------------------------------------------------------------------------
(* What a loop finds at its end *)

LEMMA RoundsTyped ==
  ASSUME TypeInv
  PROVE  /\ Len(rounds) \in Nat /\ DOMAIN rounds = 1 .. Len(rounds)
         /\ rounds # <<>> <=> Len(rounds) > 0
         /\ \A k \in DOMAIN rounds :
              /\ rounds[k].pcs \in Nat /\ rounds[k].tests \in Nat
              /\ rounds[k].load \in Counts \cup {Unknown}
<1>1. rounds \in Seq(Rounds)
  BY DEF TypeInv, HistoryOK
<1>2. /\ Len(rounds) \in Nat /\ DOMAIN rounds = 1 .. Len(rounds)
      /\ rounds # <<>> <=> Len(rounds) > 0
  BY <1>1, EmptySeq, LenProperties
<1>3. \A k \in DOMAIN rounds : rounds[k] \in Rounds
  BY <1>1, <1>2, ElementOfSeq
<1>4. QED
  BY <1>2, <1>3 DEF Rounds

LEMMA StacksTyped ==
  ASSUME TypeInv
  PROVE  /\ pcStack \in Stacks(Addresses) /\ pcStack.items \in Seq(Addresses)
         /\ Len(pcStack.items) \in Nat /\ Len(pcStack.items) <= PcDepth /\ PcDepth \in Nat
         /\ loopStack \in Stacks(LoopEntries) /\ loopStack.items \in Seq(LoopEntries)
         /\ Len(loopStack.items) \in Nat /\ Len(loopStack.items) <= LoopDepth
         /\ LoopDepth \in Nat
<1>1. /\ pcStack \in Stacks(Addresses) /\ Len(pcStack.items) <= PcDepth
      /\ loopStack \in Stacks(LoopEntries) /\ Len(loopStack.items) <= LoopDepth
  BY DEF TypeInv, TypeOK, IsStack, LoopEntries
<1>2. pcStack.items \in Seq(Addresses) /\ loopStack.items \in Seq(LoopEntries)
  BY <1>1 DEF Stacks
<1>3. QED
  BY <1>1, <1>2, LenProperties, ProgramFlowConstants

\* While an instruction can execute, every counted loop knows its count.
LEMMA CountsKnown ==
  ASSUME TypeInv, LoopInv, ~Overflowed, Executable, NEW k \in DOMAIN rounds, Counted(k)
  PROVE  rounds[k].load # Unknown
<1>1. SUFFICES ASSUME rounds[k].load = Unknown PROVE FALSE
  OBVIOUS
<1>2. k = Len(rounds) /\ count.cntr = Unknown /\ Len(rounds) = Len(loopStack.items)
  BY <1>1 DEF LoopInv, LoopOwns, CountOwned
<1>3. HasTop(loopStack) /\ Top(loopStack).until = "NOT_CE"
  BY <1>2, RoundsTyped, StacksTyped, EmptySeq DEF HasTop, Top, Counted
<1>4. QED
  BY <1>2, <1>3 DEF Executable, LoopContextValid, LoopActive, CountedLoop

\* The loop on top of the loop stack is the last of the history.
LEMMA InnermostLoop ==
  ASSUME TypeInv, LoopInv, ~Overflowed, LoopActive
  PROVE  /\ Len(rounds) \in DOMAIN rounds /\ Len(rounds) = Len(loopStack.items)
         /\ Top(loopStack) = loopStack.items[Len(rounds)] /\ Last(rounds) = rounds[Len(rounds)]
         /\ CountedLoop <=> Counted(Len(rounds))
         /\ LoopOwns(Len(rounds))
<1>1. Len(rounds) = Len(loopStack.items) /\ Len(loopStack.items) > 0
  BY StacksTyped, EmptySeq DEF LoopInv, LoopActive, HasTop
<1>2. QED
  BY <1>1, RoundsTyped DEF LoopInv, LoopActive, CountedLoop, Counted, Top, Last

\* A loop that neither ends nor tests its count still has its start and its
\* count, whatever its body does.
LEMMA LoopSurvives ==
  ASSUME TypeInv, LoopInv, LoopsKeepTheirPlace, NEW low \in SUBSET Pins, Retire(low),
         ~Overflowed, ~Overflowed', NEW k \in DOMAIN rounds,
         ~(k = Len(rounds) /\ PopsLoop),
         rounds'[k].pcs = rounds[k].pcs, rounds'[k].start = rounds[k].start
  PROVE  PcOwned(k)'
<1> DEFINE h == rounds[k].pcs + 1
<1>1. h \in 0 .. Len(pcStack.items) /\ h >= 1 /\ pcStack.items[h] = rounds[k].start
  BY RoundsTyped, StacksTyped DEF LoopInv, LoopOwns, PcOwned
<1>2. PopsPc => h < Len(pcStack.items)
  BY DEF LoopsKeepTheirPlace, Retire
<1> HIDE DEF h
<1>3. Share(h, pcStack.items, pcStack'.items)
  BY <1>1, <1>2, PcStackAfterFacts DEF Retire
<1>4. TypeInv'
  BY RetireTypeInv
<1>5. Len(pcStack'.items) \in Nat
  BY <1>4, LenProperties DEF TypeInv, TypeOK, IsStack, Stacks
<1>6. h <= Len(pcStack'.items) /\ pcStack'.items[h] = rounds[k].start
  BY <1>1, <1>3 DEF Share
<1>7. rounds[k].pcs \in Nat
  BY RoundsTyped
<1>8. QED
  BY <1>5, <1>6, <1>7 DEF PcOwned, h

LEMMA CountSurvives ==
  ASSUME TypeInv, LoopInv, LoopsKeepTheirPlace, NEW low \in SUBSET Pins, Retire(low),
         ~Overflowed, ~Overflowed', NEW k \in DOMAIN rounds, Counted(k),
         ~(k = Len(rounds) /\ LoopTestsCounter), rounds'[k] = rounds[k]
  PROVE  CountOwned(k)'
<1> DEFINE r == rounds[k]
<1>1. r.load # Unknown
  BY CountsKnown DEF Retire
<1>2. /\ r.counts \in DOMAIN AllCounts(count) /\ r.tests < Length(r.load)
      /\ AllCounts(count)[r.counts] = Left(r.load, r.tests)
  BY <1>1 DEF LoopInv, LoopOwns, CountOwned
<1>3. UsesCount => r.counts < Len(AllCounts(count))
  BY DEF LoopsKeepTheirPlace, Retire, Counted
<1>4. CounterOK(count) /\ CounterOK(count')
  BY CountsWellTyped, CountAfterFacts DEF Retire
<1> HIDE DEF r
<1>5. r.counts \in 1 .. Len(AllCounts(count)) /\ Len(AllCounts(count)) \in Nat
  BY <1>2, <1>4, AllCountsFacts, LenProperties
<1>6. CountsShared(r.counts, count')
  BY <1>3, <1>5, CountAfterFacts DEF Retire
<1>7. Share(r.counts, AllCounts(count), AllCounts(count'))
  BY <1>6 DEF CountsShared, Overflowed
<1>8. /\ r.counts \in DOMAIN AllCounts(count')
      /\ AllCounts(count')[r.counts] = AllCounts(count)[r.counts]
  BY <1>4, <1>5, <1>7, AllCountsFacts, LenProperties DEF Share
<1>9. rounds'[k] = r
  BY DEF r
<1>10. QED
  BY <1>1, <1>2, <1>8, <1>9 DEF CountOwned

LEMMA LeftFacts ==
  ASSUME NEW load \in Counts, NEW tests \in Nat, tests < Length(load)
  PROVE  /\ Left(load, tests) = 1 <=> tests + 1 = Length(load)
         /\ Left(load, tests) # 1 => /\ tests + 1 < Length(load)
                                     /\ (Left(load, tests) - 1) % CountModulus
                                          = Left(load, tests + 1)
<1>1. CountModulus \in Nat /\ CountModulus > 1 /\ load \in 0 .. CountModulus - 1
  BY CounterConstants DEF Counts
<1>2. CASE load = 0 /\ tests = 0
  <2>1. Left(load, tests) = 0 /\ Length(load) = CountModulus
        /\ Left(load, tests + 1) = CountModulus - 1
    BY <1>1, <1>2 DEF Left, Length
  <2>2. (0 - 1) % CountModulus = CountModulus - 1
    BY <1>1
  <2>3. QED
    BY <1>1, <1>2, <2>1, <2>2
<1>3. CASE ~(load = 0 /\ tests = 0)
  <2> DEFINE left == Length(load) - tests
  <2>1. /\ Left(load, tests) = left /\ Left(load, tests + 1) = left - 1
        /\ left \in 1 .. CountModulus - 1 \/ left = CountModulus
        /\ load = 0 => tests > 0
        /\ Length(load) \in Nat
    BY <1>1, <1>3 DEF Left, Length
  <2>2. left \in 1 .. CountModulus - 1
    BY <1>1, <1>3, <2>1 DEF Length
  <2>3. (left - 1) % CountModulus = left - 1
    <3> HIDE DEF left
    <3>1. QED
      BY <1>1, <2>2
  <2>4. QED
    BY <2>1, <2>2, <2>3
<1>4. QED
  BY <1>2, <1>3

\* A counted loop that may end at this instruction counts with its own count.
LEMMA InnermostCount ==
  ASSUME TypeInv, LoopInv, LoopsKeepTheirPlace, vectoring = NoLevel, Executable,
         ~Overflowed, LoopTestsCounter
  PROVE  LET n == Len(rounds)
         IN /\ rounds[n].load \in Counts /\ rounds[n].tests < Length(rounds[n].load)
            /\ count.cntr # Unknown /\ count.cntr = Left(rounds[n].load, rounds[n].tests)
            /\ rounds[n].counts = Len(AllCounts(count))
<1> DEFINE n == Len(rounds)
<1>1. LoopActive /\ CountedLoop
  BY DEF LoopTestsCounter, CountedLoop
<1>2. n \in DOMAIN rounds /\ LoopOwns(n) /\ Counted(n)
  BY <1>1, InnermostLoop
<1>3. rounds[n].load # Unknown /\ CountOwned(n)
  BY <1>2, CountsKnown DEF LoopOwns
<1>4. rounds[n].counts = Len(AllCounts(count))
  BY <1>2 DEF LoopsKeepTheirPlace, UsesCount, Counted
<1>5. count.cntr # Unknown
  BY <1>1 DEF Executable, LoopContextValid
<1>6. count.cntr = AllCounts(count)[Len(AllCounts(count))]
  BY <1>5, CountsWellTyped, AllCountsFacts
<1>7. QED
  BY <1>2, <1>3, <1>4, <1>5, <1>6, RoundsTyped DEF CountOwned

\* A test that does not end the loop takes one round from what is left.
LEMMA CountGoesDown ==
  ASSUME TypeInv, LoopInv, LoopsKeepTheirPlace, NEW low \in SUBSET Pins, Retire(low),
         ~Overflowed, LoopTestsCounter, ~LoopExits,
         NEW n, n = Len(rounds), rounds'[n] = [rounds[n] EXCEPT !.tests = @ + 1]
  PROVE  CountOwned(n)'
<1> DEFINE r == rounds[n]
           c == AllCounts(count)
<1>1. /\ r.load \in Counts /\ r.tests < Length(r.load)
      /\ count.cntr # Unknown /\ count.cntr = Left(r.load, r.tests) /\ r.counts = Len(c)
  BY InnermostCount DEF Retire
<1>2. n \in DOMAIN rounds /\ r \in Rounds
  <2>1. n \in DOMAIN rounds
    BY InnermostLoop DEF LoopTestsCounter, CountedLoop
  <2>2. QED
    BY <2>1, RoundsTyped, ElementOfSeq DEF TypeInv, HistoryOK
<1>3. ~Expired
  BY DEF LoopTestsCounter, LoopExits, Holds, CountedLoop
<1>4. count' = Test
  BY DEF Retire, CountAfter, Executable, AutomaticManualConflict
<1>5. CounterOK(count)
  BY CountsWellTyped
<1>6. /\ Test.cntr = (count.cntr - 1) % CountModulus
      /\ AllCounts(Test) = Append(count.stack.items, (count.cntr - 1) % CountModulus)
      /\ Len(c) = Len(count.stack.items) + 1
  BY <1>1, <1>3, <1>5, DecrementFacts, AllCountsFacts
<1>7. Left(r.load, r.tests) # 1 /\ r.tests \in Nat
  BY <1>1, <1>2, <1>3 DEF Expired, Rounds
<1>8. /\ r.tests + 1 < Length(r.load)
      /\ (count.cntr - 1) % CountModulus = Left(r.load, r.tests + 1)
  BY <1>1, <1>7, LeftFacts
<1>9. /\ (count.cntr - 1) % CountModulus \in Counts /\ count.stack.items \in Seq(Counts)
      /\ Len(count.stack.items) \in Nat
  <2>1. count.cntr \in Counts /\ count.stack.items \in Seq(Counts)
    BY <1>1, <1>5 DEF CounterOK, CountRecords, Stacks
  <2>2. QED
    BY <2>1, CounterConstants, LenProperties DEF Counts
<1>10. /\ r.counts \in DOMAIN AllCounts(count')
       /\ AllCounts(count')[r.counts] = Left(r.load, r.tests + 1)
  BY <1>1, <1>4, <1>6, <1>8, <1>9, AppendProperties, LenProperties
<1>11. /\ rounds'[n].load = r.load /\ rounds'[n].counts = r.counts
       /\ rounds'[n].tests = r.tests + 1
  BY <1>2 DEF Rounds
<1>12. r.load # Unknown
  BY <1>1, CounterConstants
<1> HIDE DEF r, c
<1>13. QED
  BY <1>8, <1>10, <1>11, <1>12 DEF CountOwned

\* DO: the new loop starts after it, above everything the loops around it own.
LEMMA DoLoopInv ==
  ASSUME TypeInv, LoopInv, LoopsKeepTheirPlace, NEW low \in SUBSET Pins, Retire(low),
         ~Overflowed, ~Overflowed', Is("DO")
  PROVE  LoopInv'
<1> DEFINE n == Len(rounds)
           new == [start |-> AddressAfter(pc), load |-> count.cntr, tests |-> 0,
                   pcs |-> Len(pcStack.items), counts |-> Len(AllCounts(count))]
           entry == [until |-> instruction.until, end |-> instruction.end]
<1>1. /\ Executable /\ ~LoopActs /\ ~PopsLoop /\ ~UsesCount /\ ~(Is("STACK") /\ instruction.loop)
      /\ ~LoopExits /\ ~LoopTestsCounter
  BY DEF Retire, Executable, LoopSetupPossible, LoopActs, LoopExits, LoopTestsCounter,
         PopsLoop, UsesCount, JumpTestsCounter, Is
<1>2. rounds' = Append(rounds, new)
  BY <1>1 DEF Retire, RememberLoops
<1>3. /\ pcStack'.items = Append(pcStack.items, AddressAfter(pc)) /\ AddressAfter(pc) \in Addresses
      /\ loopStack'.items = Append(loopStack.items, entry) /\ entry \in LoopEntries
      /\ count' = count
  <2>1. pcStack' = Push(pcStack, AddressAfter(pc), PcDepth)
    BY <1>1 DEF Retire, PcStackAfter, Is
  <2>2. loopStack' = Push(loopStack, entry, LoopDepth) /\ entry \in LoopEntries
    BY <1>1, InstructionFacts DEF Retire, LoopStackAfter, LoopEntries
  <2>3. AddressAfter(pc) \in Addresses
    BY AddressAfterType DEF TypeInv, TypeOK
  <2>4. count' = count
    BY <1>1 DEF Retire, CountAfter, UsesCount, Is
  <2> HIDE DEF entry
  <2>5. /\ pcStack'.items = Append(pcStack.items, AddressAfter(pc))
        /\ loopStack'.items = Append(loopStack.items, entry)
    BY <2>1, <2>2, <2>3, StacksTyped, PushFacts DEF Overflowed
  <2>6. QED
    BY <2>2, <2>3, <2>4, <2>5
<1>4. /\ n \in Nat /\ DOMAIN rounds = 1 .. n /\ n = Len(loopStack.items)
      /\ \A k \in DOMAIN rounds : LoopOwns(k)
  BY RoundsTyped DEF LoopInv
<1>5. /\ DOMAIN rounds' = 1 .. n + 1 /\ Len(rounds') = n + 1
      /\ \A k \in 1 .. n : rounds'[k] = rounds[k]
      /\ rounds'[n + 1] = new
  <2>1. rounds \in Seq(Rounds) /\ new \in Rounds
    <3>1. /\ AddressAfter(pc) \in Addresses /\ count.cntr \in Counts \cup {Unknown}
          /\ Len(pcStack.items) \in Nat /\ Len(AllCounts(count)) \in Nat
      BY <1>3, CountsWellTyped, AllCountsFacts, StacksTyped, LenProperties
         DEF CounterOK, CountRecords
    <3>2. QED
      BY <3>1 DEF Rounds, TypeInv, HistoryOK
  <2> HIDE DEF new
  <2>2. QED
    BY <1>2, <2>1, AppendProperties, LenProperties
<1>6. /\ Len(loopStack'.items) = n + 1
      /\ \A k \in 1 .. n : loopStack'.items[k] = loopStack.items[k]
  <2> HIDE DEF entry
  <2>1. QED
    BY <1>3, <1>4, StacksTyped, AppendProperties
<1>7. /\ Len(pcStack'.items) = Len(pcStack.items) + 1
      /\ pcStack'.items[Len(pcStack.items) + 1] = AddressAfter(pc)
  BY <1>3, StacksTyped, AppendProperties
<1>8. ASSUME NEW k \in 1 .. n
      PROVE  LoopOwns(k)'
  <2>1. PcOwned(k)'
    BY <1>1, <1>4, <1>5, LoopSurvives
  <2>2. \A j \in DOMAIN rounds' : j < k => rounds'[j].pcs < rounds'[k].pcs
    BY <1>4, <1>5 DEF LoopOwns
  <2>3. Counted(k)' => CountOwned(k)'
    <3>1. Counted(k)' => Counted(k)
      BY <1>6 DEF Counted
    <3>2. QED
      BY <1>1, <1>4, <1>5, <3>1, CountSurvives
  <2>4. QED
    BY <2>1, <2>2, <2>3 DEF LoopOwns
<1>9. ASSUME NEW m, m = n + 1
      PROVE  LoopOwns(m)'
  <2>1. PcOwned(m)'
    BY <1>5, <1>7, <1>9, StacksTyped DEF PcOwned
  <2>2. \A j \in DOMAIN rounds' : j < m => rounds'[j].pcs < rounds'[m].pcs
    BY <1>4, <1>5, <1>9 DEF LoopOwns, PcOwned
  <2>3. CountOwned(m)'
    <3>1. CASE count.cntr = Unknown
      BY <1>3, <1>5, <1>9, <3>1 DEF CountOwned
    <3>2. CASE count.cntr # Unknown
      <4>1. /\ Len(AllCounts(count)) \in DOMAIN AllCounts(count)
            /\ AllCounts(count)[Len(AllCounts(count))] = count.cntr
            /\ count.cntr \in Counts
        <5>1. /\ AllCounts(count) \in Seq(Counts) /\ count.stack.items \in Seq(Counts)
              /\ Len(AllCounts(count)) = Len(count.stack.items) + 1
              /\ AllCounts(count)[Len(AllCounts(count))] = count.cntr
              /\ count.cntr \in Counts
          BY <3>2, CountsWellTyped, AllCountsFacts DEF CounterOK, CountRecords, Stacks
        <5>2. QED
          BY <5>1, LenProperties
      <4>2. 0 < Length(count.cntr) /\ Left(count.cntr, 0) = count.cntr
        BY <4>1, CounterConstants DEF Length, Left, Counts
      <4>3. /\ rounds'[m].load = count.cntr /\ rounds'[m].tests = 0
            /\ rounds'[m].counts = Len(AllCounts(count))
        BY <1>5, <1>9
      <4>4. QED
        BY <1>3, <3>2, <4>1, <4>2, <4>3 DEF CountOwned
    <3>3. QED
      BY <3>1, <3>2
  <2>4. QED
    BY <2>1, <2>2, <2>3 DEF LoopOwns
<1>10. \A k \in DOMAIN rounds' : LoopOwns(k)'
  BY <1>4, <1>5, <1>8, <1>9
<1>11. QED
  BY <1>5, <1>6, <1>10 DEF LoopInv

\* A loop that ends, or that POP LOOP forgets, leaves the loops around it theirs.
LEMMA EndLoopInv ==
  ASSUME TypeInv, LoopInv, LoopsKeepTheirPlace, NEW low \in SUBSET Pins, Retire(low),
         ~Overflowed, ~Overflowed', PopsLoop
  PROVE  LoopInv'
<1> DEFINE n == Len(rounds)
<1>1. /\ ~Is("DO") /\ Executable
      /\ rounds' = WithoutLast(rounds) /\ loopStack' = Pop(loopStack)
  <2>1. ~Is("DO") /\ Executable
    BY DEF PopsLoop, Retire, Executable, LoopSetupPossible, LoopExits, LoopActs, Is
  <2>2. QED
    BY <2>1 DEF PopsLoop, Retire, RememberLoops, LoopStackAfter
<1>2. /\ n \in Nat /\ DOMAIN rounds = 1 .. n /\ n = Len(loopStack.items)
      /\ \A k \in DOMAIN rounds : LoopOwns(k)
      /\ rounds \in Seq(Rounds) /\ rounds # <<>> <=> n > 0
  BY RoundsTyped DEF LoopInv, TypeInv, HistoryOK
<1>3. CASE n = 0
  <2>1. loopStack.items = <<>>
    <3>1. loopStack.items \in Seq(LoopEntries) /\ Len(loopStack.items) = 0
      BY <1>2, <1>3, StacksTyped
    <3>2. QED
      BY <3>1, EmptySeq
  <2>2. rounds = <<>>
    BY <1>2, <1>3
  <2>3. rounds' = <<>> /\ loopStack' = loopStack
    BY <1>1, <2>1, <2>2 DEF WithoutLast, Pop, HasTop
  <2>4. rounds' = rounds
    BY <2>2, <2>3
  <2>5. Len(rounds') = Len(loopStack'.items) /\ DOMAIN rounds' = 1 .. 0
    BY <1>2, <1>3, <2>3, <2>4
  <2>6. QED
    BY <2>5 DEF LoopInv
<1>4. CASE n > 0
  <2>1. /\ Len(rounds') = n - 1 /\ DOMAIN rounds' = 1 .. n - 1
        /\ \A k \in 1 .. n - 1 : rounds'[k] = rounds[k]
    BY <1>1, <1>2, <1>4, WithoutLastType, LenProperties
  <2>2. /\ Len(loopStack'.items) = n - 1
        /\ \A k \in 1 .. n - 1 : loopStack'.items[k] = loopStack.items[k]
    <3>1. HasTop(loopStack)
      BY <1>2, <1>4, StacksTyped, EmptySeq DEF HasTop
    <3>2. /\ loopStack'.items = SubSeq(loopStack.items, 1, Len(loopStack.items) - 1)
          /\ Len(loopStack'.items) = Len(loopStack.items) - 1
      BY <1>1, <3>1, StacksTyped, PopFacts
    <3>3. QED
      BY <1>2, <3>1, <3>2, StacksTyped, CutFacts DEF HasTop
  <2>3. ASSUME NEW k \in 1 .. n - 1
        PROVE  LoopOwns(k)'
    <3>1. PcOwned(k)'
      BY <1>2, <2>1, LoopSurvives
    <3>2. \A j \in DOMAIN rounds' : j < k => rounds'[j].pcs < rounds'[k].pcs
      <4>1. k \in DOMAIN rounds /\ \A j \in DOMAIN rounds' : j \in DOMAIN rounds
        BY <1>2, <2>1
      <4>2. QED
        BY <1>2, <2>1, <4>1 DEF LoopOwns
    <3>3. Counted(k)' => CountOwned(k)'
      <4>1. Counted(k)' => Counted(k)
        BY <2>2 DEF Counted
      <4>2. QED
        BY <1>2, <2>1, <4>1, CountSurvives
    <3>4. QED
      BY <3>1, <3>2, <3>3 DEF LoopOwns
  <2>4. QED
    BY <2>1, <2>2, <2>3 DEF LoopInv
<1>5. QED
  BY <1>2, <1>3, <1>4

\* Everything else leaves the loops as they are, but for the round that a loop
\* going back takes from its count.
LEMMA BodyLoopInv ==
  ASSUME TypeInv, LoopInv, LoopsKeepTheirPlace, NEW low \in SUBSET Pins, Retire(low),
         ~Overflowed, ~Overflowed', ~Is("DO"), ~PopsLoop
  PROVE  LoopInv'
<1> DEFINE n == Len(rounds)
           tested == [rounds EXCEPT ![n].tests = @ + 1]
<1>1. Executable /\ loopStack' = loopStack /\ ~LoopExits
  BY DEF Retire, LoopStackAfter, PopsLoop
<1>2. /\ n \in Nat /\ DOMAIN rounds = 1 .. n /\ n = Len(loopStack.items)
      /\ \A k \in DOMAIN rounds : LoopOwns(k)
      /\ rounds \in Seq(Rounds) /\ rounds # <<>> <=> n > 0
  BY RoundsTyped DEF LoopInv, TypeInv, HistoryOK
<1>3. LoopTestsCounter => n \in DOMAIN rounds
  BY InnermostLoop DEF LoopTestsCounter, CountedLoop
<1>4. rounds' = IF LoopTestsCounter THEN tested ELSE rounds
  BY <1>1, <1>2, <1>3 DEF Retire, RememberLoops, PopsLoop
<1>5. /\ DOMAIN rounds' = 1 .. n /\ Len(rounds') = n
      /\ \A k \in 1 .. n : k # n \/ ~LoopTestsCounter => rounds'[k] = rounds[k]
      /\ \A k \in 1 .. n : rounds'[k].pcs = rounds[k].pcs /\ rounds'[k].start = rounds[k].start
      /\ LoopTestsCounter => rounds'[n] = [rounds[n] EXCEPT !.tests = @ + 1]
  <2>1. CASE ~LoopTestsCounter
    BY <1>2, <1>4, <2>1
  <2>2. CASE LoopTestsCounter
    <3> DEFINE e == [rounds[n] EXCEPT !.tests = @ + 1]
    <3>1. n \in 1 .. Len(rounds) /\ rounds[n] \in Rounds
      BY <1>2, <1>3, <2>2, ElementOfSeq
    <3>2. e \in Rounds /\ e.pcs = rounds[n].pcs /\ e.start = rounds[n].start
      BY <3>1 DEF Rounds
    <3>3. rounds' = [rounds EXCEPT ![n] = e]
      BY <1>2, <1>4, <2>2, <3>1
    <3> HIDE DEF e
    <3>4. /\ rounds' \in Seq(Rounds) /\ Len(rounds') = n
          /\ \A k \in 1 .. n : rounds'[k] = IF k = n THEN e ELSE rounds[k]
      BY <1>2, <3>1, <3>2, <3>3, ExceptSeq
    <3>5. QED
      BY <1>2, <1>3, <2>2, <3>2, <3>4, LenProperties DEF e
  <2>3. QED
    BY <2>1, <2>2
<1>6. ASSUME NEW k \in 1 .. n
      PROVE  LoopOwns(k)'
  <2>1. PcOwned(k)'
    BY <1>2, <1>5, LoopSurvives
  <2>2. \A j \in DOMAIN rounds' : j < k => rounds'[j].pcs < rounds'[k].pcs
    BY <1>2, <1>5 DEF LoopOwns
  <2>3. Counted(k)' => CountOwned(k)'
    <3>1. Counted(k)' => Counted(k)
      BY <1>1 DEF Counted
    <3>2. CASE k = n /\ LoopTestsCounter
      BY <1>1, <1>5, <3>2, CountGoesDown
    <3>3. CASE ~(k = n /\ LoopTestsCounter)
      BY <1>2, <1>5, <3>1, <3>3, CountSurvives
    <3>4. QED
      BY <3>2, <3>3
  <2>4. QED
    BY <2>1, <2>2, <2>3 DEF LoopOwns
<1>7. QED
  BY <1>1, <1>2, <1>5, <1>6 DEF LoopInv

LEMMA EnterLoopInv ==
  ASSUME TypeInv, LoopInv, NEW low \in SUBSET Pins, EnterInterrupt(low)
  PROVE  LoopInv'
<1>1. SUFFICES ASSUME ~Overflowed' PROVE LoopInv'
  BY DEF LoopInv
<1>2. ~Overflowed
  BY <1>1, OverflowStays
<1>3. rounds' = rounds /\ loopStack' = loopStack /\ count' = count
  BY <1>1 DEF EnterInterrupt
<1>4. ASSUME NEW k \in DOMAIN rounds
      PROVE  LoopOwns(k)'
  <2> DEFINE h == rounds[k].pcs + 1
  <2>1. LoopOwns(k)
    BY <1>2 DEF LoopInv
  <2>2. h \in 1 .. Len(pcStack.items) /\ pcStack.items[h] = rounds[k].start
    BY <2>1, RoundsTyped, StacksTyped DEF LoopOwns, PcOwned
  <2>3. pcStack'.items = Append(pcStack.items, pc) /\ pc \in Addresses
    <3>1. pc \in Addresses
      BY DEF TypeInv, TypeOK
    <3>2. QED
      BY <1>1, <3>1, StacksTyped, PushFacts DEF EnterInterrupt, Overflowed
  <2>4. /\ Len(pcStack'.items) = Len(pcStack.items) + 1
        /\ \A i \in 1 .. Len(pcStack.items) : pcStack'.items[i] = pcStack.items[i]
    BY <2>3, StacksTyped, AppendProperties
  <2>5. rounds[k].pcs \in Nat /\ Len(pcStack.items) \in Nat
    BY RoundsTyped, StacksTyped
  <2>6. PcOwned(k)'
    BY <1>3, <2>2, <2>4, <2>5 DEF PcOwned
  <2>7. QED
    BY <1>3, <2>1, <2>6 DEF LoopOwns, CountOwned, Counted
<1>5. QED
  BY <1>2, <1>3, <1>4 DEF LoopInv

LEMMA StepLoopInv ==
  ASSUME TypeInv, LoopInv, LoopsKeepTheirPlace, [Next]_vars
  PROVE  LoopInv'
<1>1. ASSUME NEW low \in SUBSET Pins, Retire(low)
      PROVE  LoopInv'
  <2>1. SUFFICES ASSUME ~Overflowed' PROVE LoopInv'
    BY DEF LoopInv
  <2>2. ~Overflowed
    BY <1>1, <2>1, OverflowStays
  <2>3. QED
    BY <1>1, <2>1, <2>2, DoLoopInv, EndLoopInv, BodyLoopInv
<1>2. ASSUME UNCHANGED <<machine, rounds>>
      PROVE  LoopInv'
  BY <1>2 DEF machine, LoopInv, LoopOwns, PcOwned, CountOwned, Counted, Overflowed
<1>3. CASE Reset
  BY <1>3, EmptySeq DEF Reset, LoopInv, EmptyStack
<1>4. QED
  BY <1>1, <1>2, <1>3, EnterLoopInv DEF Next, Advance, WaitCycle, vars

LEMMA LoopInvHolds == Spec /\ []LoopsKeepTheirPlace => []LoopInv
<1>1. Init => LoopInv
  BY EmptySeq DEF Init, LoopInv, EmptyStack
<1>2. QED
  BY <1>1, TypeInvHolds, StepLoopInv, PTL DEF Spec

\* Where loop bodies clear up behind them, a loop goes back to the word after
\* its own DO, and a counted one ends at the test that its own count says.
THEOREM LoopsRunAsSetUp == Spec /\ []LoopsKeepTheirPlace => LoopsKeepTheirOwn
<1>1. ASSUME TypeInv, LoopInv, LoopsKeepTheirPlace, NEW low \in SUBSET Pins, Retire(low),
             LoopExits, CountedLoop, ~Overflowed
      PROVE  Last(rounds).tests + 1 = Length(Last(rounds).load)
  <2>1. LoopTestsCounter /\ Expired
    BY <1>1 DEF LoopExits, LoopTestsCounter, CountedLoop, Holds
  <2>2. Last(rounds) = rounds[Len(rounds)] /\ Len(rounds) \in DOMAIN rounds
    BY <1>1, InnermostLoop DEF CountedLoop
  <2>3. /\ Last(rounds).load \in Counts /\ Last(rounds).tests < Length(Last(rounds).load)
        /\ Left(Last(rounds).load, Last(rounds).tests) = 1 /\ Last(rounds).tests \in Nat
    BY <1>1, <2>1, <2>2, InnermostCount, RoundsTyped DEF Retire, Expired
  <2>4. QED
    BY <2>3, LeftFacts
<1>2. ASSUME TypeInv, LoopInv, LoopsKeepTheirPlace, NEW low \in SUBSET Pins, Retire(low),
             LoopActs, ~LoopExits, ~Overflowed
      PROVE  pc' = Last(rounds).start
  <2>1. pc' = Top(pcStack)
    BY <1>2 DEF Retire, NextPc, LoopActs
  <2>2. /\ Last(rounds) = rounds[Len(rounds)] /\ Len(rounds) \in DOMAIN rounds
        /\ PcOwned(Len(rounds))
    BY <1>2, InnermostLoop DEF LoopActs, AtLoopEnd, LoopOwns
  <2>3. Len(pcStack.items) = rounds[Len(rounds)].pcs + 1
    BY <1>2, <2>2 DEF LoopsKeepTheirPlace, Retire
  <2>4. QED
    BY <2>1, <2>2, <2>3 DEF PcOwned, Top
<1>3. TypeInv /\ LoopInv /\ LoopsKeepTheirPlace =>
        [(\E low \in SUBSET Pins : Retire(low)) /\ LoopExits /\ CountedLoop /\ ~Overflowed
         => Last(rounds).tests + 1
              = (IF Last(rounds).load = 0 THEN CountModulus ELSE Last(rounds).load)]_vars
  BY <1>1 DEF Length
<1>4. TypeInv /\ LoopInv /\ LoopsKeepTheirPlace =>
        [(\E low \in SUBSET Pins : Retire(low)) /\ LoopActs /\ ~LoopExits /\ ~Overflowed
         => pc' = Last(rounds).start]_vars
  BY <1>2
<1>5. QED
  BY <1>3, <1>4, TypeInvHolds, LoopInvHolds, PTL
     DEF LoopsKeepTheirOwn, CountedLoopRuns, LoopGoesBack

-----------------------------------------------------------------------------
(* Room for the nested services *)

NoPush == \A a \in Addresses : ~(program[a].op = "STACK" /\ program[a].status = "PUSH")

OthersOverflowed == pcStack.overflow \/ loopStack.overflow \/ count.stack.overflow

\* The k-th service nested is of level k - 1 at least.
LevelsRise == \A k \in DOMAIN interrupted : interrupted[k].level >= k - 1

\* Every entry of the status stack is of a service, as no word pushes one.
DepthInv ==
  /\ LevelsRise
  /\ NoPush => /\ statusStack.overflow => OthersOverflowed
               /\ ~Overflowed => Len(statusStack.items) <= Len(interrupted)

\* The status stack is never the first to overflow.
StatusFits == NoPush /\ statusStack.overflow => OthersOverflowed

LEMMA StatusesTyped ==
  ASSUME TypeInv
  PROVE  /\ statusStack \in Stacks(Statuses) /\ Len(statusStack.items) \in Nat
         /\ Len(statusStack.items) <= StatusDepth /\ StatusDepth \in Nat
         /\ Status \in Statuses /\ Len(interrupted) \in Nat
<1>1. /\ statusStack \in Stacks(Statuses) /\ Len(statusStack.items) <= StatusDepth
      /\ Status \in Statuses
  BY DEF TypeInv, TypeOK, IsStack, Statuses, Status, InterruptOK
<1>2. statusStack.items \in Seq(Statuses)
  BY <1>1 DEF Stacks
<1>3. QED
  BY <1>1, <1>2, LenProperties, ProgramFlowConstants DEF TypeInv, HistoryOK

LEMMA RetireDepthInv ==
  ASSUME TypeInv, FrameInv, DepthInv, ServicesKeepTheirPlace,
         NEW low \in SUBSET Pins, Retire(low)
  PROVE  DepthInv'
<1>1. RememberServices /\ Executable /\ WriteStatus /\ program' = program
  BY DEF Retire
<1>2. LevelsRise'
  <2>1. CASE interrupted' = <<>>
    BY <2>1 DEF LevelsRise
  <2>2. CASE interrupted # <<>> /\ interrupted' = WithoutLast(interrupted)
    BY <2>2, WithoutLastService DEF DepthInv, LevelsRise
  <2>3. CASE interrupted' = interrupted
    BY <2>3 DEF DepthInv, LevelsRise
  <2>4. QED
    BY <1>1, <2>1, <2>2, <2>3 DEF RememberServices, WithoutLast
<1>3. ASSUME NoPush
      PROVE  /\ statusStack'.overflow = statusStack.overflow
             /\ Len(statusStack'.items) <= Len(statusStack.items)
             /\ RTI => Len(statusStack'.items) = Len(statusStack.items) - 1
  <2>1. ~(Is("STACK") /\ instruction.status = "PUSH")
    BY <1>3 DEF NoPush, instruction, Is, TypeInv, TypeOK
  <2>2. CASE RestoreStatus
    BY <2>2, StatusesTyped, PopFacts DEF RestoreStatus
  <2>3. CASE ~RestoreStatus
    <3>1. statusStack' = statusStack
      BY <1>1, <2>1, <2>3 DEF WriteStatus, Compute, WriteMask, WriteControl, PushStatus,
                              KeepStatus
    <3>2. ~RTI
      BY <1>1, <2>3 DEF RTI, RestoreStatus, WriteStatus, Compute, WriteMask, WriteControl,
                        PushStatus, KeepStatus, RestoresStatus, Is, Executable, ReturnPossible
    <3>3. QED
      BY <3>1, <3>2, StatusesTyped
  <2>4. QED
    BY <2>2, <2>3
<1>4. OthersOverflowed => OthersOverflowed'
  BY <1>1, CountAfterFacts, PcStackAfterFacts, LoopStackAfterFacts DEF Retire, OthersOverflowed
<1>5. ASSUME NoPush, ~Overflowed'
      PROVE  Len(statusStack'.items) <= Len(interrupted')
  <2>1. ~Overflowed
    BY <1>5, OverflowStays
  <2>2. Len(statusStack.items) <= Len(interrupted)
    BY <1>5, <2>1 DEF DepthInv
  <2>3. CASE RTI /\ interrupted # <<>>
    <3>1. Len(interrupted') = Len(interrupted) - 1
      BY <1>1, <1>5, <2>3, WithoutLastType DEF RememberServices, RTI, TypeInv, HistoryOK
    <3>2. QED
      BY <1>3, <1>5, <2>2, <2>3, <3>1, StatusesTyped
  <2>4. CASE ~(RTI /\ interrupted # <<>>)
    <3>1. interrupted' = interrupted
      BY <1>1, <1>5, <2>4 DEF RememberServices, RTI, WithoutLast
    <3>2. Len(statusStack'.items) \in Nat
      BY RetireTypeInv, LenProperties DEF TypeInv, TypeOK, IsStack, Stacks
    <3>3. QED
      BY <1>3, <1>5, <2>2, <3>1, <3>2, StatusesTyped
  <2>5. QED
    BY <2>3, <2>4
<1>6. NoPush' => NoPush
  BY <1>1 DEF NoPush
<1>7. QED
  BY <1>2, <1>3, <1>4, <1>5, <1>6 DEF DepthInv

LEMMA EnterDepthInv ==
  ASSUME StatusDepth >= 4, TypeInv, MaskInv, DepthInv,
         NEW low \in SUBSET Pins, EnterInterrupt(low)
  PROVE  DepthInv'
<1> DEFINE n == Len(interrupted)
<1>1. /\ vectoring \in Levels /\ vectoring # NoLevel /\ program' = program
      /\ interrupted' = (IF Overflowed' THEN <<>>
                         ELSE Append(interrupted, [level |-> vectoring, context |-> Context]))
      /\ pcStack' = Push(pcStack, pc, PcDepth) /\ loopStack' = loopStack /\ count' = count
      /\ statusStack' = Push(statusStack, Status, StatusDepth)
  BY DEF EnterInterrupt, TypeInv, TypeOK
<1>2. vectoring >= n /\ n \in Nat
  <2>1. CASE interrupted = <<>>
    BY <1>1, <2>1 DEF Levels
  <2>2. CASE interrupted # <<>>
    <3>1. /\ n \in DOMAIN interrupted /\ Last(interrupted) = interrupted[n] /\ n \in Nat
          /\ interrupted[n].level \in Levels
      BY <2>2, LastService, ServedContexts
    <3>2. vectoring \in Above(icntl.nest, interrupted[n].level)
      BY <1>1, <2>2, <3>1 DEF MaskInv
    <3>3. vectoring > interrupted[n].level
      BY <3>1, <3>2, AboveNests
    <3>4. interrupted[n].level >= n - 1
      BY <3>1 DEF DepthInv, LevelsRise
    <3>5. QED
      BY <1>1, <3>1, <3>3, <3>4 DEF Levels
  <2>3. QED
    BY <2>1, <2>2
<1>3. LevelsRise'
  <2>1. CASE Overflowed'
    BY <1>1, <2>1 DEF LevelsRise
  <2>2. CASE ~Overflowed'
    BY <1>1, <1>2, <2>2, OneMoreService DEF DepthInv, LevelsRise
  <2>3. QED
    BY <2>1, <2>2
<1>4. OthersOverflowed => OthersOverflowed'
  BY <1>1 DEF Push, OthersOverflowed
<1>5. ASSUME NoPush, ~Overflowed
      PROVE  /\ statusStack'.overflow = statusStack.overflow
             /\ Len(statusStack'.items) = Len(statusStack.items) + 1
  <2>1. Len(statusStack.items) <= n
    BY <1>5 DEF DepthInv
  <2>2. Len(statusStack.items) < StatusDepth
    BY <1>1, <1>2, <2>1, StatusesTyped DEF Levels
  <2>3. statusStack' = [items |-> Append(statusStack.items, Status),
                        overflow |-> statusStack.overflow]
    BY <1>1, <2>2, StatusesTyped DEF Push, Stacks
  <2>4. QED
    BY <2>3, StatusesTyped, AppendProperties DEF Stacks
<1>6. ASSUME NoPush, ~Overflowed'
      PROVE  Len(statusStack'.items) <= Len(interrupted')
  <2>1. ~Overflowed
    BY <1>6, OverflowStays
  <2>2. Len(statusStack'.items) = Len(statusStack.items) + 1 /\ Len(statusStack.items) <= n
    BY <1>5, <1>6, <2>1 DEF DepthInv
  <2>3. DOMAIN interrupted' = 1 .. n + 1
    BY <1>1, <1>6, OneMoreService
  <2>4. Len(interrupted') = n + 1
    <3>1. interrupted' \in Seq([level : Levels, context : Contexts])
      BY EnterTypeInv DEF TypeInv, HistoryOK
    <3>2. DOMAIN interrupted' = 1 .. Len(interrupted') /\ Len(interrupted') \in Nat
      BY <3>1, LenProperties
    <3>3. QED
      BY <1>2, <2>3, <3>2
  <2>5. QED
    BY <1>2, <2>2, <2>4, StatusesTyped
<1>7. NoPush' => NoPush
  BY <1>1 DEF NoPush
<1>8. ASSUME NoPush, statusStack'.overflow
      PROVE  OthersOverflowed'
  <2>1. CASE Overflowed
    BY <1>4, <1>8, <2>1 DEF DepthInv, Overflowed, OthersOverflowed
  <2>2. CASE ~Overflowed
    BY <1>5, <1>8, <2>2 DEF Overflowed
  <2>3. QED
    BY <2>1, <2>2
<1>9. QED
  BY <1>3, <1>6, <1>7, <1>8 DEF DepthInv

LEMMA StepDepthInv ==
  ASSUME StatusDepth >= 4, TypeInv, FrameInv, MaskInv, DepthInv, ServicesKeepTheirPlace,
         [Next]_vars
  PROVE  DepthInv'
<1>1. ASSUME UNCHANGED <<machine, interrupted>>
      PROVE  DepthInv'
  BY <1>1 DEF machine, DepthInv, LevelsRise, NoPush, OthersOverflowed, Overflowed
<1>2. CASE Reset
  BY <1>2, EmptySeq DEF Reset, DepthInv, LevelsRise, EmptyStack
<1>3. QED
  BY <1>1, <1>2, RetireDepthInv, EnterDepthInv DEF Next, Advance, WaitCycle, vars

\* With an entry for each of the four levels, the contexts that services save
\* never overflow the status stack, as long as no word pushes on it as well and
\* no other stack has overflowed.
THEOREM NestedContextsAlwaysFit ==
  ASSUME StatusDepth >= 4
  PROVE  Spec /\ []ServicesKeepTheirPlace /\ []ServicesKeepTheirMask => []StatusFits
<1>1. Init => DepthInv
  BY EmptySeq DEF Init, DepthInv, LevelsRise, EmptyStack
<1>2. TypeInv /\ FrameInv /\ MaskInv /\ DepthInv /\ ServicesKeepTheirPlace /\ [Next]_vars
        => DepthInv'
  BY StepDepthInv
<1>3. DepthInv => StatusFits
  BY DEF DepthInv, StatusFits
<1>4. QED
  BY <1>1, <1>2, <1>3, TypeInvHolds, FrameInvHolds, MaskInvHolds, PTL DEF Spec

=============================================================================
