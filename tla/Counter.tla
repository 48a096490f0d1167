--------------------------------- MODULE Counter ---------------------------------
(***************************************************************************)
(* The loop counter CNTR and its count stack, rtl/core/                    *)
(* adsp2100_counter.sv, after the stack shape shared by rtl/core/          *)
(* adsp2100_sequencer_stacks.sv (PC, count and loop stacks) and            *)
(* adsp2100_status_stack.sv.  A loaded counter is the count of the         *)
(* innermost loop; the counts of the loops around it wait on the count     *)
(* stack.                                                                  *)
(***************************************************************************)
EXTENDS Integers, Sequences

-----------------------------------------------------------------------------
(* A stack.  When full it drops the new entry and remembers that it did    *)
(* until RESET; a pop of an empty stack does nothing.                      *)

EmptyStack == [items |-> <<>>, overflow |-> FALSE]

Stacks(Entries) == [items : Seq(Entries), overflow : BOOLEAN]

IsStack(stack, Entries, depth) == stack \in Stacks(Entries) /\ Len(stack.items) <= depth

HasTop(stack) == stack.items # <<>>

Top(stack) == stack.items[Len(stack.items)]

\* Mutant: a full stack loses its oldest entry, and nobody is told.
PushSliding(stack, entry, depth) ==
  [stack EXCEPT !.items =
     IF Len(stack.items) < depth THEN Append(stack.items, entry)
     ELSE Append(Tail(stack.items), entry)]

Push(stack, entry, depth) ==
  IF Len(stack.items) < depth
    THEN [stack EXCEPT !.items = Append(stack.items, entry)]
    ELSE [stack EXCEPT !.overflow = TRUE]

Pop(stack) ==
  IF HasTop(stack)
    THEN [stack EXCEPT !.items = SubSeq(stack.items, 1, Len(stack.items) - 1)]
    ELSE stack

-----------------------------------------------------------------------------
(* The counter *)

CONSTANTS CountModulus,   \* 2^14: CNTR is 14 bits wide
          CountDepth,     \* 4
          Unknown         \* CNTR before it is loaded

VARIABLE count   \* [cntr, stack]

Counts == 0 .. CountModulus - 1

ASSUME CounterConstants ==
  /\ CountModulus \in Nat /\ CountModulus > 1
  /\ CountDepth \in Nat
  /\ Unknown \notin Counts

NoCount == [cntr |-> Unknown, stack |-> EmptyStack]

CountOK ==
  /\ count \in [cntr : Counts \cup {Unknown}, stack : Stacks(Counts)]
  /\ Len(count.stack.items) <= CountDepth

Expired == count.cntr = 1

\* Every count there is, the innermost last.
AllCounts(c) == IF c.cntr = Unknown THEN <<>> ELSE Append(c.stack.items, c.cntr)

\* A loaded value displaces a known count onto the stack.
Load(value) ==
  [cntr  |-> value,
   stack |-> IF count.cntr = Unknown THEN count.stack
             ELSE Push(count.stack, count.cntr, CountDepth)]

\* The count that waits on the stack, or none, takes over.
Restored ==
  [cntr  |-> IF HasTop(count.stack) THEN Top(count.stack) ELSE Unknown,
   stack |-> Pop(count.stack)]

\* POP CNTR; nothing happens when no count waits.
PopCount == IF HasTop(count.stack) THEN Restored ELSE count

\* Mutant: the last round leaves its count behind.
TestKeepingCount ==
  [count EXCEPT !.cntr = (count.cntr - 1) % CountModulus]

\* Mutant: the counter does not wrap.
TestWithoutWrap ==
  CASE Expired -> Restored
    [] count.cntr \notin {1, Unknown} -> [count EXCEPT !.cntr = count.cntr - 1]
    [] OTHER -> count

\* A test decrements, wrapping below zero, or ends the count at one.
Test ==
  CASE Expired -> Restored
    [] count.cntr \notin {1, Unknown} ->
         [count EXCEPT !.cntr = (count.cntr - 1) % CountModulus]
    [] OTHER -> count

=============================================================================
