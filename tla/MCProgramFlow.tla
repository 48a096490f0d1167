------------------------------ MODULE MCProgramFlow ------------------------------
(***************************************************************************)
(* Programs for the runs of ProgramFlow.  All have services at vectors 1   *)
(* and 3: a short one, and one with a counted loop and a call.             *)
(***************************************************************************)
EXTENDS SequencerSlices

Word(op) == [op |-> op]
Transfer(op, condition, target) == [op |-> op, condition |-> condition, target |-> target]
Go(target) == Transfer("JUMP", "ALWAYS", target)
CallTo(target) == Transfer("CALL", "ALWAYS", target)
Back(condition, restore) == [op |-> "RETURN", condition |-> condition, restore |-> restore]
LoadCount(value) == [op |-> "LOAD", value |-> value]
DoUntil(until, end) == [op |-> "DO", until |-> until, end |-> end]
Mask(levels) == [op |-> "IMASK", mask |-> levels]
Control(edges, nest) == [op |-> "ICNTL", edge |-> edges, nest |-> nest]
StackWord(pops, status) ==
  [op |-> "STACK", pc |-> "PC" \in pops, loop |-> "LOOP" \in pops,
   count |-> "COUNT" \in pops, status |-> status]

MCAddresses == 0 .. 25

MCPins == {1, 3}

\* Vector 1: a short service that runs on into vector 2, which has no pin here.
\* Vector 3: a service with a counted loop.
Services ==
  (1 :> Word("COMPUTE")) @@ (2 :> Back("ALWAYS", TRUE))
  @@ (3 :> Go(22)) @@ (22 :> LoadCount(2)) @@ (23 :> DoUntil("NOT_CE", 24))
  @@ (24 :> Word("COMPUTE")) @@ (25 :> Back("ALWAYS", TRUE))

Image(setup, body) == setup @@ body @@ Services @@ [a \in MCAddresses |-> Word("PLAIN")]

\* IRQ3 is edge-sensitive, IRQ1 level-sensitive.
Setup(enabled, nest) == (4 :> Control({3}, nest)) @@ (5 :> Mask(enabled))

\* Counted loops in each other, a subroutine that may return early, and an
\* inner loop that is set up again in every round of the outer one.
NestedLoops ==
  (6 :> LoadCount(2)) @@ (7 :> DoUntil("NOT_CE", 12))
  @@ (8 :> LoadCount(2)) @@ (9 :> DoUntil("NOT_CE", 11))
  @@ (10 :> CallTo(14)) @@ (13 :> Go(6))
  @@ (14 :> Back("FLAG", FALSE)) @@ (15 :> Back("ALWAYS", FALSE))

\* A count of zero; an endless loop left by a jump that pops what the loop
\* pushed, the jump being the last word of the loop; a loop that ends on a
\* flag; a loop made of a jump on NOT CE; a status word kept by hand while the
\* mask changes.
OtherWords ==
  (6 :> LoadCount(0)) @@ (7 :> DoUntil("NOT_CE", 8))
  @@ (9 :> DoUntil("ALWAYS", 11)) @@ (10 :> Word("COMPUTE"))
  @@ (11 :> Transfer("JUMP", "FLAG", 12)) @@ (12 :> StackWord({"PC", "LOOP"}, "PUSH"))
  @@ (13 :> Mask({3})) @@ (14 :> StackWord({}, "POP"))
  @@ (15 :> DoUntil("FLAG", 16)) @@ (16 :> Word("COMPUTE"))
  @@ (17 :> LoadCount(1)) @@ (18 :> LoadCount(2)) @@ (19 :> Transfer("JUMP", "NOT_CE", 19))
  @@ (20 :> StackWord({"COUNT"}, "NONE")) @@ (21 :> Go(6))

\* A subroutine that calls itself, and loops nested beyond the loop stack.
Overflows ==
  (6 :> LoadCount(2)) @@ (7 :> DoUntil("NOT_CE", 14))
  @@ (8 :> LoadCount(1)) @@ (9 :> DoUntil("NOT_CE", 13))
  @@ (10 :> LoadCount(1)) @@ (11 :> DoUntil("NOT_CE", 12))
  @@ (15 :> Transfer("TRAP", "FLAG", 0)) @@ (16 :> CallTo(18)) @@ (17 :> Go(6))
  @@ (18 :> Word("COMPUTE")) @@ (19 :> Transfer("CALL", "FLAG", 18))
  @@ (20 :> Back("ALWAYS", FALSE))

MCPrograms ==
  {Image(Setup({1, 3}, TRUE), NestedLoops), Image(Setup({1, 3}, FALSE), NestedLoops),
   Image(Setup({1, 3}, TRUE), OtherWords), Image(Setup({1}, FALSE), Overflows)}

\* One word and more of every flow type.
MCProbes ==
  {Word("PLAIN"), LoadCount(2), StackWord({}, "PUSH"), StackWord({"COUNT"}, "POP"),
   StackWord({"PC", "LOOP"}, "NONE"), StackWord({"PC", "COUNT"}, "POP"),
   Back("ALWAYS", TRUE), Back("FLAG", FALSE), Back("NOT_CE", TRUE)}
  \cup {DoUntil(until, end) : until \in {"NOT_CE", "FLAG"}, end \in {11, 24}}
  \cup {Transfer(op, condition, 0) :
          op \in {"JUMP", "CALL", "TRAP"}, condition \in {"ALWAYS", "NOT_CE", "FLAG"}}

=============================================================================
