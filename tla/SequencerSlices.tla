----------------------------- MODULE SequencerSlices -----------------------------
(***************************************************************************)
(* The stand-alone sequencer slice (sequencer_slice.py) and the slices of  *)
(* the control-flow types: direct and indirect jump and call (Types 10 and *)
(* 19), return (20), DO UNTIL (11), stack control (26) and TRAP (22).      *)
(* Each holds a part of the sequencer's state, is set up through ports of  *)
(* its own, one at a time, and executes one word at a time, by code of its *)
(* own: ProgramFlow is what the integrated core makes of the same words.   *)
(***************************************************************************)
EXTENDS ProgramFlow

CONSTANT Probes   \* the words offered to the slices

\* The core as it stands, about to execute the word i.
With(i) == INSTANCE ProgramFlow WITH program <- [a \in Addresses |-> i]

Counting(c) == INSTANCE Counter WITH count <- c

AddressBefore(address) == (address - 1) % Cardinality(Addresses)

-----------------------------------------------------------------------------
(* sequencer.py and sequencer_slice.py *)

Flows == {"JUMP", "CALL", "RETURN"}

\* What a word asks of the sequencer slice.
RequestsOf(i) ==
  [flow  |-> IF i.op \in Flows THEN <<i>> ELSE <<>>,
   do    |-> IF i.op = "DO" THEN <<i>> ELSE <<>>,
   load  |-> IF i.op = "LOAD" THEN <<i.value>> ELSE <<>>,
   pops  |-> IF i.op = "STACK"
               THEN {s \in {"pc", "loop", "count"} : i[s]} ELSE {}]

\* The raw predicate: an unknown counter is not "not expired".
RawCondition(condition) ==
  CASE condition = "ALWAYS" -> TRUE
    [] condition = "NOT_CE" -> count.cntr \notin {Unknown, 1}
    [] condition = "FLAG"   -> astat

StraightOn == [pc |-> AddressAfter(pc), push |-> {}, pop |-> {}, event |-> "NONE"]

\* Next address, stacks pushed and popped, loop event.
SelectedFlow(flow, taken) ==
  CASE flow # <<>> /\ taken ->
         [pc |-> IF flow[1].op = "RETURN" THEN Top(pcStack) ELSE flow[1].target,
          push |-> IF flow[1].op = "CALL" THEN {"pc"} ELSE {},
          pop |-> IF flow[1].op = "RETURN" THEN {"pc"} ELSE {},
          event |-> "TRANSFER"]
    [] ~(flow # <<>> /\ taken) /\ LoopActive /\ pc = Top(loopStack).end ->
         IF RawCondition(Top(loopStack).until)
           THEN [StraightOn EXCEPT !.pc = Top(pcStack), !.event = "BACK"]
           ELSE [StraightOn EXCEPT !.pop = {"pc", "loop"}, !.event = "EXIT"]
    [] OTHER -> StraightOn

Unsupported(r, taken) ==
  LET uses(op) == r.flow # <<>> /\ r.flow[1].op \in op
      explicitCounter == r.flow # <<>> /\ r.flow[1].condition = "NOT_CE"
  IN \/ uses({"CALL"}) /\ explicitCounter
     \/ count.cntr = Unknown /\ (explicitCounter \/ CountedLoop)
     \/ LoopActive /\ ~HasTop(pcStack)
     \/ LoopActive /\ r.do # <<>> /\ Top(loopStack).end \in {pc, r.do[1].end}
     \/ r.do # <<>> /\ r.flow # <<>>
     \/ r.pops # {} /\ (r.do # <<>> \/ r.flow # <<>>)
     \/ uses({"RETURN"}) /\ taken /\ ~HasTop(pcStack)

\* Push and pop of one stack: no stack moves.
StacksCycle(stacks, pushes, pops) ==
  LET cycle(name, depth) ==
        IF name \in DOMAIN pushes THEN Push(stacks[name], pushes[name], depth)
        ELSE IF name \in pops THEN Pop(stacks[name]) ELSE stacks[name]
  IN IF DOMAIN pushes \cap pops # {} THEN stacks
     ELSE [pc |-> cycle("pc", PcDepth), loop |-> cycle("loop", LoopDepth)]

\* The counter with its stack; more than one action at once and it keeps still.
CounterCycle(c, load, pop, test) ==
  CASE load # <<>> /\ ~pop /\ ~test -> Counting(c)!Load(load[1])
    [] load = <<>> /\ pop /\ ~test -> Counting(c)!PopCount
    [] load = <<>> /\ ~pop /\ test -> Counting(c)!Test
    [] OTHER -> c

\* Mutant: a loop that goes back does not test its counter.
TestsOnExit(r, flow) ==
  \/ r.flow # <<>> /\ r.flow[1].op = "JUMP" /\ r.flow[1].condition = "NOT_CE"
  \/ flow.event = "EXIT" /\ CountedLoop

TestsCounter(r, flow) ==
  \/ r.flow # <<>> /\ r.flow[1].op = "JUMP" /\ r.flow[1].condition = "NOT_CE"
  \/ flow.event \in {"BACK", "EXIT"} /\ CountedLoop

\* More than one counter action, or a push and a pop of one stack.
IntegrationConflict(r, flow, test) ==
  \/ Cardinality({a \in {"load", "pop", "test"} :
        CASE a = "load" -> r.load # <<>> [] a = "pop" -> "count" \in r.pops
          [] a = "test" -> test}) > 1
  \/ (flow.push \cup (IF r.do # <<>> THEN {"pc", "loop"} ELSE {}))
       \cap (flow.pop \cup r.pops) # {}

\* The four stacks and the counter at the end of a valid boundary.
SliceExecutes(r, flow, test) ==
  LET pushes == IF r.do # <<>>
                  THEN [pc |-> AddressAfter(pc),
                        loop |-> [until |-> r.do[1].until, end |-> r.do[1].end]]
                  ELSE [s \in flow.push |-> AddressAfter(pc)]
  IN [valid |-> TRUE, pc |-> flow.pc,
      stacks |-> StacksCycle([pc |-> pcStack, loop |-> loopStack], pushes,
                             flow.pop \cup (r.pops \ {"count"})),
      count |-> CounterCycle(count, r.load, "count" \in r.pops, test)]

SliceRefuses ==
  [valid |-> FALSE, pc |-> AddressAfter(pc),
   stacks |-> [pc |-> pcStack, loop |-> loopStack], count |-> count]

SequencerSlice(r) ==
  LET taken == r.flow # <<>> /\ RawCondition(r.flow[1].condition)
      flow == SelectedFlow(r.flow, taken)
      test == TestsCounter(r, flow)
  IN IF Unsupported(r, taken) \/ IntegrationConflict(r, flow, test) THEN SliceRefuses
     ELSE SliceExecutes(r, flow, test)

-----------------------------------------------------------------------------
(* The per-type slices.  One record stands for the state of each of them;  *)
(* the parts a slice does not have stay at their reset values.             *)

ResetSlice ==
  [pc |-> ResetVector, astat |-> Unknown, imask |-> {}, count |-> NoCount,
   stacks |-> [pc |-> EmptyStack, loop |-> EmptyStack],
   statusStack |-> EmptyStack, index |-> Unknown]

Refused(s) == [valid |-> FALSE, state |-> s]
Done(s) == [valid |-> TRUE, state |-> s]

\* evaluate_flow_condition.
FlowCondition(s, condition) ==
  CASE condition = "ALWAYS" -> TRUE
    [] condition = "NOT_CE" -> IF s.count.cntr = Unknown THEN Unknown ELSE s.count.cntr # 1
    [] condition = "FLAG"   -> s.astat

Jumped(s, i, taken, target) ==
  [s EXCEPT !.pc = IF taken THEN target ELSE AddressAfter(@),
            !.count = CounterCycle(@, <<>>, FALSE, i.op = "JUMP" /\ i.condition = "NOT_CE"),
            !.stacks = StacksCycle(@, [n \in (IF i.op = "CALL" /\ taken THEN {"pc"} ELSE {})
                                         |-> AddressAfter(s.pc)], {})]

CallOnCounter(i) == i.op = "CALL" /\ i.condition = "NOT_CE"

DirectJump(s, i) ==
  LET taken == FlowCondition(s, i.condition)
  IN IF CallOnCounter(i) \/ taken = Unknown THEN Refused(s)
     ELSE Done(Jumped(s, i, taken, i.target))

\* The target is in an I register, which may be unknown.
IndirectJump(s, i) ==
  LET taken == FlowCondition(s, i.condition)
  IN IF CallOnCounter(i) \/ taken = Unknown \/ (taken /\ s.index = Unknown) THEN Refused(s)
     ELSE Done(Jumped(s, i, taken, s.index))

\* What a status entry popped leaves in the registers.
WithEntry(s) ==
  IF HasTop(s.statusStack)
    THEN [s EXCEPT !.astat = Top(s.statusStack).astat, !.imask = Top(s.statusStack).imask,
                   !.statusStack = Pop(@)]
    ELSE s

ConditionalReturn(s, i) ==
  LET taken == FlowCondition(s, i.condition)
      stacked == HasTop(s.stacks.pc) /\ (i.restore => HasTop(s.statusStack))
      popped == [s EXCEPT !.pc = Top(s.stacks.pc), !.stacks = StacksCycle(@, <<>>, {"pc"})]
  IN CASE taken = Unknown -> Refused(s)
       [] taken = FALSE -> Done([s EXCEPT !.pc = AddressAfter(@)])
       [] OTHER -> IF ~stacked THEN Refused(s)
                   ELSE Done(IF i.restore THEN WithEntry(popped) ELSE popped)

DoUntilLoop(s, i) ==
  LET active == HasTop(s.stacks.loop)
      outer == Top(s.stacks.loop)
      invalid == ~HasTop(s.stacks.pc) \/ (outer.until = "NOT_CE" /\ s.count.cntr = Unknown)
  IN IF active /\ (invalid \/ outer.end \in {s.pc, i.end}) THEN Refused(s)
     ELSE Done([s EXCEPT
            !.pc = AddressAfter(@),
            !.stacks = StacksCycle(@, [pc |-> AddressAfter(s.pc),
                                       loop |-> [until |-> i.until, end |-> i.end]], {})])

\* All the pops of one word, and its push or pop of the status, act together.
StackControl(s, i) ==
  LET pops == {n \in {"pc", "loop"} : i[n]}
      popped == [s EXCEPT !.stacks = StacksCycle(@, <<>>, pops),
                          !.count = CounterCycle(@, <<>>, i.count, FALSE)]
      entry == [astat |-> s.astat, imask |-> s.imask]
  IN Done(CASE i.status = "PUSH" ->
                 [popped EXCEPT !.statusStack = Push(@, entry, StatusDepth)]
            [] i.status = "POP" -> WithEntry(popped)
            [] OTHER -> popped)

SetUpPort(s, port, value) ==
  CASE port \in {"pc", "astat", "imask", "index"} -> [s EXCEPT ![port] = value]
    [] port = "counter" -> [s EXCEPT !.count = CounterCycle(@, <<value>>, FALSE, FALSE)]
    [] port \in {"pcPush", "loopPush"} ->
         [s EXCEPT !.stacks =
            StacksCycle(@, (IF port = "pcPush" THEN "pc" ELSE "loop") :> value, {})]
    [] port = "statusPush" -> [s EXCEPT !.statusStack = Push(@, value, StatusDepth)]

\* The ports of each slice.
DirectPorts == {"pc", "astat", "counter"}
IndirectPorts == {"pc", "astat", "counter", "index"}
ReturnPorts == {"pc", "astat", "imask", "counter", "pcPush", "statusPush"}
DoPorts == {"pc", "counter"}
StackPorts == {"astat", "imask", "counter", "pcPush", "loopPush"}

PortsOf(slice) ==
  CASE slice = "DIRECT" -> DirectPorts [] slice = "INDIRECT" -> IndirectPorts
    [] slice = "RETURN" -> ReturnPorts [] slice = "DO" -> DoPorts
    [] slice = "STACK" -> StackPorts

\* The words a slice's decoder knows.
Understands(slice, i) ==
  CASE slice \in {"DIRECT", "INDIRECT"} -> i.op \in {"JUMP", "CALL"}
    [] slice = "RETURN" -> i.op = "RETURN"
    [] slice = "DO" -> i.op = "DO"
    [] slice = "STACK" -> i.op = "STACK"

Execute(slice, s, i) ==
  CASE ~Understands(slice, i) -> Refused(s)
    [] Understands(slice, i) /\ slice = "DIRECT" -> DirectJump(s, i)
    [] Understands(slice, i) /\ slice = "INDIRECT" -> IndirectJump(s, i)
    [] Understands(slice, i) /\ slice = "RETURN" -> ConditionalReturn(s, i)
    [] Understands(slice, i) /\ slice = "DO" -> DoUntilLoop(s, i)
    [] Understands(slice, i) /\ slice = "STACK" -> StackControl(s, i)

\* A word together with a set-up, and all but for stack control two set-ups at
\* once, are refused.
PortConflict(slice, in) ==
  in.setups # <<>> /\ (in.word # <<>> \/ (slice # "STACK" /\ Len(in.setups) > 1))

\* One boundary of a slice: reset, a conflict, a word, or what is set up.
SliceCycle(slice, s, in) ==
  CASE in.reset -> Refused(ResetSlice)
    [] ~in.reset /\ PortConflict(slice, in) -> Refused(s)
    [] ~in.reset /\ ~PortConflict(slice, in) /\ in.word # <<>> ->
         Execute(slice, s, in.word[1])
    [] OTHER ->
         Refused(FoldLeft(LAMBDA t, p : IF p[1] \in PortsOf(slice)
                                          THEN SetUpPort(t, p[1], p[2]) ELSE t,
                          s, in.setups))

-----------------------------------------------------------------------------
(* The TRAP slice lives on the clock: a word is taken at phase 1 and ends   *)
(* at phase 7; a taken TRAP stops the slice until HALT has answered and is  *)
(* released.  Phase 0 stands for a clock at which the phase does not move.  *)

ResetTrap ==
  [pc |-> ResetVector, astat |-> Unknown, cntr |-> Unknown,
   pending |-> "NONE", stop |-> "NONE"]

TrapCondition(s, i) ==
  FlowCondition([astat |-> s.astat, count |-> [cntr |-> s.cntr]], i.condition)

TrapSetUp(s, setups) ==
  IF setups = <<>> THEN s
  ELSE [s EXCEPT ![IF setups[1][1] = "counter" THEN "cntr" ELSE setups[1][1]] = setups[1][2]]

TrapStopAfterHalt(s, halt) ==
  CASE s.stop = "ASSERTED" /\ halt -> "HANDOFF"
    [] s.stop = "HANDOFF" /\ ~halt -> "NONE"
    [] OTHER -> s.stop

TrapAccepts(s, phase, in) ==
  /\ s.stop = "NONE" /\ phase = 1
  /\ in.word # <<>> /\ in.word[1].op = "TRAP"
  /\ TrapCondition(s, in.word[1]) # Unknown

TrapRetires(s, phase) == s.stop = "NONE" /\ phase = 7 /\ s.pending # "NONE"

TrapClock(s, phase, halt, in) ==
  LET held == [TrapSetUp(s, in.setups) EXCEPT !.stop = TrapStopAfterHalt(s, halt)]
  IN CASE in.reset -> ResetTrap
       [] ~in.reset /\ in.setups # <<>> /\ (in.word # <<>> \/ Len(in.setups) > 1) -> s
       [] OTHER ->
            IF TrapAccepts(s, phase, in)
              THEN [held EXCEPT !.pending = IF TrapCondition(s, in.word[1]) THEN "TAKEN"
                                            ELSE "UNTAKEN"]
            ELSE IF TrapRetires(s, phase)
              THEN [held EXCEPT !.pc = AddressAfter(s.pc), !.pending = "NONE",
                                !.stop = IF s.pending = "TAKEN" THEN "ASSERTED" ELSE "NONE"]
            ELSE held

-----------------------------------------------------------------------------
(***************************************************************************)
(* The slices beside the integrated core: in a state the core is in, a     *)
(* slice brought there through its own ports makes of any word what the    *)
(* core would make of it.                                                  *)
(***************************************************************************)

(* The board work that brings a slice to the state the core is in.          *)

Quiet == [reset |-> FALSE, word |-> <<>>, setups |-> <<>>]
Ports(setups) == [Quiet EXCEPT !.setups = setups]
Port(port, value) == Ports(<<<<port, value>>>>)
Offer(i) == [Quiet EXCEPT !.word = <<i>>]

Call == [op |-> "CALL", condition |-> "ALWAYS", target |-> ResetVector]
PushStatusWord ==
  [op |-> "STACK", pc |-> FALSE, loop |-> FALSE, count |-> FALSE, status |-> "PUSH"]
AnyWord(slice) ==
  CASE slice \in {"DIRECT", "INDIRECT"} -> Call
    [] slice = "RETURN" -> [op |-> "RETURN", condition |-> "ALWAYS", restore |-> TRUE]
    [] slice = "DO" -> [op |-> "DO", until |-> "ALWAYS", end |-> ResetVector]
    [] slice = "STACK" -> [PushStatusWord EXCEPT !.pc = TRUE, !.count = TRUE]

MapSeq(Op(_), s) == [n \in DOMAIN s |-> Op(s[n])]

KnownCount == IF count.cntr = Unknown THEN <<>> ELSE <<count.cntr>>

CountLoads == MapSeq(LAMBDA v : Port("counter", v), count.stack.items \o KnownCount)

PcCalls ==
  FlattenSeq(MapSeq(LAMBDA v : <<Port("pc", AddressBefore(v)), Offer(Call)>>, pcStack.items))

Loops ==
  FlattenSeq([n \in DOMAIN loopStack.items |->
    <<Port("pc", AddressBefore(rounds[n].start)),
      Offer([op |-> "DO", until |-> loopStack.items[n].until, end |-> loopStack.items[n].end])>>])

StatusPushes ==
  FlattenSeq(MapSeq(LAMBDA e : <<Ports(<<<<"astat", e.astat>>, <<"imask", e.imask>>>>),
                                 Offer(PushStatusWord)>>, statusStack.items))

\* Each slice by the ports it has; flag is the ASTAT set up, if any.
BoardWork(slice, flag) ==
  LET flags == IF flag = Unknown THEN <<>> ELSE <<Port("astat", flag)>>
      final == <<Port("pc", pc)>> \o flags
      pushes(port, stack) == MapSeq(LAMBDA e : Port(port, e), stack.items)
  IN CASE slice = "DIRECT" -> CountLoads \o PcCalls \o final
       [] slice = "INDIRECT" -> CountLoads \o <<Port("index", 0)>> \o PcCalls \o final
       [] slice = "RETURN" -> CountLoads \o pushes("pcPush", pcStack)
            \o pushes("statusPush", statusStack) \o final \o <<Port("imask", imask)>>
       [] slice = "DO" -> CountLoads \o Loops \o <<Port("pc", pc)>>
       [] slice = "STACK" -> StatusPushes \o CountLoads \o pushes("pcPush", pcStack)
            \o pushes("loopPush", loopStack)
            \o <<Ports(<<<<"astat", astat>>, <<"imask", imask>>>>)>>

\* Before each input, the same input in conflict with another one.
Contested(slice, in) ==
  <<[in EXCEPT !.word = <<AnyWord(slice)>>,
               !.setups = IF @ = <<>> THEN <<<<"counter", 0>>>> ELSE @],
    IF slice = "STACK" THEN Quiet
      ELSE [in EXCEPT !.setups = <<<<"pc", ResetVector>>, <<"counter", 0>>>>],
    in>>

\* A slice that has run before, reset and set up.
Prepared(slice, flag) ==
  FoldLeft(LAMBDA s, in : SliceCycle(slice, s, in).state,
           [ResetSlice EXCEPT !.astat = ~astat, !.count.cntr = 0, !.index = pc,
                              !.stacks.pc = pcStack],
           <<[Quiet EXCEPT !.reset = TRUE]>>
             \o FlattenSeq(MapSeq(LAMBDA in : Contested(slice, in), BoardWork(slice, flag))))

-----------------------------------------------------------------------------
(* What the core would do. *)

EntryAfter(i) ==
  IF With(i)!RestoresStatus /\ HasTop(statusStack) THEN Top(statusStack) ELSE Status

StatusStackAfter(i) ==
  CASE i.op = "STACK" /\ i.status = "PUSH" -> Push(statusStack, Status, StatusDepth)
    [] With(i)!RestoresStatus -> Pop(statusStack)
    [] OTHER -> statusStack

SameCount(s, i) == s.count = With(i)!CountAfter

SameStacks(s, i) ==
  s.stacks.pc = With(i)!PcStackAfter /\ s.stacks.loop = With(i)!LoopStackAfter

SameStatus(s, i) ==
  /\ s.astat = EntryAfter(i).astat /\ s.imask = EntryAfter(i).imask
  /\ s.statusStack = StatusStackAfter(i)

\* The parts of the state each slice has.
SameResult(slice, s, i) ==
  CASE slice \in {"DIRECT", "INDIRECT"} ->
         s.pc = With(i)!NextPc /\ SameCount(s, i) /\ s.stacks.pc = With(i)!PcStackAfter
    [] slice = "RETURN" ->
         /\ s.pc = With(i)!NextPc /\ s.count = count /\ s.stacks.pc = With(i)!PcStackAfter
         /\ s.astat # Unknown => SameStatus(s, i)
    [] slice = "DO" ->
         /\ s.pc = With(i)!NextPc /\ SameCount(s, i) /\ s.stacks.loop = With(i)!LoopStackAfter
         /\ With(i)!PcStackAfter.overflow
              \/ Top(s.stacks.pc) = Top(With(i)!PcStackAfter)
    [] slice = "STACK" -> SameCount(s, i) /\ SameStacks(s, i) /\ SameStatus(s, i)

\* The slices know nothing of loop ends, and are compared where none acts.
Comparable(i) == LoopContextValid /\ ~With(i)!LoopActs

Known(s, i) == i.op \in Flows /\ i.condition = "FLAG" => s.astat # Unknown

TargetKnown(slice, s, i) == slice = "INDIRECT" /\ With(i)!Taken => s.index # Unknown

SliceAgrees(slice, s, i) ==
  LET r == SliceCycle(slice, s, Offer(i))
  IN /\ r.valid <=> Known(s, i) /\ TargetKnown(slice, s, i) /\ With(i)!ConditionKnown
                      /\ With(i)!ReturnPossible /\ With(i)!LoopSetupPossible
     /\ r.valid => SameResult(slice, r.state, i)
     /\ ~r.valid => r.state = s

\* The jump slices jump to the probe's target; an I register holds it, or not.
Indexed(slice, s, i) ==
  IF slice = "INDIRECT" THEN {SliceCycle(slice, s, Port("index", i.target)).state,
                              [s EXCEPT !.index = Unknown]}
  ELSE {s}

TypeSlicesAgree ==
  \A slice \in {"DIRECT", "INDIRECT", "RETURN", "DO", "STACK"} :
    \A flag \in {astat} \cup (IF slice \in {"DO", "STACK"} THEN {} ELSE {Unknown}) :
      LET prepared == Prepared(slice, flag)
      IN \A i \in {p \in Probes : Understands(slice, p) /\ Comparable(p)} :
           \A s \in Indexed(slice, prepared, i) : SliceAgrees(slice, s, i)

\* The sequencer slice against the core: it refuses what the core refuses, but
\* it pops by hand at a loop's exit and has no status stack.
SequencerAgrees ==
  \A i \in {p \in Probes : p.op # "TRAP"} :
    LET r == SequencerSlice(RequestsOf(i))
    IN IF With(i)!Executable
         THEN /\ r.valid
              /\ r.pc = With(i)!NextPc
              /\ r.stacks = [pc |-> With(i)!PcStackAfter, loop |-> With(i)!LoopStackAfter]
              /\ r.count = With(i)!CountAfter
         ELSE \/ ~r.valid
              \/ i.op = "STACK" /\ With(i)!LoopExits
              \/ i.op = "RETURN" /\ i.restore /\ ~HasTop(statusStack)

\* A TRAP taken up at phase 1 and set up again before phase 7; words at other
\* phases and while it is stopped are ignored.
TrapRun(i) ==
  LET step(s, e) == TrapClock(s, e[1], e[2], e[3])
      ready == FoldLeft(step, ResetTrap,
                 <<<<4, FALSE, Port("pc", pc)>>, <<5, FALSE, Port("astat", astat)>>>>
                   \o MapSeq(LAMBDA v : <<6, FALSE, Port("counter", v)>>, KnownCount))
      retired == FoldLeft(step, ready,
                 <<<<3, FALSE, Offer(i)>>, <<0, FALSE, Offer(i)>>, <<1, FALSE, Offer(i)>>,
                   <<2, FALSE, Port("astat", ~astat)>>, <<7, FALSE, Offer(i)>>>>)
  IN [retired |-> retired,
      handoff |-> FoldLeft(step, retired, <<<<8, TRUE, Quiet>>, <<1, TRUE, Offer(i)>>>>),
      resumed |-> FoldLeft(step, retired,
                    <<<<8, TRUE, Quiet>>, <<1, TRUE, Offer(i)>>, <<1, FALSE, Offer(i)>>>>)]

TrapAgrees ==
  \A i \in {p \in Probes : p.op = "TRAP" /\ Comparable(p)} :
    LET run == TrapRun(i)
        taken == With(i)!ConditionKnown /\ With(i)!Taken
    IN /\ run.retired.pc = IF With(i)!ConditionKnown THEN With(i)!NextPc ELSE pc
       /\ run.retired.stop = IF taken THEN "ASSERTED" ELSE "NONE"
       /\ run.handoff.stop = IF taken THEN "HANDOFF" ELSE "NONE"
       /\ run.resumed.stop = "NONE"
       /\ taken => run.resumed.pc = run.retired.pc /\ run.resumed.pending = "NONE"

\* The pins play no part in it: one state for each state of the sequencer.
Sampled == vectoring = NoLevel /\ edgePending = {} /\ previousLow \in {Unset, {}}

\* Every slice, set up through its own ports amid conflicting requests, changes
\* the program counter, the stacks, the counter and the status as the integrated
\* core does, and refuses what the core refuses; an unknown condition or target
\* is never guessed.
SlicesAgree == Sampled /\ ~Overflowed => TypeSlicesAgree /\ SequencerAgrees /\ TrapAgrees

=============================================================================
