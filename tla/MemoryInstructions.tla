---------------------------- MODULE MemoryInstructions ----------------------------
(***************************************************************************)
(* The instructions that access memory while they compute: Types 2, 3, 4   *)
(* and 12 on the data-memory bus, Types 5 and 13 on the program-memory     *)
(* bus.  What an instruction reads at its issue is captured; what it       *)
(* writes appears when the access completes.  The slices are dm_write_     *)
(* immediate_slice, direct_dm_slice, compute_dm, shifter_dm, compute_pm    *)
(* and shifter_pm.                                                         *)
(*                                                                         *)
(* A word of data memory is a number, a word of program memory a record    *)
(* whose high part goes to a DREG and whose low part to PX.                *)
(***************************************************************************)
EXTENDS Computation

Addresses == 0 .. 2 ^ Address - 1

NOP == [unit |-> "NOP"]

Clauses == AluClauses \cup MacClauses \cup {NOP}

ShiftClauses == ShiftFunctions \cup DetectFunctions

\* A write of the immediate, through I.
Type2 == [type : {2}, dag : 1..2, write : {TRUE}, immediate : Word]

\* Any register, at the address in the instruction.
Type3 == [type : {3}, write : BOOLEAN, register : Movable, address : Addresses]

Type4 == [type : {4}, dag : 1..2, write : BOOLEAN, clause : Clauses, dreg : DREG]

Type12 ==
  [type : {12}, dag : 1..2, write : BOOLEAN, f : ShiftClauses, x : ShifterX, dreg : DREG]

Type5 == [type : {5}, write : BOOLEAN, clause : Clauses, dreg : DREG]

Type13 == [type : {13}, write : BOOLEAN, f : ShiftClauses, x : ShifterX, dreg : DREG]

\* A read may not load the register the computation writes.
ClauseCollision(i) ==
  ~i.write /\ i.clause.unit # "NOP" /\ i.dreg \in ClauseDestination(i.clause)

ShiftCollision(i) == ~i.write /\ i.dreg \in ShifterDestination(i.f)

\* A word of one of the types, as far as its execution needs.
MemoryWord(i, types) ==
  /\ i.type \in types
  /\ i.write \in BOOLEAN
  /\ i.type = 2 => i.write
  /\ i.type = 3 => i.register \in Movable

MemorySupported(i) ==
  /\ i.type \in {4, 5} => ~ClauseCollision(i)
  /\ i.type \in {12, 13} => ~ShiftCollision(i)

\* No instruction between its issue and its completion.
NoPending == <<>>

-----------------------------------------------------------------------------
(* Issue *)

\* Only DAG1 addresses are reversed, and only on their way to the bus.
IndexedAddress(m, dag) ==
  LET i == m.ctl["I"]
  IN IF dag = 1 /\ m.mode["BR"] THEN Lifted(i, Reversed(i)) ELSE i

NextIndex(m) == Modify(m).ctl["I"]

Prepared(i, address, data, nextIndex, computed) ==
  [instruction |-> i, address |-> address, data |-> data, index |-> nextIndex,
   computed |-> computed]

ClauseDone(m, c) == IF c = NOP THEN m ELSE Compute(m, c)

ShiftDone(m, i) == ShifterClause(m, i.f, i.x, Bank(m)["SE"])

Type2Prepared(m, i) == Prepared(i, IndexedAddress(m, i.dag), i.immediate, NextIndex(m), m)

Type3Prepared(m, i) ==
  Prepared(i, i.address, IF i.write THEN ReadRegister(m, i.register) ELSE Unknown,
           m.ctl["I"], m)

DataToWrite(m, i) == IF i.write THEN ReadDREG(Bank(m), i.dreg) ELSE Unknown

Type4Prepared(m, i) ==
  Prepared(i, IndexedAddress(m, i.dag), DataToWrite(m, i), NextIndex(m),
           ClauseDone(m, i.clause))

Type12Prepared(m, i) ==
  Prepared(i, IndexedAddress(m, i.dag), DataToWrite(m, i), NextIndex(m), ShiftDone(m, i))

\* A program word is known when both its parts are.
ProgramWord(high, low) ==
  IF Known(high) /\ Known(low) THEN [high |-> high, low |-> low] ELSE Unknown

Type5Prepared(m, i) ==
  Prepared(i, m.ctl["I"], ProgramWord(DataToWrite(m, i), m.ctl["PX"]), NextIndex(m),
           ClauseDone(m, i.clause))

Type13Prepared(m, i) ==
  Prepared(i, m.ctl["I"], ProgramWord(DataToWrite(m, i), m.ctl["PX"]), NextIndex(m),
           ShiftDone(m, i))

-----------------------------------------------------------------------------
(* Completion *)

\* The registers and flags that changed from one machine to another, written
\* into a third.  The code writes every captured result, changed or not, which
\* is the same because nothing else writes while the access is pending.
Overlay(m, before, after) ==
  [m EXCEPT
     !.bank = [b \in 0..1 |-> [r \in Banked |->
                 IF after.bank[b][r] # before.bank[b][r]
                   THEN after.bank[b][r] ELSE m.bank[b][r]]],
     !.flag = [f \in DOMAIN m.flag |->
                 IF after.flag[f] # before.flag[f] THEN after.flag[f] ELSE m.flag[f]]]

WithIndex(m, index) == [m EXCEPT !.ctl["I"] = index]

WithDREG(m, dreg, v) == WithBank(m, StoreDREG(Bank(m), dreg, v))

\* `issued` is the machine the operands were read from.
Type2Completed(m, p, issued, word) == WithIndex(m, p.index)

\* A bank that is not known is not written.
Type3Completed(m, p, issued, word) ==
  LET i == p.instruction
  IN IF i.write \/ (InBank(i.register) /\ BankUnknown(m)) THEN m
     ELSE WriteRegister(m, i.register, word)

Type4Completed(m, p, issued, word) ==
  LET done == Overlay(m, issued, p.computed)
      i == p.instruction
  IN WithIndex(IF i.write THEN done ELSE WithDREG(done, i.dreg, word), p.index)

Type12Completed(m, p, issued, word) ==
  LET shifted == Overlay(m, issued, p.computed)
      i == p.instruction
  IN WithIndex(IF i.write THEN shifted ELSE WithDREG(shifted, i.dreg, word), p.index)

High(word) == IF Known(word) THEN word.high ELSE Unknown

Low(word) == IF Known(word) THEN word.low ELSE Unknown

WithProgramWord(m, dreg, word) ==
  [WithDREG(m, dreg, High(word)) EXCEPT !.ctl["PX"] = Low(word)]

\* Mutant: the computation reads the register the access has just loaded.
Type5LoadedFirst(m, p, issued, word) ==
  LET i == p.instruction
      loaded == IF i.write THEN m ELSE WithProgramWord(m, i.dreg, word)
  IN WithIndex(ClauseDone(loaded, i.clause), p.index)

Type5Completed(m, p, issued, word) ==
  LET done == Overlay(m, issued, p.computed)
      i == p.instruction
  IN WithIndex(IF i.write THEN done ELSE WithProgramWord(done, i.dreg, word), p.index)

Type13Completed(m, p, issued, word) ==
  LET shifted == Overlay(m, issued, p.computed)
      i == p.instruction
  IN WithIndex(IF i.write THEN shifted ELSE WithProgramWord(shifted, i.dreg, word), p.index)

-----------------------------------------------------------------------------
(* The memory outside: what is known of its words *)

WordAt(memory, address) == IF Known(address) THEN memory[address] ELSE Unknown

\* A write at an address that is not known may have been to any.
MemoryWritten(memory, address, word) ==
  IF Known(address) THEN [memory EXCEPT ![address] = word]
  ELSE [a \in DOMAIN memory |-> Unknown]

-----------------------------------------------------------------------------
(* Set-up ports *)

DAGRegister == {"I", "M", "L"}

SetUpReach(type) ==
  CASE type = 2 -> DAGRegister \cup {"MSTAT"}
    [] type = 3 -> Movable
    [] type = 4 -> DREG \cup DAGRegister \cup {"ASTAT", "MSTAT", "AF", "MF"}
    [] type = 12 -> DREG \cup DAGRegister \cup {"ASTAT", "MSTAT", "SB"}
    [] type = 5 -> DREG \cup DAGRegister \cup {"ASTAT", "MSTAT", "AF", "MF", "PX"}
    [] type = 13 -> DREG \cup DAGRegister \cup {"ASTAT", "MSTAT", "SB", "PX"}

SetRegister(m, r, v) ==
  CASE r \in {"AF", "MF"} -> WithBank(m, [Bank(m) EXCEPT ![r] = v])
    [] r \notin {"AF", "MF"} /\ InBank(r) /\ BankUnknown(m) -> m
    [] OTHER -> WriteRegister(m, r, v)

=============================================================================
