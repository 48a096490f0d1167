---------------------------- MODULE MCProgramMemoryClient ----------------------------
(* One program for each program-memory type, direction and source of trouble. *)
EXTENDS ProgramMemoryClient

MCProgramWords == [high : {1, 6}, low : {2, 5}]

W2(high, low) == [high |-> high, low |-> low]

\* Only the registers a program reads have values that matter.
Base(index, length, modes) ==
  [bank |-> [b \in 0..1 |->
               [r \in Banked |->
                  CASE r \in {"SE", "SB"} -> 1 + b
                    [] r = "MR2" -> b
                    [] r \in {"AX0", "AY0", "SI"} -> 6
                    [] OTHER -> 1]],
   flag |-> FromWord(ASTATBits, 8), mode |-> [b \in {"SR", "BR", "OL", "AR"} |-> b \in modes],
   ctl |-> [CNTR |-> 1, PX |-> 5, IMASK |-> 0, ICNTL |-> 0, I |-> index, M |-> 1,
            L |-> length]]

Machines == {Base(1, 0, {}), Base(2, 3, {"SR", "BR"})}

Lost == {Base(Unknown, 0, {})}

Add == [unit |-> "ALU", f |-> "X+Y", feedback |-> FALSE, x |-> "AX0", y |-> "AY0"]

T5(write, clause, dreg) == [type |-> 5, write |-> write, clause |-> clause, dreg |-> dreg]

T13(write, f, dreg) == [type |-> 13, write |-> write, f |-> f, x |-> "SI", dreg |-> dreg]

At(i, machines, setUps, next) ==
  [instruction |-> i, machines |-> machines, setUps |-> setUps, next |-> next]

MCPrograms ==
  << At(T5(TRUE, Add, "AX0"), Machines, {<<"PX", 2>>}, {1, 2}),
     At(T5(TRUE, NOP, "AX0"), Lost, {<<"I", 1>>}, {1}),
     At(T5(FALSE, Add, "AX0"), Machines, {<<"MSTAT", 1>>}, {2}),
     At(T5(FALSE, NOP, "MR1"), Machines, {<<"L", 2>>}, {0, Unknown}),
     At(T5(FALSE, Add, "AR"), Machines, {<<"AF", 1>>}, {0}),
     At(T13(TRUE, [op |-> "NORM", high |-> TRUE, or |-> TRUE], "SI"), Machines,
        {<<"SB", 1>>}, {2}),
     At(T13(FALSE, [op |-> "EXP HI"], "SI"), Machines, {<<"ASTAT", 0>>}, {3}) >>

MCMemory ==
  [a \in Addresses |-> IF a = 3 THEN Unknown ELSE W2(1, IF a = 1 THEN 2 ELSE 5)]

=============================================================================
