---------------------------- MODULE MCDataMemoryClient ----------------------------
(* One program for each data-memory type, direction and source of trouble.   *)
EXTENDS DataMemoryClient

MCDataRequests ==
  [address : Addresses \cup {Unknown}, write : BOOLEAN, data : Word \cup {Unknown}]

Flags(v) == FromWord(ASTATBits, v)

Modes(names) == [b \in {"SR", "BR", "OL", "AR"} |-> b \in names]

\* Every register of the two banks has a value of its own.
Base(index, length, modes) ==
  [bank |-> [b \in 0..1 |->
               [r \in Banked |->
                  CASE r \in {"SE", "SB"} -> 1 + b
                    [] r = "MR2" -> b
                    [] r \in {"AX0", "MX0", "SI"} -> 9 + b
                    [] r \in {"AY0", "MY0"} -> 6
                    [] OTHER -> 3 + b]],
   flag |-> Flags(8), mode |-> Modes(modes),
   ctl |-> [CNTR |-> 1, PX |-> 2, IMASK |-> 0, ICNTL |-> 0, I |-> index, M |-> 1,
            L |-> length]]

Machines == {Base(1, 0, {}), Base(2, 3, {"SR", "BR"}), Base(Unknown, 0, {}), Base(3, 2, {"AR"})}

Add == [unit |-> "ALU", f |-> "X+Y", feedback |-> FALSE, x |-> "AX0", y |-> "AY0"]

Multiply ==
  [unit |-> "MAC", feedback |-> FALSE, x |-> "MX0", y |-> "MY0",
   f |-> [op |-> 2, xSigned |-> TRUE, ySigned |-> TRUE, round |-> FALSE]]

T4(dag, write, clause, dreg) ==
  [type |-> 4, dag |-> dag, write |-> write, clause |-> clause, dreg |-> dreg]

T12(dag, write, f, dreg) ==
  [type |-> 12, dag |-> dag, write |-> write, f |-> f, x |-> "SI", dreg |-> dreg]

Norm == [op |-> "NORM", high |-> TRUE, or |-> TRUE]

At(i, setUps) == [instruction |-> i, machines |-> Machines, setUps |-> setUps]

MCPrograms ==
  << At([type |-> 2, dag |-> 1, write |-> TRUE, immediate |-> 7],
        {<<"I", 2>>, <<"M", 3>>, <<"MSTAT", 2>>}),
     At([type |-> 3, write |-> TRUE, register |-> "MR2", address |-> 2],
        {<<"MR2", 1>>, <<"MSTAT", 1>>}),
     At([type |-> 3, write |-> FALSE, register |-> "MSTAT", address |-> 0],
        {<<"MSTAT", Unknown>>, <<"SB", 2>>}),
     At([type |-> 3, write |-> FALSE, register |-> "MR1", address |-> 1],
        {<<"MSTAT", Unknown>>, <<"MR2", 2>>}),
     At(T4(1, FALSE, Add, "AX0"), {<<"AX0", 4>>, <<"L", 2>>, <<"MSTAT", 8>>}),
     At(T4(2, TRUE, Add, "AR"), {<<"AY0", 15>>, <<"AF", 1>>, <<"ASTAT", 0>>}),
     At(T4(1, FALSE, Multiply, "SE"), {<<"MX0", 2>>, <<"MF", 1>>}),
     At(T4(2, FALSE, NOP, "MR1"), {<<"MR2", 1>>, <<"I", 0>>}),
     At(T4(1, FALSE, Add, "AR"), {<<"AR", 1>>}),
     At(T12(1, FALSE, Norm, "SE"), {<<"SE", 14>>, <<"SI", 8>>, <<"ASTAT", 0>>}),
     At(T12(2, TRUE, [op |-> "EXPADJ"], "SI"), {<<"SB", 0>>, <<"MSTAT", 1>>}),
     At(T12(1, TRUE, [op |-> "EXP HI"], "SE"), {<<"SI", 15>>, <<"M", 2>>}) >>

MCMemory == [a \in Addresses |-> IF a = 3 THEN Unknown ELSE 2 * a + 9]

=============================================================================
