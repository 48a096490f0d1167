---------------------------- MODULE MemoryClientProofs ----------------------------
(***************************************************************************)
(* Both memory clients implement AtomicSpec, and the PM-data client hands  *)
(* on the right word.  The argument for the first: a pending access is     *)
(* always what the machine, untouched since the issue, would prepare now,  *)
(* so its completion is one execution.  That needs every operation to      *)
(* leave a machine that has all its registers, the shape lemmas below.     *)
(* For the second: every word the window or a pending access holds is what *)
(* memory holds, or data was written there since.                          *)
(***************************************************************************)
EXTENDS DataMemoryClient, ProgramMemoryClient, SequenceTheorems, TLAPS

\* A bank that has all its registers.
WholeBank(b) == b = [r \in Banked |-> b[r]]

LEMMA SelectedBank ==
  ASSUME NEW m
  PROVE  Selected(m) \in 0..1
  BY DEF Selected

LEMMA BankShape ==
  ASSUME NEW m, WellFormed(m)
  PROVE  WholeBank(Bank(m))
  BY SelectedBank DEF WellFormed, Bank, WholeBank

LEMMA WithBankShape ==
  ASSUME NEW m, WellFormed(m), NEW b, WholeBank(b)
  PROVE  /\ WellFormed(WithBank(m, b))
         /\ WithBank(m, b).mode = m.mode
         /\ WithBank(m, b).ctl = m.ctl
  BY SelectedBank DEF WellFormed, WithBank, WholeBank

LEMMA WithIndexShape ==
  ASSUME NEW m, WellFormed(m), NEW v
  PROVE  /\ WellFormed(WithIndex(m, v))
         /\ WithIndex(m, v).mode = m.mode
         /\ WithIndex(m, v).bank = m.bank
  BY DEF WellFormed, WithIndex, Control

LEMMA WithFlagsShape ==
  ASSUME NEW m, WellFormed(m), NEW updates
  PROVE  /\ WellFormed(WithFlags(m, updates))
         /\ WithFlags(m, updates).mode = m.mode
         /\ WithFlags(m, updates).ctl = m.ctl
         /\ WithFlags(m, updates).bank = m.bank
  BY DEF WellFormed, WithFlags

\* The stores of a bank keep its registers.
LEMMA StoreShape ==
  ASSUME NEW b, WholeBank(b), NEW v, NEW d, NEW feedback
  PROVE  /\ WholeBank(StoreDREG(b, d, v))
         /\ WholeBank(StoreSB(b, v))
         /\ WholeBank(StoreALU(b, feedback, v))
         /\ WholeBank(StoreMAC(b, feedback, v))
         /\ WholeBank(StoreSR(b, v))
         /\ WholeBank([b EXCEPT ![d] = v])
<1>1. \A e, w : WholeBank([b EXCEPT ![e] = w])
  BY DEF WholeBank
<1>2. WholeBank(StoreDREG(b, d, v))
  BY DEF WholeBank, StoreDREG
<1>3. WholeBank(StoreSB(b, v)) /\ WholeBank(StoreALU(b, feedback, v))
  BY <1>1 DEF StoreSB, StoreALU
<1>4. WholeBank(StoreMAC(b, feedback, v))
  BY DEF WholeBank, StoreMAC
<1>5. WholeBank(StoreSR(b, v))
  BY DEF WholeBank, StoreSR
<1> QED
  BY <1>1, <1>2, <1>3, <1>4, <1>5

\* What a computation may change: registers of the bank in use, and flags.
Computes(m, n) == WellFormed(n) /\ n.mode = m.mode /\ n.ctl = m.ctl

LEMMA ComputeShape ==
  ASSUME NEW m, WellFormed(m), NEW c
  PROVE  Computes(m, Compute(m, c))
<1>1. WholeBank(Bank(m))
  BY BankShape
<1>2. Computes(m, AluApplied(m, c))
  <2> DEFINE b == Bank(m)
             x == OrZero(Operand(b, c.x))
             r == AluRaw(c.f, x, OrZero(Operand(b, c.y)), Number(OrFalse(m.flag["AC"])))
             stored == IF ~c.feedback /\ m.mode["AR"] THEN Saturate(r) ELSE r.raw
             n == WithBank(m, StoreALU(b, c.feedback, stored))
  <2>1. WellFormed(n) /\ n.mode = m.mode /\ n.ctl = m.ctl
    <3> HIDE DEF stored
    <3>1. WholeBank(StoreALU(b, c.feedback, stored))
      BY <1>1, StoreShape
    <3> QED
      BY <3>1, WithBankShape
  <2>2. \E updates : AluApplied(m, c) = WithFlags(n, updates)
    BY DEF AluApplied
  <2> HIDE DEF n
  <2> QED
    BY <2>1, <2>2, WithFlagsShape DEF Computes
<1>3. Computes(m, MacApplied(m, c))
  <2> DEFINE b == Bank(m)
             r == Mac(c.f, Operand(b, c.x), Operand(b, c.y), OrZero(WholeMR(b)))
             n == WithBank(m, StoreMAC(b, c.feedback, r))
  <2>1. WellFormed(n) /\ n.mode = m.mode /\ n.ctl = m.ctl
    <3> HIDE DEF r
    <3>1. WholeBank(StoreMAC(b, c.feedback, r))
      BY <1>1, StoreShape
    <3> QED
      BY <3>1, WithBankShape
  <2>2. \E updates : MacApplied(m, c) = WithFlags(n, updates)
    BY DEF MacApplied
  <2> HIDE DEF n
  <2> QED
    BY <2>1, <2>2, WithFlagsShape DEF Computes
<1>4. Computes(m, ClauseUnknown(m, c))
  <2>1. /\ Computes(m, WithBank(m, StoreALU(Bank(m), c.feedback, Unknown)))
        /\ Computes(m, WithBank(m, StoreMAC(Bank(m), c.feedback, Unknown)))
    BY <1>1, StoreShape, WithBankShape DEF Computes
  <2> QED
    BY <2>1, WithFlagsShape DEF Computes, ClauseUnknown, MacUnknown, AluUnknown, WithoutFlags
<1> QED
  BY <1>2, <1>3, <1>4 DEF Compute

LEMMA ShifterShape ==
  ASSUME NEW m, WellFormed(m), NEW f, NEW x, NEW shift
  PROVE  Computes(m, ShifterClause(m, f, x, shift))
<1>1. WholeBank(Bank(m))
  BY BankShape
<1>2. \A v : /\ Computes(m, WithBank(m, StoreSR(Bank(m), v)))
             /\ Computes(m, WithBank(m, StoreSB(Bank(m), v)))
             /\ Computes(m, WithBank(m, [Bank(m) EXCEPT !["SE"] = v]))
  BY <1>1, StoreShape, WithBankShape DEF Computes
<1>3. \A v, updates :
        Computes(m, WithFlags(WithBank(m, [Bank(m) EXCEPT !["SE"] = v]), updates))
  BY <1>2, WithFlagsShape DEF Computes
<1>4. Computes(m, m)
  BY DEF Computes
<1>5. Computes(m, ShifterUnknown(m, f))
  <2>1. Computes(m, WithoutFlags(WithBank(m, [Bank(m) EXCEPT !["SE"] = Unknown]), {"SS"}))
    BY <1>3 DEF WithoutFlags
  <2> QED
    BY <1>2, <1>4, <2>1 DEF ShifterUnknown
<1>6. \A v, ss : Computes(m, Detected(m, v, ss))
  BY <1>3 DEF Detected
<1>7. Computes(m, ShifterApplied(m, f, x, shift))
  BY <1>2, <1>4, <1>6 DEF ShifterApplied
<1> QED
  BY <1>5, <1>7 DEF ShifterClause

LEMMA ClauseDoneShape ==
  ASSUME NEW m, WellFormed(m), NEW i
  PROVE  Computes(m, Computed(m, i))
<1>1. Computes(m, m)
  BY DEF Computes
<1> QED
  BY <1>1, ComputeShape, ShifterShape DEF Computed, ClauseDone, ShiftDone

\* A computation laid over the machine it was made from is its result.
LEMMA OverlayOwn ==
  ASSUME NEW m, WellFormed(m), NEW n, Computes(m, n)
  PROVE  Overlay(m, m, n) = n
<1>1. [b \in 0..1 |-> [r \in Banked |->
         IF n.bank[b][r] # m.bank[b][r] THEN n.bank[b][r] ELSE m.bank[b][r]]]
      = [b \in 0..1 |-> [r \in Banked |-> n.bank[b][r]]]
  OBVIOUS
<1>2. [f \in DOMAIN m.flag |-> IF n.flag[f] # m.flag[f] THEN n.flag[f] ELSE m.flag[f]]
      = [f \in BitNames(ASTATBits) |-> n.flag[f]]
  BY DEF WellFormed
<1>3. Overlay(m, m, n) = [m EXCEPT !.bank = n.bank, !.flag = n.flag]
  BY <1>1, <1>2 DEF Overlay, Computes, WellFormed
<1> QED
  BY <1>3 DEF Computes, WellFormed

LEMMA WithDREGShape ==
  ASSUME NEW m, WellFormed(m), NEW d, NEW v
  PROVE  Computes(m, WithDREG(m, d, v))
  BY BankShape, StoreShape, WithBankShape DEF WithDREG, Computes

\* A load and the move of the index register do not touch the same storage.
LEMMA IndexAfterBank ==
  ASSUME NEW m, WellFormed(m), NEW b, WholeBank(b), NEW x
  PROVE  WithIndex(WithBank(m, b), x) = WithBank(WithIndex(m, x), b)
<1> DEFINE bank == [m.bank EXCEPT ![Selected(m)] = b]
           ctl == [m.ctl EXCEPT !["I"] = x]
<1>1. WithBank(m, b) = [bank |-> bank, flag |-> m.flag, mode |-> m.mode, ctl |-> m.ctl]
  <2> HIDE DEF bank
  <2>1. WithBank(m, b) = [m EXCEPT !.bank = bank]
    BY DEF WithBank, bank
  <2> QED
    BY <2>1 DEF WellFormed
<1>2. WithIndex(m, x) = [bank |-> m.bank, flag |-> m.flag, mode |-> m.mode, ctl |-> ctl]
  <2> HIDE DEF ctl
  <2>1. WithIndex(m, x) = [m EXCEPT !.ctl = ctl]
    BY DEF WithIndex, ctl
  <2> QED
    BY <2>1 DEF WellFormed
<1> HIDE DEF bank, ctl
<1>3. WithIndex(WithBank(m, b), x)
        = [bank |-> bank, flag |-> m.flag, mode |-> m.mode, ctl |-> ctl]
  BY <1>1 DEF WithIndex, ctl
<1>4. WithBank(WithIndex(m, x), b)
        = [bank |-> bank, flag |-> m.flag, mode |-> m.mode, ctl |-> ctl]
  BY <1>2 DEF WithBank, Selected, bank
<1> QED
  BY <1>3, <1>4

LEMMA IndexAfterDREG ==
  ASSUME NEW m, WellFormed(m), NEW d, NEW v, NEW x
  PROVE  WithIndex(WithDREG(m, d, v), x) = WithDREG(WithIndex(m, x), d, v)
<1>1. Bank(WithIndex(m, x)) = Bank(m)
  BY WithIndexShape DEF Bank, Selected
<1> QED
  BY <1>1, BankShape, StoreShape, IndexAfterBank DEF WithDREG

LEMMA IndexAfterWord ==
  ASSUME NEW m, WellFormed(m), NEW d, NEW w, NEW x
  PROVE  /\ WithIndex(WithProgramWord(m, d, w), x) = WithProgramWord(WithIndex(m, x), d, w)
         /\ WellFormed(WithProgramWord(m, d, w))
<1> DEFINE n == WithDREG(m, d, High(w))
<1>1. WellFormed(n)
  BY WithDREGShape DEF Computes
<1>2. WithIndex(n, x) = WithDREG(WithIndex(m, x), d, High(w))
  BY IndexAfterDREG
<1>3. WithProgramWord(m, d, w) = [n EXCEPT !.ctl["PX"] = Low(w)]
  BY DEF WithProgramWord
<1>4. WithProgramWord(WithIndex(m, x), d, w) = [WithIndex(n, x) EXCEPT !.ctl["PX"] = Low(w)]
  BY <1>2 DEF WithProgramWord
<1> HIDE DEF n
<1>5. WithIndex([n EXCEPT !.ctl["PX"] = Low(w)], x) = [WithIndex(n, x) EXCEPT !.ctl["PX"] = Low(w)]
  BY <1>1 DEF WithIndex, WellFormed, Control
<1>6. WellFormed([n EXCEPT !.ctl["PX"] = Low(w)])
  BY <1>1 DEF WellFormed, Control
<1> QED
  BY <1>3, <1>4, <1>5, <1>6

LEMMA WordShape ==
  ASSUME NEW bits, NEW v
  PROVE  FromWord(bits, v) = [f \in BitNames(bits) |-> FromWord(bits, v)[f]]
  BY DEF FromWord

LEMMA RegisterShape ==
  ASSUME NEW m, WellFormed(m), NEW r \in Movable, NEW v
  PROVE  WellFormed(WriteRegister(m, r, v))
<1>1. WholeBank(StoreDREG(Bank(m), r, v)) /\ WholeBank(StoreSB(Bank(m), v))
  BY BankShape, StoreShape
<1>2. WellFormed(WithBank(m, StoreDREG(Bank(m), r, v))) /\ WellFormed(WithBank(m, StoreSB(Bank(m), v)))
  BY <1>1, WithBankShape
<1>3. /\ WellFormed([m EXCEPT !.flag = FromWord(ASTATBits, v)])
      /\ WellFormed([m EXCEPT !.mode = FromWord(MSTATBits, v)])
  BY WordShape DEF WellFormed
<1>4. WellFormed([m EXCEPT !.ctl[r] = Narrow(v, Width[r])])
  BY DEF WellFormed
<1> QED
  BY <1>2, <1>3, <1>4 DEF WriteRegister, Movable, StatusRegister

LEMMA SetUpShape ==
  ASSUME NEW m, WellFormed(m), NEW type \in DataTypes \cup ProgramTypes,
         NEW r \in SetUpReach(type), NEW v
  PROVE  WellFormed(SetRegister(m, r, v))
<1>1. r \in Movable \cup {"AF", "MF"}
  BY DEF SetUpReach, DataTypes, ProgramTypes, Movable, DAGRegister, Control, StatusRegister
<1>2. WellFormed(WithBank(m, [Bank(m) EXCEPT ![r] = v]))
  BY BankShape, StoreShape, WithBankShape
<1> QED
  BY <1>1, <1>2, RegisterShape DEF SetRegister

LEMMA ResetShape ==
  ASSUME NEW m, WellFormed(m)
  PROVE  WellFormed(ResetMachine(m))
<1> DEFINE flags == FromWord(ASTATBits, Unknown)
           modes == FromWord(MSTATBits, 0)
           kept == [m.ctl EXCEPT !["IMASK"] = 0, !["ICNTL"] = Unknown]
<1>1. ResetStatus(m) = [m EXCEPT !.flag = flags, !.mode = modes, !.ctl = kept]
  BY DEF ResetStatus
<1>2. /\ flags = [f \in BitNames(ASTATBits) |-> flags[f]]
      /\ modes = [b \in BitNames(MSTATBits) |-> modes[b]]
  BY WordShape
<1>3. ResetStatus(m) = [bank |-> m.bank, flag |-> flags, mode |-> modes, ctl |-> kept]
  <2> HIDE DEF flags, modes, kept
  <2> QED
    BY <1>1 DEF WellFormed
<1> DEFINE banks == [b \in 0..1 |-> [d \in Banked |-> Unknown]]
           ctls == [c \in Control |-> IF c = "IMASK" THEN 0 ELSE Unknown]
<1>4. ResetMachine(m) = [ResetStatus(m) EXCEPT !.bank = banks, !.ctl = ctls]
  BY DEF ResetMachine
<1>5. /\ banks = [b \in 0..1 |-> [d \in Banked |-> banks[b][d]]]
      /\ ctls = [c \in Control |-> ctls[c]]
  OBVIOUS
<1> HIDE DEF banks, ctls, flags, modes, kept
<1>6. ResetMachine(m) = [bank |-> banks, flag |-> flags, mode |-> modes, ctl |-> ctls]
  <2>1. WellFormed(ResetStatus(m))
    <3>1. kept = [c \in Control |-> kept[c]]
      BY DEF kept, WellFormed
    <3>2. ASSUME NEW n, n = [bank |-> m.bank, flag |-> flags, mode |-> modes, ctl |-> kept]
          PROVE  n.bank = m.bank /\ n.flag = flags /\ n.mode = modes /\ n.ctl = kept
      BY <3>2
    <3> QED
      BY <1>2, <1>3, <3>1, <3>2 DEF WellFormed
  <2>2. ASSUME NEW n, WellFormed(n)
        PROVE  [n EXCEPT !.bank = banks, !.ctl = ctls]
                 = [bank |-> banks, flag |-> n.flag, mode |-> n.mode, ctl |-> ctls]
    <3> DEFINE k == [n EXCEPT !.bank = banks]
    <3>1. k = [bank |-> banks, flag |-> n.flag, mode |-> n.mode, ctl |-> n.ctl]
      BY <2>2 DEF WellFormed
    <3>2. [n EXCEPT !.bank = banks, !.ctl = ctls] = [k EXCEPT !.ctl = ctls]
      OBVIOUS
    <3> HIDE DEF k
    <3> QED
      BY <3>1, <3>2
  <2>3. ResetStatus(m).flag = flags /\ ResetStatus(m).mode = modes
    BY <1>3
  <2> QED
    BY <1>4, <2>1, <2>2, <2>3
<1>7. \A n : n = [bank |-> banks, flag |-> flags, mode |-> modes, ctl |-> ctls] => WellFormed(n)
  <2> TAKE n
  <2> HAVE n = [bank |-> banks, flag |-> flags, mode |-> modes, ctl |-> ctls]
  <2>1. n.bank = banks /\ n.flag = flags /\ n.mode = modes /\ n.ctl = ctls
    OBVIOUS
  <2> QED
    BY <1>2, <1>5, <2>1 DEF WellFormed
<1> QED
  BY <1>6, <1>7

-----------------------------------------------------------------------------
(* An instruction that completes on the machine it was issued from             *)

\* What the two halves of an instruction come to.
Whole(m, i, word) == IF i.write THEN Moved(m, i) ELSE Loaded(Moved(m, i), i, word)

LEMMA AccessIsWhole ==
  ASSUME NEW m, WellFormed(m), NEW i, MemoryWord(i, DataTypes), NEW word
  PROVE  LET p == PreparedAccess(m, i)
         IN /\ p.instruction = i
            /\ p.address = AddressOf(m, i)
            /\ i.write => p.data = WordOf(m, i)
            /\ CompletedAccess(m, p, m, word) = Whole(m, i, word)
            /\ WellFormed(CompletedAccess(m, p, m, word))
<1>1. Computes(m, Computed(m, i)) /\ Overlay(m, m, Computed(m, i)) = Computed(m, i)
  BY ClauseDoneShape, OverlayOwn
<1>2. WellFormed(Computed(m, i)) /\ WellFormed(WithIndex(Computed(m, i), NextIndex(m)))
  BY <1>1, WithIndexShape DEF Computes
<1>3. CASE i.type = 2
  <2>1. PreparedAccess(m, i) = Type2Prepared(m, i)
    BY <1>3 DEF PreparedAccess
  <2>2. CompletedAccess(m, Type2Prepared(m, i), m, word) = WithIndex(m, NextIndex(m))
    BY <1>3 DEF CompletedAccess, Type2Prepared, Prepared, Type2Completed
  <2>3. Computed(m, i) = m /\ i.write
    BY <1>3 DEF Computed, MemoryWord
  <2> QED
    BY <1>2, <1>3, <2>1, <2>2, <2>3
       DEF Type2Prepared, Prepared, AddressOf, WordOf, Whole, Moved
<1>4. CASE i.type = 3
  <2>1. PreparedAccess(m, i) = Type3Prepared(m, i)
    BY <1>4 DEF PreparedAccess
  <2>2. CompletedAccess(m, Type3Prepared(m, i), m, word)
          = IF i.write \/ (InBank(i.register) /\ BankUnknown(m)) THEN m
            ELSE WriteRegister(m, i.register, word)
    BY <1>4 DEF CompletedAccess, Type3Prepared, Prepared, Type3Completed
  <2>3. Moved(m, i) = m
    BY <1>4 DEF Computed, Moved
  <2>4. WellFormed(CompletedAccess(m, Type3Prepared(m, i), m, word))
    BY <1>4, <2>2, RegisterShape DEF MemoryWord
  <2>5. Whole(m, i, word)
          = IF i.write \/ (InBank(i.register) /\ BankUnknown(m)) THEN m
            ELSE WriteRegister(m, i.register, word)
    BY <1>4, <2>3 DEF Whole, Loaded, InBank, BankUnknown
  <2> QED
    BY <1>4, <2>1, <2>2, <2>4, <2>5 DEF Type3Prepared, Prepared, AddressOf, WordOf
<1>5. CASE i.type = 4
  <2>1. PreparedAccess(m, i) = Type4Prepared(m, i)
    BY <1>5 DEF PreparedAccess
  <2>2. Computed(m, i) = ClauseDone(m, i.clause)
    BY <1>5 DEF Computed
  <2>3. CompletedAccess(m, Type4Prepared(m, i), m, word)
          = WithIndex(IF i.write THEN Computed(m, i) ELSE WithDREG(Computed(m, i), i.dreg, word),
                      NextIndex(m))
    BY <1>1, <1>5, <2>2 DEF CompletedAccess, Type4Prepared, Prepared, Type4Completed
  <2>4. WithIndex(WithDREG(Computed(m, i), i.dreg, word), NextIndex(m))
          = WithDREG(WithIndex(Computed(m, i), NextIndex(m)), i.dreg, word)
    BY <1>2, IndexAfterDREG
  <2>5. WellFormed(WithDREG(WithIndex(Computed(m, i), NextIndex(m)), i.dreg, word))
    BY <1>2, WithDREGShape DEF Computes
  <2>6. Moved(m, i) = WithIndex(Computed(m, i), NextIndex(m))
    BY <1>5 DEF Moved
  <2>7. Loaded(Moved(m, i), i, word) = WithDREG(Moved(m, i), i.dreg, word)
    BY <1>5 DEF Loaded
  <2>8. /\ Type4Prepared(m, i).instruction = i
        /\ Type4Prepared(m, i).address = AddressOf(m, i)
        /\ i.write => Type4Prepared(m, i).data = WordOf(m, i)
    BY <1>5 DEF Type4Prepared, Prepared, AddressOf, WordOf, DataToWrite
  <2> QED
    BY <1>2, <2>1, <2>3, <2>4, <2>5, <2>6, <2>7, <2>8 DEF Whole
<1>6. CASE i.type = 12
  <2>1. PreparedAccess(m, i) = Type12Prepared(m, i)
    BY <1>6 DEF PreparedAccess
  <2>2. Computed(m, i) = ShiftDone(m, i)
    BY <1>6 DEF Computed
  <2>3. CompletedAccess(m, Type12Prepared(m, i), m, word)
          = WithIndex(IF i.write THEN Computed(m, i) ELSE WithDREG(Computed(m, i), i.dreg, word),
                      NextIndex(m))
    BY <1>1, <1>6, <2>2 DEF CompletedAccess, Type12Prepared, Prepared, Type12Completed
  <2>4. WithIndex(WithDREG(Computed(m, i), i.dreg, word), NextIndex(m))
          = WithDREG(WithIndex(Computed(m, i), NextIndex(m)), i.dreg, word)
    BY <1>2, IndexAfterDREG
  <2>5. WellFormed(WithDREG(WithIndex(Computed(m, i), NextIndex(m)), i.dreg, word))
    BY <1>2, WithDREGShape DEF Computes
  <2>6. Moved(m, i) = WithIndex(Computed(m, i), NextIndex(m))
    BY <1>6 DEF Moved
  <2>7. Loaded(Moved(m, i), i, word) = WithDREG(Moved(m, i), i.dreg, word)
    BY <1>6 DEF Loaded
  <2>8. /\ Type12Prepared(m, i).instruction = i
        /\ Type12Prepared(m, i).address = AddressOf(m, i)
        /\ i.write => Type12Prepared(m, i).data = WordOf(m, i)
    BY <1>6 DEF Type12Prepared, Prepared, AddressOf, WordOf, DataToWrite
  <2> QED
    BY <1>2, <2>1, <2>3, <2>4, <2>5, <2>6, <2>7, <2>8 DEF Whole
<1> QED
  BY <1>3, <1>4, <1>5, <1>6 DEF MemoryWord, DataTypes

LEMMA ProgramDataIsWhole ==
  ASSUME NEW m, WellFormed(m), NEW i, MemoryWord(i, ProgramTypes), NEW word
  PROVE  LET p == PreparedData(m, i)
         IN /\ p.instruction = i
            /\ p.address = AddressOf(m, i)
            /\ i.write => p.data = WordOf(m, i)
            /\ CompletedData(m, p, m, word) = Whole(m, i, word)
            /\ WellFormed(CompletedData(m, p, m, word))
<1> DEFINE p == PreparedData(m, i)
           n == WithIndex(Computed(m, i), NextIndex(m))
<1>1. Computes(m, Computed(m, i)) /\ Overlay(m, m, Computed(m, i)) = Computed(m, i)
  BY ClauseDoneShape, OverlayOwn
<1>2. WellFormed(Computed(m, i)) /\ WellFormed(n)
  BY <1>1, WithIndexShape DEF Computes
<1>3. i.type \in {5, 13}
  BY DEF MemoryWord, ProgramTypes
<1>4. Computed(m, i) = IF i.type = 5 THEN ClauseDone(m, i.clause) ELSE ShiftDone(m, i)
  BY <1>3 DEF Computed
<1>5. p = Prepared(i, m.ctl["I"], ProgramWord(DataToWrite(m, i), m.ctl["PX"]), NextIndex(m),
                   Computed(m, i))
  BY <1>3, <1>4 DEF PreparedData, Type5Prepared, Type13Prepared
<1>6. CompletedData(m, p, m, word)
        = WithIndex(IF i.write THEN Computed(m, i)
                    ELSE WithProgramWord(Computed(m, i), i.dreg, word), NextIndex(m))
  <2>1. p.instruction = i /\ p.computed = Computed(m, i) /\ p.index = NextIndex(m)
    BY <1>5 DEF Prepared
  <2> HIDE DEF p
  <2> QED
    BY <1>1, <2>1 DEF CompletedData, Type5Completed, Type13Completed
<1>7. /\ WithIndex(WithProgramWord(Computed(m, i), i.dreg, word), NextIndex(m))
           = WithProgramWord(n, i.dreg, word)
      /\ WellFormed(WithProgramWord(n, i.dreg, word))
  BY <1>2, IndexAfterWord
<1>8. Moved(m, i) = n /\ Loaded(n, i, word) = WithProgramWord(n, i.dreg, word)
  BY <1>3 DEF Moved, Loaded
<1>9. p.instruction = i /\ p.address = AddressOf(m, i) /\ (i.write => p.data = WordOf(m, i))
  BY <1>3, <1>5 DEF Prepared, AddressOf, WordOf, DataToWrite
<1> HIDE DEF p, n
<1>10. CompletedData(m, p, m, word) = Whole(m, i, word)
  BY <1>6, <1>7, <1>8 DEF Whole, n
<1>11. WellFormed(CompletedData(m, p, m, word))
  BY <1>2, <1>6, <1>7 DEF n
<1> QED
  BY <1>9, <1>10, <1>11 DEF p

-----------------------------------------------------------------------------
(* Data memory *)

\* An access on the bus belongs to a pending instruction, and what is pending is
\* what the machine, untouched since the issue, would prepare now.
DataInv ==
  /\ WellFormed(machine)
  /\ MemoryWord(program.instruction, DataTypes)
  /\ InProgress => pendingData # NoPending
  /\ pendingData # NoPending =>
       pendingData = [prepared |-> PreparedAccess(machine, program.instruction),
                      issued |-> machine]

LEMMA InitDataInv == InitData => DataInv
<1> SUFFICES ASSUME InitData PROVE DataInv
  OBVIOUS
<1>1. PICK n \in DOMAIN DataPrograms :
        /\ program = [instruction |-> DataPrograms[n].instruction,
                      setUps |-> DataPrograms[n].setUps]
        /\ machine \in DataPrograms[n].machines
  BY DEF InitData
<1>2. WellFormed(machine) /\ MemoryWord(program.instruction, DataTypes)
  BY <1>1, DataClientConstants
<1>3. ~InProgress /\ pendingData = NoPending
  BY DEF InitData, InProgress
<1> QED
  BY <1>2, <1>3 DEF DataInv

\* The completion of a pending access is the instruction as a whole.
LEMMA CompleteExecutes ==
  ASSUME DataInv, CompleteAccess
  PROVE  Execute /\ UNCHANGED program /\ WellFormed(machine')
<1> DEFINE i == program.instruction
           p == PreparedAccess(machine, i)
           word == IF i.write THEN Unknown ELSE WordAt(memory, p.address)
<1>1. pendingData.prepared = p /\ pendingData.issued = machine
  BY DEF DataInv, CompleteAccess, AccessCompletes
<1>2. /\ p.instruction = i
      /\ p.address = AddressOf(machine, i)
      /\ i.write => p.data = WordOf(machine, i)
      /\ CompletedAccess(machine, p, machine, word) = Whole(machine, i, word)
      /\ WellFormed(CompletedAccess(machine, p, machine, word))
  BY AccessIsWhole DEF DataInv
<1>3. /\ machine' = CompletedAccess(machine, p, machine, word)
      /\ memory' = IF i.write THEN MemoryWritten(memory, p.address, p.data) ELSE memory
      /\ UNCHANGED program
  BY <1>1, <1>2 DEF CompleteAccess
<1> HIDE DEF p
<1> QED
  BY <1>2, <1>3 DEF Execute, Whole

LEMMA StepDataInv == DataInv /\ [NextData]_dataVars => DataInv'
<1> SUFFICES ASSUME DataInv, [NextData]_dataVars PROVE DataInv'
  OBVIOUS
<1> USE DEF DataInv
<1>1. CASE CompleteAccess
  <2>1. ~InProgress' /\ pendingData' = NoPending
    BY <1>1 DEF CompleteAccess, StageAfterComplete, InProgress
  <2> QED
    BY <1>1, <2>1, CompleteExecutes
<1>2. CASE SampleAcknowledge
  <2>1. InProgress' => InProgress
    <3>1. UNCHANGED access
      BY <1>2 DEF SampleAcknowledge
    <3>2. stage = "COMPLETE" => stage' = "COMPLETE"
      BY <1>2 DEF SampleAcknowledge, StageAfterSample, InProgress
    <3> QED
      BY <3>1, <3>2 DEF InProgress
  <2> QED
    BY <1>2, <2>1 DEF SampleAcknowledge
<1>3. CASE IssueInstruction
  <2>1. /\ UNCHANGED <<program, machine>>
        /\ pendingData' = [prepared |-> PreparedAccess(machine, program.instruction),
                           issued |-> machine]
    BY <1>3 DEF IssueInstruction
  <2>2. pendingData' # NoPending
    BY <2>1 DEF NoPending
  <2> QED
    BY <2>1, <2>2
<1>4. CASE SetUpData
  <2>1. pendingData = NoPending /\ UNCHANGED <<program, pendingData>> /\ BusStill
    BY <1>4 DEF SetUpData, AdmitsData
  <2>2. ~InProgress'
    BY <2>1 DEF BusStill, IssueAccess, DataBusReady, InProgress, dataBusVars
  <2>3. PICK s \in program.setUps :
          /\ s[1] \in SetUpReach(program.instruction.type)
          /\ machine' = SetRegister(machine, s[1], s[2])
    BY <1>4 DEF SetUpData
  <2>4. WellFormed(machine')
    BY <2>3, SetUpShape DEF MemoryWord
  <2> QED
    BY <2>1, <2>2, <2>4
<1>5. CASE IssueNoAccess
  <2>1. UNCHANGED <<program, machine, pendingData>>
    BY <1>5 DEF IssueNoAccess
  <2>2. pendingData = NoPending => ~InProgress'
    <3>1. CASE BusStill
      BY <3>1 DEF BusStill, IssueAccess, DataBusReady, InProgress, dataBusVars
    <3>2. CASE UNCHANGED dataBusVars
      BY <3>2 DEF dataBusVars, InProgress
    <3> QED
      BY <1>5, <3>1, <3>2 DEF IssueNoAccess
  <2> QED
    BY <2>1, <2>2
<1>6. CASE ResetData
  <2>1. ~InProgress' /\ pendingData' = NoPending /\ UNCHANGED program
    BY <1>6 DEF ResetData, ClearDataBus, InProgress
  <2>2. WellFormed(machine')
    BY <1>6, ResetShape DEF ResetData
  <2> QED
    BY <2>1, <2>2
<1>7. CASE UNCHANGED <<dataBusVars, program, machine, pendingData>>
  BY <1>7 DEF dataBusVars, InProgress
<1> QED
  BY <1>1, <1>2, <1>3, <1>4, <1>5, <1>6, <1>7
     DEF NextData, DataClockEdge, CompleteNoAccess, OtherDataPhases, ReleaseData, dataVars,
         atomicVars

LEMMA DataStepIsAtomic == DataInv /\ [NextData]_dataVars => [AtomicNext]_atomicVars
<1> SUFFICES ASSUME DataInv, [NextData]_dataVars PROVE [AtomicNext]_atomicVars
  OBVIOUS
<1>1. CASE CompleteAccess
  BY <1>1, CompleteExecutes DEF AtomicNext
<1>2. CASE SetUpData
  BY <1>2 DEF SetUpData, AtomicNext, AtomicSetUp
<1>3. CASE ResetData
  BY <1>3 DEF ResetData, AtomicNext, AtomicReset
<1>4. CASE UNCHANGED atomicVars
  BY <1>4
<1> QED
  BY <1>1, <1>2, <1>3, <1>4
     DEF NextData, DataClockEdge, SampleAcknowledge, CompleteNoAccess, IssueInstruction,
         IssueNoAccess, OtherDataPhases, ReleaseData, dataVars, atomicVars

\* However long DMACK keeps it waiting and whoever takes the bus meanwhile, a
\* data-memory instruction of compute_dm, shifter_dm, direct_dm or
\* dm_write_immediate is one step of the programmer's machine.
THEOREM DataMemoryAtomic == SpecData => AtomicSpec
<1>1. InitData => AtomicInit
  BY DataClientConstants DEF InitData, AtomicInit
<1> QED
  BY <1>1, InitDataInv, StepDataInv, DataStepIsAtomic, PTL DEF SpecData, AtomicSpec

-----------------------------------------------------------------------------
(* Program memory: the instruction *)

\* A pending data access is what the machine, untouched since the issue, would
\* prepare now.
ProgramInv ==
  /\ WellFormed(machine)
  /\ MemoryWord(program.instruction, ProgramTypes)
  /\ pending # NoPending =>
       pending = [prepared |-> PreparedData(machine, program.instruction), issued |-> machine,
                  next |-> pending.next, missed |-> pending.missed]

LEMMA InitProgramInv == Init => ProgramInv
<1> SUFFICES ASSUME Init PROVE ProgramInv
  OBVIOUS
<1>1. PICK n \in DOMAIN Programs :
        /\ program = [instruction |-> Programs[n].instruction, setUps |-> Programs[n].setUps,
                      next |-> Programs[n].next]
        /\ machine \in Programs[n].machines
  BY DEF Init
<1>2. WellFormed(machine) /\ MemoryWord(program.instruction, ProgramTypes)
  BY <1>1, ProgramClientConstants
<1> QED
  BY <1>2 DEF Init, ProgramInv

LEMMA CompleteDataExecutes ==
  ASSUME ProgramInv, CompleteData
  PROVE  Execute /\ UNCHANGED program /\ WellFormed(machine')
<1> DEFINE i == program.instruction
           p == PreparedData(machine, i)
           word == IF i.write THEN Unknown ELSE WordAt(memory, p.address)
<1>1. pending.prepared = p /\ pending.issued = machine
  BY DEF ProgramInv, CompleteData
<1>2. /\ p.instruction = i
      /\ p.address = AddressOf(machine, i)
      /\ i.write => p.data = WordOf(machine, i)
      /\ CompletedData(machine, p, machine, word) = Whole(machine, i, word)
      /\ WellFormed(CompletedData(machine, p, machine, word))
  BY ProgramDataIsWhole DEF ProgramInv
<1>3. /\ machine' = CompletedData(machine, p, machine, word)
      /\ memory' = IF i.write THEN MemoryWritten(memory, p.address, p.data) ELSE memory
      /\ UNCHANGED program
  BY <1>1, <1>2 DEF CompleteData
<1> HIDE DEF p
<1> QED
  BY <1>2, <1>3 DEF Execute, Whole

\* A force only marks the pending access as missed.
LEMMA ForceKeepsPending ==
  ASSUME ProgramInv, NEW force, pending' = PendingAfterForce(force),
         UNCHANGED <<program, machine>>
  PROVE  ProgramInv'
<1>1. CASE pending # NoPending /\ force
  <2>1. PICK next, missed :
          pending = [prepared |-> PreparedData(machine, program.instruction),
                     issued |-> machine, next |-> next, missed |-> missed]
    BY <1>1 DEF ProgramInv
  <2>2. pending' = [prepared |-> PreparedData(machine, program.instruction),
                    issued |-> machine, next |-> next, missed |-> TRUE]
    BY <1>1, <2>1 DEF PendingAfterForce
  <2> QED
    BY <2>2 DEF ProgramInv
<1>2. CASE ~(pending # NoPending /\ force)
  BY <1>2 DEF PendingAfterForce, ProgramInv
<1> QED
  BY <1>1, <1>2

LEMMA StepProgramInv == ProgramInv /\ [Next]_vars => ProgramInv'
<1> SUFFICES ASSUME ProgramInv, [Next]_vars PROVE ProgramInv'
  OBVIOUS
<1>1. CASE SampleBusRequest
  BY <1>1, ForceKeepsPending DEF SampleBusRequest
<1>2. CASE Ask
  BY <1>2, ForceKeepsPending DEF Ask
<1>3. CASE CompleteData
  BY <1>3, CompleteDataExecutes DEF CompleteData, ProgramInv
<1>4. CASE Issue
  <2>1. \E next, missed :
          pending' = [prepared |-> PreparedData(machine, program.instruction),
                      issued |-> machine, next |-> next, missed |-> missed]
    BY <1>4 DEF Issue
  <2>2. UNCHANGED <<program, machine>>
    BY <1>4 DEF Issue
  <2> QED
    BY <2>1, <2>2 DEF ProgramInv
<1>5. CASE SetUp
  <2>1. pending = NoPending /\ UNCHANGED <<program, pending>>
    BY <1>5 DEF SetUp, InFlight, clientVars
  <2>2. PICK s \in program.setUps :
          /\ s[1] \in SetUpReach(program.instruction.type)
          /\ machine' = SetRegister(machine, s[1], s[2])
    BY <1>5 DEF SetUp
  <2>3. WellFormed(machine')
    BY <2>2, SetUpShape DEF ProgramInv, MemoryWord
  <2> QED
    BY <2>1, <2>3 DEF ProgramInv
<1>6. CASE Reset
  <2>1. pending' = NoPending /\ UNCHANGED program /\ WellFormed(machine')
    BY <1>6, ResetShape DEF Reset, ProgramInv
  <2> QED
    BY <2>1 DEF ProgramInv
<1>7. CASE UNCHANGED <<program, machine, pending>>
  BY <1>7 DEF ProgramInv
<1> QED
  BY <1>1, <1>2, <1>3, <1>4, <1>5, <1>6, <1>7
     DEF Next, ClockEdge, CompleteRecovery, CompleteFetch, CompleteNothing, IssueNothing,
         IssueHeldOff, OtherPhases, Release, vars, atomicVars, clientVars

LEMMA ProgramStepIsAtomic == ProgramInv /\ [Next]_vars => [AtomicNext]_atomicVars
<1> SUFFICES ASSUME ProgramInv, [Next]_vars PROVE [AtomicNext]_atomicVars
  OBVIOUS
<1>1. CASE CompleteData
  BY <1>1, CompleteDataExecutes DEF AtomicNext
<1>2. CASE SetUp
  BY <1>2 DEF SetUp, AtomicNext, AtomicSetUp
<1>3. CASE Reset
  BY <1>3 DEF Reset, AtomicNext, AtomicReset
<1>4. CASE UNCHANGED atomicVars
  BY <1>4
<1> QED
  BY <1>1, <1>2, <1>3, <1>4
     DEF Next, ClockEdge, SampleBusRequest, CompleteRecovery, CompleteFetch, CompleteNothing,
         Issue, Ask, IssueNothing, IssueHeldOff, OtherPhases, Release, vars, atomicVars

\* Whoever wins the bus slots in between, however the bus is granted and however
\* the next instruction is fetched, a PM-data instruction of compute_pm or
\* shifter_pm is one step of the programmer's machine and of program memory.
THEOREM ProgramMemoryAtomic == Spec => AtomicSpec
<1>1. Init => AtomicInit
  BY ProgramClientConstants DEF Init, AtomicInit
<1> QED
  BY <1>1, InitProgramInv, StepProgramInv, ProgramStepIsAtomic, PTL DEF Spec, AtomicSpec

-----------------------------------------------------------------------------
(* Program memory: the word handed on *)

MaybeAddress == Addresses \cup {Unknown}

\* A word read from an address is what memory holds, or data was written there.
Fresh(address, word) == word = memory[address] \/ address \in rewritten

Fetched == {window[n] : n \in DOMAIN window}

FreshEntry(e) == e.address \in Addresses /\ Fresh(e.address, e.word)

WindowInv == window \in Seq(Fetched) /\ \A e \in Fetched : FreshEntry(e)

\* A client in flight loses its slot to nobody, so no fetch completes meanwhile.
SlotInv ==
  transaction # NoTransaction =>
    /\ transaction.owner = "FETCH" => transaction.address \in MaybeAddress
    /\ InFlight => transaction.owner = Client

CaptureInv ==
  pending # NoPending =>
    /\ recovery = NoRecovery
    /\ pending.next \in MaybeAddress
    /\ pending.missed \in BOOLEAN
    /\ forced => pending.missed
    /\ cached # Unknown => pending.next \in Addresses /\ Fresh(pending.next, cached)

DeliveryInv ==
  /\ memory = [a \in Addresses |-> memory[a]]
  /\ program.next \subseteq MaybeAddress
  /\ recovery \in MaybeAddress \cup {NoRecovery}
  /\ forced \in BOOLEAN
  /\ WindowInv
  /\ SlotInv
  /\ CaptureInv

LEMMA WindowOf ==
  ASSUME NEW S, window' \in Seq(S), \A e \in S : FreshEntry(e)'
  PROVE  WindowInv'
<1>1. /\ Len(window') \in Nat
      /\ window' \in [1 .. Len(window') -> S]
      /\ DOMAIN window' = 1 .. Len(window')
  BY LenProperties
<1>2. window' \in [1 .. Len(window') -> Fetched']
  BY <1>1 DEF Fetched
<1>3. window' \in Seq(Fetched')
  BY <1>1, <1>2, SeqDef
<1>4. \A e \in Fetched' : e \in S
  BY <1>1 DEF Fetched
<1> QED
  BY <1>3, <1>4 DEF WindowInv

\* What the window holds after a fetch of memory is that word, and for the
\* rest words of other addresses that it held before.
LEMMA FilledKeepsWindow ==
  ASSUME WindowInv, UNCHANGED memory, NEW address \in MaybeAddress, Filled(address)
  PROVE  WindowInv'
<1>1. CASE ~Known(address)
  <2>1. window' = <<>>
    BY <1>1 DEF Filled, FillOf, Cache!Forget
  <2>2. window' \in Seq({})
    BY <2>1
  <2> QED
    BY <2>2, WindowOf
<1>2. CASE Known(address)
  <2> DEFINE word == WordAt(memory, address)
             new == Cache!Entry(address, word)
             kept == {e \in Fetched : e.address # address}
             S == kept \cup {new}
  <2>1. address \in Addresses /\ word = memory[address]
    BY <1>2 DEF MaybeAddress, Known, WordAt
  <2>2. \A e \in S : FreshEntry(e)'
    BY <2>1 DEF Filled, FreshEntry, Fresh, WindowInv, Cache!Entry
  <2>3. /\ Len(window) \in Nat
        /\ DOMAIN window = 1 .. Len(window)
        /\ window \in [1 .. Len(window) -> Fetched]
    BY LenProperties DEF WindowInv
  <2>4. Cache!Fill(address, word)
    BY <1>2 DEF Filled, FillOf
  <2> HIDE DEF word
  <2>5. CASE Cache!Holds(address)
    <3>1. window' = [n \in DOMAIN window |->
                       IF window[n].address = address THEN new ELSE window[n]]
      BY <2>4, <2>5 DEF Cache!Fill, Cache!Refetch
    <3>2. window' \in [1 .. Len(window) -> S]
      BY <2>3, <3>1
    <3>3. window' \in Seq(S)
      BY <2>3, <3>2, SeqDef
    <3> QED
      BY <2>2, <3>3, WindowOf
  <2>6. CASE ~Cache!Holds(address)
    <3>1. window \in Seq(kept)
      BY <2>3, <2>6, SeqDef DEF Cache!Holds
    <3>2. window \in Seq(S) /\ new \in S
      BY <3>1, SeqMonotonic
    <3>3. CASE Cache!Continues(address)
      <4>1. Tail(window) \in Seq(S)
        BY <3>2, <3>3, HeadTailProperties DEF Cache!Continues
      <4>2. window' = Append(IF Len(window) = CacheWords THEN Tail(window) ELSE window, new)
        BY <2>4, <2>6, <3>3 DEF Cache!Fill, Cache!Extend
      <4>3. window' \in Seq(S)
        BY <3>2, <4>1, <4>2, AppendProperties
      <4> QED
        BY <2>2, <4>3, WindowOf
    <3>4. CASE ~Cache!Continues(address)
      <4>1. window' = <<new>>
        BY <2>4, <2>6, <3>4 DEF Cache!Fill
      <4>2. window' \in Seq(S)
        BY <3>2, <4>1
      <4> QED
        BY <2>2, <4>2, WindowOf
    <3> QED
      BY <3>3, <3>4
  <2> QED
    BY <2>5, <2>6
<1> QED
  BY <1>1, <1>2

LEMMA LookedUpIsFresh ==
  ASSUME WindowInv, NEW address, LookedUp(address) # Unknown, address \in MaybeAddress
  PROVE  address \in Addresses /\ Fresh(address, LookedUp(address))
<1>1. Cache!Holds(address) /\ address \in Addresses
  BY DEF LookedUp, Cache!Lookup, MaybeAddress, Known
<1>2. PICK n \in DOMAIN window :
        window[n].address = address /\ LookedUp(address) = window[n].word
  BY <1>1 DEF LookedUp, Cache!Lookup, Cache!Holds
<1>3. window[n] \in Fetched
  BY DEF Fetched
<1> QED
  BY <1>1, <1>2, <1>3 DEF WindowInv, FreshEntry

LEMMA ClientIsNotFetch == Client # "FETCH"
  BY DEF Client

LEMMA OwnRequest ==
  /\ \A p : DataRequest(p).owner = Client
  /\ \A a : FetchRequest(Client, a).owner = Client
  /\ ClientRequest.owner = Client
  BY DEF DataRequest, FetchRequest, ClientRequest

\* A client that asks for the slot has it or nobody does.
LEMMA SlotMine ==
  ASSUME NEW request, request.owner = Client, Slot({Client}, request), ~Bus!NormalGranted
  PROVE  transaction' # NoTransaction => transaction'.owner = Client
  BY DEF Slot, Bus!TransactionAfterIssue

\* A fetch that wins the slot is for an address, known or not.
LEMMA SlotOthers ==
  ASSUME Slot({}, NoTransaction), ~Bus!NormalGranted
  PROVE  transaction' # NoTransaction /\ transaction'.owner = "FETCH"
           => transaction'.address \in MaybeAddress
<1> DEFINE owner(others) == IF "FETCH" \in others THEN "FETCH"
                            ELSE CHOOSE o \in Bus!Owners : o # Client
<1>1. PICK others \in SUBSET (Bus!Owners \ {Client}), address \in Addresses \cup {Unknown} :
        transaction' = Bus!TransactionAfterIssue(others \cup {},
                         FetchRequest(owner(others), address), FALSE)
  BY DEF Slot
<1> HIDE DEF owner
<1> QED
  BY <1>1 DEF Bus!TransactionAfterIssue, FetchRequest, MaybeAddress

LEMMA ForcePending ==
  ASSUME ProgramInv, DeliveryInv, NEW force \in BOOLEAN, pending # NoPending
  PROVE  LET p == PendingAfterForce(force)
         IN p # NoPending /\ p.next = pending.next /\ p.missed = (pending.missed \/ force)
<1>1. pending = [prepared |-> PreparedData(machine, program.instruction), issued |-> machine,
                 next |-> pending.next, missed |-> pending.missed]
  BY DEF ProgramInv
<1>2. pending.missed \in BOOLEAN
  BY DEF DeliveryInv, CaptureInv
<1>3. CASE force
  <2>1. PendingAfterForce(force) = [pending EXCEPT !.missed = TRUE]
    BY <1>3 DEF PendingAfterForce
  <2>2. "next" \in DOMAIN PendingAfterForce(force)
    BY <1>1, <2>1
  <2>3. PendingAfterForce(force) # NoPending
    BY <2>2 DEF NoPending
  <2>4. PendingAfterForce(force).next = pending.next /\ PendingAfterForce(force).missed = TRUE
    BY <1>1, <2>1
  <2> QED
    BY <1>2, <1>3, <2>3, <2>4
<1>4. CASE ~force
  BY <1>2, <1>4 DEF PendingAfterForce
<1> QED
  BY <1>3, <1>4

\* Asking for an external fetch during the access only marks it as missed.
LEMMA ForceKeepsCapture ==
  ASSUME ProgramInv, DeliveryInv, NEW force \in BOOLEAN,
         pending' = PendingAfterForce(force), ForceSeen(force),
         UNCHANGED <<memory, cached, recovery, rewritten>>
  PROVE  /\ CaptureInv'
         /\ forced' \in BOOLEAN
         /\ InFlight' <=> InFlight
<1>1. CASE pending = NoPending
  BY <1>1 DEF PendingAfterForce, ForceSeen, CaptureInv, InFlight, DeliveryInv
<1>2. CASE pending # NoPending
  <2>1. /\ pending' # NoPending
        /\ pending'.next = pending.next
        /\ pending'.missed = (pending.missed \/ force)
    BY <1>2, ForcePending
  <2> QED
    BY <1>2, <2>1 DEF ForceSeen, CaptureInv, InFlight, DeliveryInv, Fresh
<1> QED
  BY <1>1, <1>2

\* A write by the data access goes into the history with the word it changes.
LEMMA CompleteDataKeepsFresh ==
  ASSUME ProgramInv, DeliveryInv, CompleteData
  PROVE  /\ memory' = [a \in Addresses |-> memory'[a]]
         /\ \A a \in Addresses : \A w : Fresh(a, w) => Fresh(a, w)'
<1> DEFINE p == pending.prepared
<1>1. /\ p.instruction.write =>
           /\ memory' = MemoryWritten(memory, p.address, p.data)
           /\ rewritten' = rewritten \cup (IF Known(p.address) THEN {p.address} ELSE Addresses)
      /\ ~p.instruction.write => UNCHANGED <<memory, rewritten>>
  BY DEF CompleteData
<1> HIDE DEF p
<1>2. memory = [a \in Addresses |-> memory[a]]
  BY DEF DeliveryInv
<1> QED
  BY <1>1, <1>2 DEF MemoryWritten, Known, Fresh

LEMMA InitDeliveryInv == Init => DeliveryInv
<1> SUFFICES ASSUME Init PROVE DeliveryInv
  OBVIOUS
<1>1. PICK n \in DOMAIN Programs :
        program = [instruction |-> Programs[n].instruction, setUps |-> Programs[n].setUps,
                   next |-> Programs[n].next]
  BY DEF Init
<1>2. program.next \subseteq MaybeAddress
  BY <1>1, ProgramClientConstants DEF MaybeAddress
<1>3. window = <<>> /\ Fetched = {}
  BY DEF Init, Cache!Init, Fetched
<1>4. WindowInv
  BY <1>3 DEF WindowInv
<1> QED
  BY <1>2, <1>4, ProgramClientConstants DEF Init, DeliveryInv, SlotInv, CaptureInv

\* The steps that touch neither memory nor the window keep it fresh.
LEMMA StillFresh ==
  ASSUME WindowInv, UNCHANGED <<memory, window, rewritten>>
  PROVE  WindowInv'
  BY DEF WindowInv, Fetched, FreshEntry, Fresh

LEMMA StepDeliveryInv == ProgramInv /\ DeliveryInv /\ [Next]_vars => DeliveryInv'
<1> SUFFICES ASSUME ProgramInv, DeliveryInv, [Next]_vars PROVE DeliveryInv'
  OBVIOUS
<1>1. CASE SampleBusRequest
  <2>1. /\ CaptureInv' /\ forced' \in BOOLEAN /\ (InFlight' <=> InFlight)
        /\ UNCHANGED <<transaction, program, memory, window, recovery, rewritten>>
    BY <1>1, ForceKeepsCapture DEF SampleBusRequest
  <2> QED
    BY <2>1, StillFresh DEF DeliveryInv, SlotInv, Client
<1>2. CASE CompleteData
  <2>1. /\ pending # NoPending
        /\ transaction.owner = Client
        /\ recovery' \in {pending.next, NoRecovery}
        /\ pending' = NoPending
        /\ UNCHANGED <<transaction, program, window>>
        /\ forced' \in BOOLEAN
    BY <1>2 DEF CompleteData, Completes, ForceSeen, DeliveryInv
  <2>2. recovery' \in MaybeAddress \cup {NoRecovery}
    BY <2>1 DEF DeliveryInv, CaptureInv
  <2>3. WindowInv'
    BY <1>2, <2>1, CompleteDataKeepsFresh DEF DeliveryInv, WindowInv, Fetched, FreshEntry
  <2>4. SlotInv' /\ CaptureInv'
    BY <2>1, ClientIsNotFetch DEF SlotInv, CaptureInv, Client
  <2> QED
    BY <1>2, <2>1, <2>2, <2>3, <2>4, CompleteDataKeepsFresh DEF DeliveryInv
<1>3. CASE CompleteRecovery
  <2>1. /\ pending = NoPending
        /\ recovery \in MaybeAddress
        /\ Filled(recovery)
        /\ recovery' = NoRecovery
        /\ UNCHANGED <<transaction, program, memory, pending>>
        /\ transaction.owner = Client
    BY <1>3 DEF CompleteRecovery, Completes, DeliveryInv, CaptureInv
  <2>2. WindowInv' /\ UNCHANGED forced
    BY <2>1, FilledKeepsWindow DEF DeliveryInv, Filled
  <2> QED
    BY <2>1, <2>2, ClientIsNotFetch DEF DeliveryInv, SlotInv, CaptureInv, InFlight, Client
<1>4. CASE CompleteFetch
  <2>1. /\ transaction # NoTransaction /\ transaction.owner = "FETCH"
        /\ Filled(transaction.address)
        /\ UNCHANGED <<transaction, program, memory, pending, cached, recovery>>
    BY <1>4 DEF CompleteFetch, Completes, Bus!InterfaceActive, Bus!Active, clientVars
  <2>2. ~InFlight /\ transaction.address \in MaybeAddress
    BY <2>1, ClientIsNotFetch DEF DeliveryInv, SlotInv
  <2>3. WindowInv' /\ UNCHANGED forced
    BY <2>1, <2>2, FilledKeepsWindow DEF DeliveryInv, Filled
  <2> QED
    BY <2>1, <2>2, <2>3 DEF DeliveryInv, SlotInv, CaptureInv, InFlight, Client
<1>5. CASE Issue
  <2>1. PICK next \in program.next, force \in BOOLEAN :
          LET missed == force \/ LookedUp(next) = Unknown
              p == PreparedData(machine, program.instruction)
          IN /\ pending' = [prepared |-> p, issued |-> machine, next |-> next,
                            missed |-> missed]
             /\ forced' = force
             /\ cached' = IF missed THEN Unknown ELSE LookedUp(next)
             /\ Slot({Client}, DataRequest(p))
    BY <1>5 DEF Issue
  <2>2. /\ recovery = NoRecovery /\ ~Bus!NormalGranted
        /\ UNCHANGED <<program, memory, window, recovery, rewritten>>
    BY <1>5 DEF Issue, IssueBoundary, InFlight
  <2>3. /\ pending'.next = next /\ pending'.missed = (force \/ LookedUp(next) = Unknown)
        /\ forced' = force
        /\ cached' # Unknown => LookedUp(next) # Unknown /\ cached' = LookedUp(next)
    BY <2>1
  <2>4. next \in MaybeAddress
    BY DEF DeliveryInv
  <2>5. CaptureInv'
    BY <2>2, <2>3, <2>4, LookedUpIsFresh DEF CaptureInv, DeliveryInv, Fresh
  <2>6. transaction' # NoTransaction => transaction'.owner = Client
    BY <2>1, <2>2, SlotMine, OwnRequest
  <2>7. Client' = Client
    BY <2>2 DEF Client
  <2>8. SlotInv'
    BY <2>6, <2>7, ClientIsNotFetch DEF SlotInv
  <2> QED
    BY <2>2, <2>3, <2>5, <2>8, StillFresh DEF DeliveryInv
<1>6. CASE Ask
  <2>1. /\ CaptureInv' /\ forced' \in BOOLEAN
        /\ UNCHANGED <<program, memory, window, recovery, rewritten>>
    BY <1>6, ForceKeepsCapture DEF Ask
  <2>2. transaction' # NoTransaction => transaction'.owner = Client
    BY <1>6, SlotMine, OwnRequest DEF Ask, IssueBoundary
  <2>3. Client' = Client
    BY <2>1 DEF Client
  <2>4. SlotInv'
    BY <2>2, <2>3, ClientIsNotFetch DEF SlotInv
  <2> QED
    BY <2>1, <2>4, StillFresh DEF DeliveryInv
<1>7. CASE SetUp \/ IssueNothing
  <2>1. /\ ~InFlight /\ ~Bus!NormalGranted /\ Slot({}, NoTransaction)
        /\ UNCHANGED <<program, memory, window, pending, cached, recovery, rewritten, forced>>
    BY <1>7 DEF SetUp, IssueNothing, IssueBoundary, clientVars, historyVars
  <2>2. ~InFlight'
    BY <2>1 DEF InFlight
  <2>3. SlotInv'
    BY <2>1, <2>2, SlotOthers DEF SlotInv, MaybeAddress
  <2> QED
    BY <2>1, <2>3, StillFresh DEF DeliveryInv, CaptureInv, InFlight
<1>8. CASE Reset
  <2>1. window' = <<>> /\ Fetched' = {}
    BY <1>8 DEF Reset, Cache!Forget, Fetched
  <2>2. WindowInv'
    BY <2>1 DEF WindowInv
  <2> QED
    BY <1>8, <2>2 DEF Reset, historyVars, DeliveryInv, SlotInv, CaptureInv
<1>9. CASE /\ transaction' \in {transaction, NoTransaction}
           /\ UNCHANGED <<program, memory, window, clientVars, historyVars>>
  BY <1>9, StillFresh
     DEF clientVars, historyVars, DeliveryInv, SlotInv, CaptureInv, InFlight, Client, Fresh
<1>10. IssueHeldOff => transaction' \in {transaction, NoTransaction}
  BY DEF IssueHeldOff, Bus!TransactionAfterIssue
<1> QED
  BY <1>1, <1>2, <1>3, <1>4, <1>5, <1>6, <1>7, <1>8, <1>9, <1>10
     DEF Next, ClockEdge, CompleteNothing, IssueHeldOff, OtherPhases, Release, vars, busVars,
         atomicVars, cacheVars

\* A data access that wants no recovery had a cache hit, and no force undid it.
LEMMA CompleteDataDelivers ==
  ASSUME ProgramInv, DeliveryInv, CompleteData, recovery' = NoRecovery, cached # Unknown
  PROVE  \/ cached = memory'[pending.next]
         \/ pending.next \in rewritten' /\ ~forced'
<1>1. pending # NoPending
  BY DEF CompleteData
<1>2. PICK force \in BOOLEAN :
        /\ recovery' = IF PendingAfterForce(force).missed THEN pending.next ELSE NoRecovery
        /\ ForceSeen(force)
  BY DEF CompleteData
<1>3. pending.next \in Addresses /\ Fresh(pending.next, cached)
  BY <1>1 DEF DeliveryInv, CaptureInv
<1>4. ~pending.missed /\ ~force
  BY <1>1, <1>2, <1>3, ForcePending, ProgramClientConstants DEF DeliveryInv, CaptureInv
<1>5. ~forced'
  BY <1>1, <1>2, <1>4 DEF ForceSeen, DeliveryInv, CaptureInv
<1>6. cached = memory'[pending.next] \/ pending.next \in rewritten'
  BY <1>3, CompleteDataKeepsFresh DEF Fresh
<1> QED
  BY <1>5, <1>6

\* An instruction ends with its data access or with its recovery fetch.
LEMMA StepDelivers ==
  ASSUME ProgramInv, DeliveryInv, [Next]_vars,
         InFlight, ~InFlight', ~resetActive', NextInstruction # Unknown
  PROVE  \/ NextInstruction = memory'[DeliveredFrom]
         \/ DeliveredFrom \in rewritten' /\ ~forced'
<1>1. CASE CompleteData
  <2>1. recovery' = NoRecovery
    BY <1>1 DEF InFlight
  <2>2. recovery = NoRecovery
    BY <1>1 DEF CompleteData, DeliveryInv, CaptureInv
  <2> QED
    BY <1>1, <2>1, <2>2, CompleteDataDelivers DEF NextInstruction, DeliveredFrom
<1>2. CASE CompleteRecovery
  <2>1. recovery # NoRecovery /\ UNCHANGED memory
    BY <1>2 DEF CompleteRecovery
  <2> QED
    BY <2>1 DEF NextInstruction, DeliveredFrom, WordAt
<1>3. CASE SampleBusRequest \/ Ask
  <2>1. PICK force \in BOOLEAN : pending' = PendingAfterForce(force) /\ ForceSeen(force)
    BY <1>3 DEF SampleBusRequest, Ask
  <2>2. UNCHANGED <<memory, cached, recovery, rewritten>>
    BY <1>3 DEF SampleBusRequest, Ask
  <2> QED
    BY <2>1, <2>2, ForceKeepsCapture
<1>4. CASE Issue \/ SetUp \/ IssueNothing
  BY <1>4 DEF Issue, SetUp, IssueNothing
<1>5. CASE Reset
  BY <1>5 DEF Reset, AssertReset
<1>6. CASE UNCHANGED clientVars
  BY <1>6 DEF clientVars, InFlight
<1> QED
  BY <1>1, <1>2, <1>3, <1>4, <1>5, <1>6
     DEF Next, ClockEdge, CompleteFetch, CompleteNothing, IssueHeldOff, OtherPhases, Release,
         vars

\* A finished PM-data instruction of compute_pm or shifter_pm hands on the word
\* program memory then holds at the next address; a stale word only where data
\* was written since, and never after a forced external fetch.
THEOREM WordHandedOn == Spec => DeliveredWord
<1>1. ProgramInv /\ DeliveryInv /\ [Next]_vars =>
        [InFlight /\ ~InFlight' /\ ~resetActive' /\ NextInstruction # Unknown =>
           \/ NextInstruction = memory'[DeliveredFrom]
           \/ DeliveredFrom \in rewritten' /\ ~forced']_vars
  BY StepDelivers
<1> QED
  BY <1>1, InitProgramInv, StepProgramInv, InitDeliveryInv, StepDeliveryInv, PTL
     DEF Spec, DeliveredWord

=============================================================================
