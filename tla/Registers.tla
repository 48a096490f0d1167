-------------------------------- MODULE Registers --------------------------------
(***************************************************************************)
(* The programmer's registers as the reference models keep them: every     *)
(* register and every status bit has a value or is Unknown (registers.py,  *)
(* status.py, ArchitecturalState of model.py).  A machine is a record      *)
(*   bank   the two computational banks                                    *)
(*   flag   the eight bits of ASTAT                                        *)
(*   mode   the four bits of MSTAT                                         *)
(*   ctl    CNTR, PX, IMASK, ICNTL and one I, M, L triple                  *)
(***************************************************************************)
EXTENDS Datapath, Sequences

CONSTANTS Unknown

DREG == {"AX0", "AX1", "MX0", "MX1", "AY0", "AY1", "MY0", "MY1", "SI", "SE", "AR",
         "MR0", "MR1", "MR2", "SR0", "SR1"}

Banked == DREG \cup {"AF", "MF", "SB"}

\* In bit order.
ASTATBits == <<"AZ", "AN", "AV", "AC", "AS", "AQ", "MV", "SS">>

MSTATBits == <<"SR", "BR", "OL", "AR">>

BitNames(bits) == {bits[n] : n \in DOMAIN bits}

Control == {"CNTR", "PX", "IMASK", "ICNTL", "I", "M", "L"}

Known(v) == v # Unknown

Lifted(v, result) == IF Known(v) THEN result ELSE Unknown

\* A machine that has all its registers and flags, known or not.
WellFormed(m) ==
  /\ m = [bank |-> m.bank, flag |-> m.flag, mode |-> m.mode, ctl |-> m.ctl]
  /\ m.bank = [b \in 0..1 |-> [r \in Banked |-> m.bank[b][r]]]
  /\ m.flag = [f \in BitNames(ASTATBits) |-> m.flag[f]]
  /\ m.mode = [b \in BitNames(MSTATBits) |-> m.mode[b]]
  /\ m.ctl = [c \in Control |-> m.ctl[c]]

-----------------------------------------------------------------------------
(* Banks *)

Selected(m) == IF m.mode["SR"] THEN 1 ELSE 0

Bank(m) == m.bank[Selected(m)]

WithBank(m, b) == [m EXCEPT !.bank[Selected(m)] = b]

\* A short register on the data bus.
Extended(v, width) == Lifted(v, Signed(v, width) % 2 ^ W)

Narrow(v, width) == Lifted(v, v % 2 ^ width)

\* read_dreg.
ReadDREG(b, d) ==
  CASE d = "SE" -> Extended(b["SE"], Exponent)
    [] d = "MR2" -> Extended(b["MR2"], Guard)
    [] OTHER -> b[d]

\* _write_dreg: a write of MR1 extends its sign through MR2.  An Unknown write
\* makes unknown what a known one would change.
StoreDREG(b, d, v) ==
  CASE d = "SE" -> [b EXCEPT !["SE"] = Narrow(v, Exponent)]
    [] d = "MR2" -> [b EXCEPT !["MR2"] = Narrow(v, Guard)]
    [] d = "MR1" -> [b EXCEPT !["MR1"] = v,
                              !["MR2"] = Lifted(v, IF Negative(v, W) THEN 2 ^ Guard - 1 ELSE 0)]
    [] OTHER -> [b EXCEPT ![d] = v]

\* The storage a DREG write touches; two writes of a cycle may not share any.
Touched(d) == IF d = "MR1" THEN {"MR1", "MR2"} ELSE {d}

StoreSB(b, v) == [b EXCEPT !["SB"] = Narrow(v, Block)]

\* alu_write and mac_write.
StoreALU(b, feedback, v) == [b EXCEPT ![IF feedback THEN "AF" ELSE "AR"] = v]

StoreMAC(b, feedback, v) ==
  IF feedback
    THEN [b EXCEPT !["MF"] = Lifted(v, (v \div 2 ^ W) % 2 ^ W)]
    ELSE [b EXCEPT !["MR0"] = Lifted(v, v % 2 ^ W),
                   !["MR1"] = Lifted(v, (v \div 2 ^ W) % 2 ^ W),
                   !["MR2"] = Lifted(v, v \div 2 ^ (2 * W))]

StoreSR(b, v) ==
  [b EXCEPT !["SR0"] = Lifted(v, v % 2 ^ W), !["SR1"] = Lifted(v, v \div 2 ^ W)]

\* _known_mr and _known_sr.
WholeMR(b) ==
  IF \A d \in {"MR0", "MR1", "MR2"} : Known(b[d])
    THEN b["MR0"] + b["MR1"] * 2 ^ W + b["MR2"] * 2 ^ (2 * W)
    ELSE Unknown

WholeSR(b) ==
  IF Known(b["SR0"]) /\ Known(b["SR1"]) THEN b["SR0"] + b["SR1"] * 2 ^ W ELSE Unknown

-----------------------------------------------------------------------------
(* Status *)

\* ASTATState.updated.
WithFlags(m, updates) ==
  [m EXCEPT !.flag = [f \in DOMAIN m.flag |->
                        IF f \in DOMAIN updates THEN updates[f] ELSE m.flag[f]]]

WithoutFlags(m, flags) == WithFlags(m, [f \in flags |-> Unknown])

\* A status register as a word of the data bus, and back; a bus narrower than
\* the register carries its low bits.
StatusWord(bits, state) ==
  IF \E n \in DOMAIN bits : ~Known(state[bits[n]]) THEN Unknown
  ELSE FromBits({n - 1 : n \in {k \in DOMAIN bits : state[bits[k]]}}) % 2 ^ W

FromWord(bits, v) ==
  [b \in BitNames(bits) |->
     Lifted(v, \E n \in DOMAIN bits : bits[n] = b /\ Bit(v, n - 1))]

\* What reset leaves of the status registers.
ResetStatus(m) ==
  [m EXCEPT !.flag = FromWord(ASTATBits, Unknown),
            !.mode = FromWord(MSTATBits, 0),
            !.ctl = [m.ctl EXCEPT !["IMASK"] = 0, !["ICNTL"] = Unknown]]

\* ArchitecturalState.reset.
ResetMachine(m) ==
  [ResetStatus(m) EXCEPT
     !.bank = [b \in 0..1 |-> [d \in Banked |-> Unknown]],
     !.ctl = [c \in Control |-> IF c = "IMASK" THEN 0 ELSE Unknown]]

-----------------------------------------------------------------------------
(* The storage boundaries: what a cycle asks of a bank and of the status      *)
(* registers, and when it asks too much.                                      *)

\* A request of a cycle: the DREGs and perhaps SB that words are moved to, and the
\* unit whose result is written, to its feedback register or not.
UnitDestination(q) ==
  CASE q.unit = "ALU" /\ ~q.feedback -> {"AR"}
    [] q.unit = "MAC" /\ ~q.feedback -> {"MR0", "MR1", "MR2"}
    [] q.unit = "SR" -> {"SR0", "SR1"}
    [] q.unit = "SE" -> {"SE"}
    [] OTHER -> {}

DREGsCollide(dregs) ==
  \E c, d \in dregs : c # d /\ Touched(c) \cap Touched(d) # {}

BankCollision(q) ==
  \/ DREGsCollide(q.dregs)
  \/ (UNION {Touched(d) : d \in q.dregs}) \cap UnitDestination(q) # {}
  \/ q.unit = "SB" /\ q.sb

\* The status writes of a cycle: words moved, the flags a unit makes, the modes
\* set and cleared, and the level an interrupt enters at or the entry restored.
NoModes == [b \in BitNames(MSTATBits) |-> "KEEP"]

NoStatusWrites ==
  [moves |-> <<>>, automatic |-> <<>>, modes |-> NoModes, entry |-> {}, restore |-> {}]

StatusConflict(q) ==
  LET moves == DOMAIN q.moves
      units == DOMAIN q.automatic
  IN \/ Cardinality(units) > 1
     \/ "ASTAT" \in moves /\ units # {}
     \/ "MSTAT" \in moves /\ q.modes # NoModes
     \/ /\ q.restore # {}
        /\ moves # {} \/ units # {} \/ q.modes # NoModes \/ q.entry # {}

\* _interrupt_imask: nothing below the level entered, nothing at all unless
\* ICNTL nests.
EntryMask(m, level) ==
  LET icntl == m.ctl["ICNTL"]
  IN Lifted(icntl, IF Bit(icntl, 4) THEN FromBits(level + 1 .. 3) ELSE 0)

\* What interrupt entry pushes.
StatusEntry(m) == [flag |-> m.flag, mode |-> m.mode, imask |-> m.ctl["IMASK"]]

WithEntry(m, e) == [m EXCEPT !.flag = e.flag, !.mode = e.mode, !.ctl["IMASK"] = e.imask]

Controlled(mode, modes) ==
  [b \in DOMAIN mode |-> IF modes[b] = "KEEP" THEN mode[b] ELSE modes[b] = "SET"]

MovedOr(q, register, old) == IF register \in DOMAIN q.moves THEN q.moves[register] ELSE old

\* Ordinary writes; a move of ASTAT or MSTAT comes before what the cycle makes.
StatusWritten(m, q) ==
  LET units == DOMAIN q.automatic
      flagged == IF units = {} THEN m ELSE WithFlags(m, q.automatic[CHOOSE u \in units : TRUE])
  IN [m EXCEPT
        !.flag = IF "ASTAT" \in DOMAIN q.moves THEN FromWord(ASTATBits, q.moves["ASTAT"])
                                               ELSE flagged.flag,
        !.mode = IF "MSTAT" \in DOMAIN q.moves THEN FromWord(MSTATBits, q.moves["MSTAT"])
                                               ELSE Controlled(m.mode, q.modes),
        !.ctl["ICNTL"] = MovedOr(q, "ICNTL", m.ctl["ICNTL"]),
        !.ctl["IMASK"] = MovedOr(q, "IMASK", m.ctl["IMASK"])]

\* A conflict writes nothing, an interrupt entry drops the cycle's own writes.
StatusCycle(m, q) ==
  CASE StatusConflict(q) -> m
    [] ~StatusConflict(q) /\ q.entry # {} ->
         [m EXCEPT !.ctl["IMASK"] = EntryMask(m, CHOOSE level \in q.entry : TRUE)]
    [] ~StatusConflict(q) /\ q.entry = {} /\ q.restore # {} ->
         WithEntry(m, CHOOSE e \in q.restore : TRUE)
    [] OTHER -> StatusWritten(m, q)

=============================================================================
