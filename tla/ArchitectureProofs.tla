---------------------------- MODULE ArchitectureProofs ----------------------------
(***************************************************************************)
(* A model that admits what it does not know, and cycles that act at once. *)
(*                                                                         *)
(* Sees(v, a, exact) relates two machines: what v shows is what a holds,   *)
(* and v knows as much as a does of the modes in exact.  SR must be one of *)
(* them when an instruction touches a bank, since it says which.  A lemma  *)
(* for each operator of Registers and Computation, up to Retired, says     *)
(* that it keeps the relation; HonestInv makes it an invariant of the two  *)
(* machines in lockstep.  It also relates each machine to itself, which is *)
(* what a machine that has all its registers is.                           *)
(*                                                                         *)
(* ADSP2100Model passes not_counter_expired = FALSE while CNTR is unknown, *)
(* so IF NOT CE is then decided without being known.  CounterLoaded is the *)
(* rule for its programs that this asks for; a slice is told the answer.   *)
(*                                                                         *)
(* That a cycle acts at once is proved last: of the two clauses of a word, *)
(* of the writes it may have, of the modes beside a computation, and of    *)
(* the status around an interrupt's entry.                                 *)
(***************************************************************************)
EXTENDS Architecture, FiniteSetTheorems, TLAPS

Flags == BitNames(ASTATBits)

Modes == BitNames(MSTATBits)

\* A bank and what a model shows of it.
BankSees(b, c) ==
  /\ b = [r \in Banked |-> b[r]]
  /\ c = [r \in Banked |-> c[r]]
  /\ \A r \in Banked : Honest(b[r], c[r])

Tested(flag) == flag["MV"] \in {TRUE, FALSE, Unknown}

\* What `v` shows is what `a` holds, and it knows as much of the modes in `exact`.
Sees(v, a, exact) ==
  /\ WellFormed(v) /\ WellFormed(a)
  /\ \A n \in 0..1 : BankSees(v.bank[n], a.bank[n])
  /\ \A f \in Flags : Honest(v.flag[f], a.flag[f])
  /\ Tested(v.flag) /\ Tested(a.flag)
  /\ \A b \in Modes : Honest(v.mode[b], a.mode[b])
  /\ \A b \in exact : v.mode[b] = a.mode[b]
  /\ \A c \in Control : Honest(v.ctl[c], a.ctl[c])

-----------------------------------------------------------------------------
(* Banks *)

LEMMA NamedBits ==
  /\ Flags = {"AZ", "AN", "AV", "AC", "AS", "AQ", "MV", "SS"}
  /\ Modes = {"SR", "BR", "OL", "AR"}
  BY DEF Flags, Modes, BitNames, ASTATBits, MSTATBits

LEMMA StoreOne ==
  ASSUME NEW b, NEW c, BankSees(b, c), NEW r \in Banked, NEW v, NEW w, Honest(v, w)
  PROVE  BankSees([b EXCEPT ![r] = v], [c EXCEPT ![r] = w])
  BY DEF BankSees

LEMMA HonestWords ==
  ASSUME NEW v, NEW a, Honest(v, a), NEW width
  PROVE  Honest(Narrow(v, width), Narrow(a, width)) /\ Honest(Extended(v, width), Extended(a, width))
<1>1. CASE v = Unknown
  BY <1>1 DEF Honest, Narrow, Extended, Lifted, Known
<1>2. CASE v = a
  BY <1>2 DEF Honest
<1> QED
  BY <1>1, <1>2 DEF Honest

LEMMA HonestDREG ==
  ASSUME NEW b, NEW c, BankSees(b, c), NEW d \in DREG
  PROVE  Honest(ReadDREG(b, d), ReadDREG(c, d))
<1>1. Honest(b[d], c[d]) /\ Honest(b["SE"], c["SE"]) /\ Honest(b["MR2"], c["MR2"])
  BY DEF BankSees, Banked, DREG
<1> QED
  BY <1>1, HonestWords DEF ReadDREG

LEMMA StoreDREGSees ==
  ASSUME NEW b, NEW c, BankSees(b, c), NEW d \in DREG, NEW v, NEW a, Honest(v, a)
  PROVE  BankSees(StoreDREG(b, d, v), StoreDREG(c, d, a))
<1>1. {"SE", "MR1", "MR2", d} \subseteq Banked
  BY DEF Banked, DREG
<1>2. CASE d = "SE"
  BY <1>1, <1>2, StoreOne, HonestWords DEF StoreDREG
<1>3. CASE d = "MR2"
  BY <1>1, <1>3, StoreOne, HonestWords DEF StoreDREG
<1>4. CASE d = "MR1"
  <2> DEFINE Sign(x) == Lifted(x, IF Negative(x, W) THEN 2 ^ Guard - 1 ELSE 0)
             low(e, x) == [e EXCEPT !["MR1"] = x]
  <2>1. Honest(Sign(v), Sign(a))
    BY DEF Honest, Lifted, Known
  <2>2. /\ StoreDREG(b, d, v) = [low(b, v) EXCEPT !["MR2"] = Sign(v)]
        /\ StoreDREG(c, d, a) = [low(c, a) EXCEPT !["MR2"] = Sign(a)]
    BY <1>4 DEF StoreDREG
  <2>3. BankSees(low(b, v), low(c, a))
    BY <1>1, StoreOne
  <2> HIDE DEF Sign, low
  <2>4. BankSees([low(b, v) EXCEPT !["MR2"] = Sign(v)], [low(c, a) EXCEPT !["MR2"] = Sign(a)])
    BY <1>1, <2>1, <2>3, StoreOne
  <2> QED
    BY <2>2, <2>4
<1>5. CASE d \notin {"SE", "MR1", "MR2"}
  BY <1>1, <1>5, StoreOne DEF StoreDREG
<1> QED
  BY <1>2, <1>3, <1>4, <1>5

LEMMA StoreSBSees ==
  ASSUME NEW b, NEW c, BankSees(b, c), NEW v, NEW a, Honest(v, a)
  PROVE  BankSees(StoreSB(b, v), StoreSB(c, a))
  BY StoreOne, HonestWords DEF StoreSB, Banked

LEMMA StoreALUSees ==
  ASSUME NEW b, NEW c, BankSees(b, c), NEW feedback \in BOOLEAN, NEW v, NEW a, Honest(v, a)
  PROVE  BankSees(StoreALU(b, feedback, v), StoreALU(c, feedback, a))
<1> DEFINE r == IF feedback THEN "AF" ELSE "AR"
<1>1. r \in Banked
  BY DEF Banked, DREG
<1> HIDE DEF r
<1>2. BankSees([b EXCEPT ![r] = v], [c EXCEPT ![r] = a])
  BY <1>1, StoreOne
<1> QED
  BY <1>2 DEF StoreALU, r

LEMMA StoreTwoSees ==
  ASSUME NEW b, NEW c, BankSees(b, c), NEW r \in Banked, NEW s \in Banked,
         NEW v, NEW a, Honest(v, a), NEW w, NEW e, Honest(w, e)
  PROVE  BankSees([b EXCEPT ![r] = v, ![s] = w], [c EXCEPT ![r] = a, ![s] = e])
<1> DEFINE x == [b EXCEPT ![r] = v]
           y == [c EXCEPT ![r] = a]
<1>1. BankSees(x, y)
  BY StoreOne
<1> HIDE DEF x, y
<1>2. BankSees([x EXCEPT ![s] = w], [y EXCEPT ![s] = e])
  BY <1>1, StoreOne
<1> QED
  BY <1>2 DEF x, y

LEMMA StoreThreeSees ==
  ASSUME NEW b, NEW c, BankSees(b, c), NEW r \in Banked, NEW s \in Banked, NEW t \in Banked,
         NEW v, NEW a, Honest(v, a), NEW w, NEW e, Honest(w, e), NEW x, NEW y, Honest(x, y)
  PROVE  BankSees([b EXCEPT ![r] = v, ![s] = w, ![t] = x], [c EXCEPT ![r] = a, ![s] = e, ![t] = y])
<1> DEFINE p == [b EXCEPT ![r] = v, ![s] = w]
           q == [c EXCEPT ![r] = a, ![s] = e]
<1>1. BankSees(p, q)
  BY StoreTwoSees
<1> HIDE DEF p, q
<1>2. BankSees([p EXCEPT ![t] = x], [q EXCEPT ![t] = y])
  BY <1>1, StoreOne
<1> QED
  BY <1>2 DEF p, q

LEMMA StoreMACSees ==
  ASSUME NEW b, NEW c, BankSees(b, c), NEW feedback \in BOOLEAN, NEW v, NEW a, Honest(v, a)
  PROVE  BankSees(StoreMAC(b, feedback, v), StoreMAC(c, feedback, a))
<1> DEFINE low(x) == Lifted(x, x % 2 ^ W)
           mid(x) == Lifted(x, (x \div 2 ^ W) % 2 ^ W)
           top(x) == Lifted(x, x \div 2 ^ (2 * W))
<1>1. {"MF", "MR0", "MR1", "MR2"} \subseteq Banked
  BY DEF Banked, DREG
<1>2. Honest(low(v), low(a)) /\ Honest(mid(v), mid(a)) /\ Honest(top(v), top(a))
  BY DEF Honest, Lifted, Known
<1>3. /\ StoreMAC(b, feedback, v) =
           IF feedback THEN [b EXCEPT !["MF"] = mid(v)]
           ELSE [b EXCEPT !["MR0"] = low(v), !["MR1"] = mid(v), !["MR2"] = top(v)]
      /\ StoreMAC(c, feedback, a) =
           IF feedback THEN [c EXCEPT !["MF"] = mid(a)]
           ELSE [c EXCEPT !["MR0"] = low(a), !["MR1"] = mid(a), !["MR2"] = top(a)]
  BY DEF StoreMAC
<1> HIDE DEF low, mid, top
<1>4. CASE feedback
  BY <1>1, <1>2, <1>3, <1>4, StoreOne
<1>5. CASE ~feedback
  <2>1. BankSees([b EXCEPT !["MR0"] = low(v), !["MR1"] = mid(v), !["MR2"] = top(v)],
                 [c EXCEPT !["MR0"] = low(a), !["MR1"] = mid(a), !["MR2"] = top(a)])
    BY <1>1, <1>2, StoreThreeSees
  <2> QED
    BY <1>3, <1>5, <2>1
<1> QED
  BY <1>4, <1>5

LEMMA StoreSRSees ==
  ASSUME NEW b, NEW c, BankSees(b, c), NEW v, NEW a, Honest(v, a)
  PROVE  BankSees(StoreSR(b, v), StoreSR(c, a))
<1> DEFINE low(x) == Lifted(x, x % 2 ^ W)
           high(x) == Lifted(x, x \div 2 ^ W)
<1>1. "SR0" \in Banked /\ "SR1" \in Banked
  BY DEF Banked, DREG
<1>2. Honest(low(v), low(a)) /\ Honest(high(v), high(a))
  BY DEF Honest, Lifted, Known
<1>3. /\ StoreSR(b, v) = [b EXCEPT !["SR0"] = low(v), !["SR1"] = high(v)]
      /\ StoreSR(c, a) = [c EXCEPT !["SR0"] = low(a), !["SR1"] = high(a)]
  BY DEF StoreSR
<1> HIDE DEF low, high
<1>4. BankSees([b EXCEPT !["SR0"] = low(v), !["SR1"] = high(v)],
               [c EXCEPT !["SR0"] = low(a), !["SR1"] = high(a)])
  BY <1>1, <1>2, StoreTwoSees
<1> QED
  BY <1>3, <1>4

-----------------------------------------------------------------------------
(* Machines *)

LEMMA KnowsMore ==
  ASSUME NEW v, NEW a, NEW S, Sees(v, a, S), NEW exact, exact \subseteq Modes,
         \A b \in exact : Known(v.mode[b])
  PROVE  Sees(v, a, exact)
  BY DEF Sees, Honest, Known

LEMMA SeesEach ==
  ASSUME NEW v, NEW a, NEW exact, Sees(v, a, exact)
  PROVE  Sees(v, v, Modes) /\ Sees(a, a, Modes)
  BY DEF Sees, BankSees, Honest

LEMMA BankSeen ==
  ASSUME NEW v, NEW a, NEW exact, Sees(v, a, exact), "SR" \in exact
  PROVE  Selected(v) = Selected(a) /\ Selected(v) \in 0..1 /\ BankSees(Bank(v), Bank(a))
  BY DEF Sees, Selected, Bank

LEMMA WithBankShape ==
  ASSUME NEW m, WellFormed(m), NEW b, b = [r \in Banked |-> b[r]]
  PROVE  LET n == WithBank(m, b)
         IN /\ WellFormed(n)
            /\ n.flag = m.flag /\ n.mode = m.mode /\ n.ctl = m.ctl
            /\ \A k \in 0..1 : n.bank[k] = IF k = Selected(m) THEN b ELSE m.bank[k]
<1>1. Selected(m) \in 0..1
  BY DEF Selected
<1> QED
  BY <1>1 DEF WellFormed, WithBank

LEMMA WithBankSees ==
  ASSUME NEW v, NEW a, NEW exact, Sees(v, a, exact), "SR" \in exact,
         NEW b, NEW c, BankSees(b, c)
  PROVE  Sees(WithBank(v, b), WithBank(a, c), exact)
<1>1. Selected(v) = Selected(a) /\ Selected(v) \in 0..1
  BY BankSeen
<1> DEFINE p == WithBank(v, b)
           q == WithBank(a, c)
<1>2. WellFormed(v) /\ WellFormed(a) /\ b = [r \in Banked |-> b[r]] /\ c = [r \in Banked |-> c[r]]
  BY DEF Sees, BankSees
<1>3. /\ WellFormed(p) /\ p.flag = v.flag /\ p.mode = v.mode /\ p.ctl = v.ctl
      /\ \A k \in 0..1 : p.bank[k] = IF k = Selected(v) THEN b ELSE v.bank[k]
  BY <1>2, WithBankShape
<1>4. /\ WellFormed(q) /\ q.flag = a.flag /\ q.mode = a.mode /\ q.ctl = a.ctl
      /\ \A k \in 0..1 : q.bank[k] = IF k = Selected(a) THEN c ELSE a.bank[k]
  BY <1>2, WithBankShape
<1> HIDE DEF p, q
<1>5. Sees(p, q, exact)
  BY <1>1, <1>3, <1>4 DEF Sees
<1> QED
  BY <1>5 DEF p, q

\* Machines with other flags, modes or control registers.
LEMMA NewFlags ==
  ASSUME NEW m, WellFormed(m), NEW x, x = [f \in Flags |-> x[f]]
  PROVE  /\ WellFormed([m EXCEPT !.flag = x])
         /\ [m EXCEPT !.flag = x].flag = x
         /\ [m EXCEPT !.flag = x].bank = m.bank
         /\ [m EXCEPT !.flag = x].mode = m.mode
         /\ [m EXCEPT !.flag = x].ctl = m.ctl
  BY DEF WellFormed, Flags, Modes

LEMMA NewBanks ==
  ASSUME NEW m, WellFormed(m), NEW x, x = [b \in 0..1 |-> [r \in Banked |-> x[b][r]]]
  PROVE  /\ WellFormed([m EXCEPT !.bank = x])
         /\ [m EXCEPT !.bank = x].bank = x
         /\ [m EXCEPT !.bank = x].flag = m.flag
         /\ [m EXCEPT !.bank = x].mode = m.mode
         /\ [m EXCEPT !.bank = x].ctl = m.ctl
  BY DEF WellFormed

LEMMA NewModes ==
  ASSUME NEW m, WellFormed(m), NEW x, x = [b \in Modes |-> x[b]]
  PROVE  /\ WellFormed([m EXCEPT !.mode = x])
         /\ [m EXCEPT !.mode = x].mode = x
         /\ [m EXCEPT !.mode = x].bank = m.bank
         /\ [m EXCEPT !.mode = x].flag = m.flag
         /\ [m EXCEPT !.mode = x].ctl = m.ctl
  BY DEF WellFormed, Flags, Modes

LEMMA NewControl ==
  ASSUME NEW m, WellFormed(m), NEW x, x = [c \in Control |-> x[c]]
  PROVE  /\ WellFormed([m EXCEPT !.ctl = x])
         /\ [m EXCEPT !.ctl = x].ctl = x
         /\ [m EXCEPT !.ctl = x].bank = m.bank
         /\ [m EXCEPT !.ctl = x].flag = m.flag
         /\ [m EXCEPT !.ctl = x].mode = m.mode
  BY DEF WellFormed, Flags, Modes

LEMMA NewFlagsSee ==
  ASSUME NEW v, NEW a, NEW exact, Sees(v, a, exact), NEW x, NEW y,
         x = [f \in Flags |-> x[f]], y = [f \in Flags |-> y[f]],
         \A f \in Flags : Honest(x[f], y[f]), Tested(x), Tested(y)
  PROVE  Sees([v EXCEPT !.flag = x], [a EXCEPT !.flag = y], exact)
<1> DEFINE p == [v EXCEPT !.flag = x]
           q == [a EXCEPT !.flag = y]
<1>1. WellFormed(p) /\ p.flag = x /\ p.bank = v.bank /\ p.mode = v.mode /\ p.ctl = v.ctl
  BY NewFlags DEF Sees
<1>2. WellFormed(q) /\ q.flag = y /\ q.bank = a.bank /\ q.mode = a.mode /\ q.ctl = a.ctl
  BY NewFlags DEF Sees
<1> HIDE DEF p, q
<1>3. Sees(p, q, exact)
  BY <1>1, <1>2 DEF Sees
<1> QED
  BY <1>3 DEF p, q

LEMMA NewModesSee ==
  ASSUME NEW v, NEW a, NEW S, Sees(v, a, S), NEW exact, NEW x, NEW y,
         x = [b \in Modes |-> x[b]], y = [b \in Modes |-> y[b]],
         \A b \in Modes : Honest(x[b], y[b]), \A b \in exact : x[b] = y[b]
  PROVE  Sees([v EXCEPT !.mode = x], [a EXCEPT !.mode = y], exact)
<1> DEFINE p == [v EXCEPT !.mode = x]
           q == [a EXCEPT !.mode = y]
<1>1. WellFormed(p) /\ p.mode = x /\ p.bank = v.bank /\ p.flag = v.flag /\ p.ctl = v.ctl
  BY NewModes DEF Sees
<1>2. WellFormed(q) /\ q.mode = y /\ q.bank = a.bank /\ q.flag = a.flag /\ q.ctl = a.ctl
  BY NewModes DEF Sees
<1> HIDE DEF p, q
<1>3. Sees(p, q, exact)
  BY <1>1, <1>2 DEF Sees
<1> QED
  BY <1>3 DEF p, q

LEMMA NewControlSees ==
  ASSUME NEW v, NEW a, NEW exact, Sees(v, a, exact), NEW x, NEW y,
         x = [c \in Control |-> x[c]], y = [c \in Control |-> y[c]],
         \A c \in Control : Honest(x[c], y[c])
  PROVE  Sees([v EXCEPT !.ctl = x], [a EXCEPT !.ctl = y], exact)
<1> DEFINE p == [v EXCEPT !.ctl = x]
           q == [a EXCEPT !.ctl = y]
<1>1. WellFormed(p) /\ p.ctl = x /\ p.bank = v.bank /\ p.flag = v.flag /\ p.mode = v.mode
  BY NewControl DEF Sees
<1>2. WellFormed(q) /\ q.ctl = y /\ q.bank = a.bank /\ q.flag = a.flag /\ q.mode = a.mode
  BY NewControl DEF Sees
<1> HIDE DEF p, q
<1>3. Sees(p, q, exact)
  BY <1>1, <1>2 DEF Sees
<1> QED
  BY <1>3 DEF p, q

LEMMA ControlSees ==
  ASSUME NEW v, NEW a, NEW exact, Sees(v, a, exact), NEW c \in Control, NEW x, NEW y, Honest(x, y)
  PROVE  Sees([v EXCEPT !.ctl[c] = x], [a EXCEPT !.ctl[c] = y], exact)
<1> DEFINE p == [v.ctl EXCEPT ![c] = x]
           q == [a.ctl EXCEPT ![c] = y]
<1>1. /\ p = [r \in Control |-> p[r]] /\ q = [r \in Control |-> q[r]]
      /\ \A r \in Control : Honest(p[r], q[r])
  BY DEF Sees, WellFormed
<1>2. /\ [v EXCEPT !.ctl[c] = x] = [v EXCEPT !.ctl = p]
      /\ [a EXCEPT !.ctl[c] = y] = [a EXCEPT !.ctl = q]
  OBVIOUS
<1> HIDE DEF p, q
<1> QED
  BY <1>1, <1>2, NewControlSees

LEMMA WithFlagsSees ==
  ASSUME NEW v, NEW a, NEW exact, Sees(v, a, exact), NEW D,
         NEW x, NEW y, DOMAIN x = D, DOMAIN y = D, \A f \in D : Honest(x[f], y[f]),
         "MV" \in D => Tested(x) /\ Tested(y)
  PROVE  Sees(WithFlags(v, x), WithFlags(a, y), exact)
<1> DEFINE p == [f \in Flags |-> IF f \in D THEN x[f] ELSE v.flag[f]]
           q == [f \in Flags |-> IF f \in D THEN y[f] ELSE a.flag[f]]
<1>1. DOMAIN v.flag = Flags /\ DOMAIN a.flag = Flags
  BY DEF Sees, WellFormed, Flags
<1>2. WithFlags(v, x) = [v EXCEPT !.flag = p] /\ WithFlags(a, y) = [a EXCEPT !.flag = q]
  BY <1>1 DEF WithFlags
<1>3. "MV" \in Flags
  BY NamedBits
<1>4. /\ p = [f \in Flags |-> p[f]] /\ q = [f \in Flags |-> q[f]]
      /\ \A f \in Flags : Honest(p[f], q[f])
      /\ Tested(p) /\ Tested(q)
  BY <1>3 DEF Sees, Tested
<1> HIDE DEF p, q
<1> QED
  BY <1>2, <1>4, NewFlagsSee

LEMMA WithoutFlagsSees ==
  ASSUME NEW v, NEW a, NEW exact, Sees(v, a, exact), NEW D, NEW y, DOMAIN y = D,
         "MV" \in D => Tested(y)
  PROVE  /\ Sees(WithoutFlags(v, D), WithFlags(a, y), exact)
         /\ Sees(WithoutFlags(v, D), WithoutFlags(a, D), exact)
<1> DEFINE x == [f \in D |-> Unknown]
<1>1. DOMAIN x = D /\ (\A f \in D : Honest(x[f], y[f]) /\ Honest(x[f], x[f])) /\ ("MV" \in D => Tested(x))
  BY DEF Honest, Tested
<1>2. WithoutFlags(v, D) = WithFlags(v, x) /\ WithoutFlags(a, D) = WithFlags(a, x)
  BY DEF WithoutFlags
<1> HIDE DEF x
<1> QED
  BY <1>1, <1>2, WithFlagsSees

-----------------------------------------------------------------------------
(* The compute clause *)

\* An ALU function reads no operand and no carry it is not named after.
LEMMA AluReads ==
  ASSUME NEW f \in AluFunctions, NEW x, NEW y, NEW c, NEW p, NEW q, NEW d,
         f \notin YFunctions => x = p, f \notin XFunctions => y = q,
         f \in CarryFunctions => c = d
  PROVE  AluRaw(f, x, y, c) = AluRaw(f, p, q, d)
<1>1. CASE f \in {"Y", "Y+1", "NOT Y", "-Y", "Y-1"}
  BY <1>1 DEF AluRaw, XFunctions
<1>2. CASE f \in {"NOT X", "ABS"}
  BY <1>2 DEF AluRaw, YFunctions
<1>3. CASE f \in {"X+Y+C", "X-Y+C-1", "Y-X+C-1"}
  BY <1>3 DEF AluRaw, XFunctions, YFunctions, CarryFunctions
<1>4. CASE f \in {"X+Y", "X-Y", "Y-X", "AND", "OR", "XOR"}
  BY <1>4 DEF AluRaw, XFunctions, YFunctions
<1> QED
  BY <1>1, <1>2, <1>3, <1>4 DEF AluFunctions, YFunctions, XFunctions, CarryFunctions

Clauses == AluClauses \cup MacClauses

LEMMA ClauseFields ==
  ASSUME NEW c \in Clauses
  PROVE  /\ c.feedback \in BOOLEAN
         /\ c.x \in DREG
         /\ c.unit = "ALU" => /\ c.f \in AluFunctions
                              /\ c.y \in {"AY0", "AY1", "AF", "ZERO"}
         /\ c.unit = "MAC" => c.y \in {"MY0", "MY1", "MF", "ZERO"}
         /\ c.unit \in {"ALU", "MAC"}
<1>1. CASE c \in AluClauses
  BY <1>1 DEF AluClauses, AluX, DREG
<1>2. CASE c \in MacClauses
  BY <1>2 DEF MacClauses, MacX, DREG
<1> QED
  BY <1>1, <1>2 DEF Clauses

LEMMA OperandHonest ==
  ASSUME NEW b, NEW c, BankSees(b, c),
         NEW r \in DREG \cup {"AF", "MF", "ZERO"}
  PROVE  Honest(Operand(b, r), Operand(c, r))
<1>1. CASE r = "ZERO"
  BY <1>1 DEF Operand, Honest
<1>2. CASE r \in DREG
  BY <1>2, HonestDREG DEF Operand, DREG
<1>3. CASE r \in {"AF", "MF"}
  <2>1. Honest(b[r], c[r])
    BY <1>3 DEF BankSees, Banked
  <2> QED
    BY <1>3, <2>1 DEF Operand, DREG
<1> QED
  BY <1>1, <1>2, <1>3

\* A result the model knows is the processor's.
LEMMA AluKnownAgrees ==
  ASSUME NEW v, NEW a, Sees(v, a, Modes), NEW c \in Clauses, c.unit = "ALU", AluKnown(v, c)
  PROVE  AluKnown(a, c) /\ Sees(AluApplied(v, c), AluApplied(a, c), Modes)
<1> DEFINE b == Bank(v)
           d == Bank(a)
           x(m) == OrZero(Operand(Bank(m), c.x))
           y(m) == OrZero(Operand(Bank(m), c.y))
           r(m) == AluRaw(c.f, x(m), y(m), Number(OrFalse(m.flag["AC"])))
           stored(m) == IF ~c.feedback /\ m.mode["AR"] THEN Saturate(r(m)) ELSE r(m).raw
           latched(m) == m.mode["OL"] /\ OrFalse(m.flag["AV"])
           new(m) == [AZ |-> r(m).raw = 0, AN |-> Negative(r(m).raw, W),
                      AV |-> r(m).av \/ latched(m), AC |-> r(m).ac, AS |-> Negative(x(m), W)]
           flags(m) == [f \in AluFlags(c.f) |-> new(m)[f]]
           kept(m) == WithBank(m, StoreALU(Bank(m), c.feedback, stored(m)))
<1>1. /\ c.feedback \in BOOLEAN /\ c.f \in AluFunctions
      /\ c.x \in DREG \cup {"AF", "MF", "ZERO"} /\ c.y \in DREG \cup {"AF", "MF", "ZERO"}
  BY ClauseFields DEF DREG
<1>2. {"SR", "OL", "AR"} \subseteq Modes /\ {"AC", "AV"} \subseteq Flags
  BY NamedBits
<1>3. BankSees(b, d)
  BY <1>2, BankSeen
<1>4. Honest(Operand(b, c.x), Operand(d, c.x)) /\ Honest(Operand(b, c.y), Operand(d, c.y))
  BY <1>1, <1>3, OperandHonest
<1>5. v.mode["OL"] = a.mode["OL"] /\ v.mode["AR"] = a.mode["AR"]
  BY <1>2 DEF Sees
<1>6. Honest(v.flag["AC"], a.flag["AC"]) /\ Honest(v.flag["AV"], a.flag["AV"])
  BY <1>2 DEF Sees
<1>7. AluKnown(a, c)
  BY <1>4, <1>5, <1>6 DEF AluKnown, Honest, Known
<1>8. /\ c.f \notin YFunctions => x(v) = x(a)
      /\ c.f \notin XFunctions => y(v) = y(a)
      /\ c.f \in CarryFunctions => v.flag["AC"] = a.flag["AC"]
      /\ v.mode["OL"] => v.flag["AV"] = a.flag["AV"]
  BY <1>4, <1>6 DEF AluKnown, Honest, Known
<1>9. r(v) = r(a)
  <2> HIDE DEF x, y
  <2> QED
    BY <1>1, <1>8, AluReads
<1>10. latched(v) = latched(a)
  BY <1>5, <1>8
<1>11. stored(v) = stored(a) /\ Honest(stored(v), stored(a))
  <2> HIDE DEF r
  <2> QED
    BY <1>5, <1>9 DEF Honest
<1>12. \A f \in AluFlags(c.f) : new(v)[f] = new(a)[f]
  <2>1. c.f = "ABS" => c.f \notin YFunctions
    BY DEF YFunctions
  <2>2. c.f = "ABS" => x(v) = x(a)
    BY <1>8, <2>1
  <2> HIDE DEF x, r, latched
  <2> QED
    BY <1>9, <1>10, <2>2 DEF AluFlags
<1>13. "MV" \notin AluFlags(c.f)
  BY DEF AluFlags
<1> HIDE DEF stored
<1>14. Sees(kept(v), kept(a), Modes)
  <2>1. BankSees(StoreALU(b, c.feedback, stored(v)), StoreALU(d, c.feedback, stored(a)))
    BY <1>1, <1>3, <1>11, StoreALUSees
  <2> QED
    BY <1>2, <2>1, WithBankSees
<1> HIDE DEF new
<1>15. /\ DOMAIN flags(v) = AluFlags(c.f) /\ DOMAIN flags(a) = AluFlags(c.f)
       /\ \A f \in AluFlags(c.f) : Honest(flags(v)[f], flags(a)[f])
  BY <1>12 DEF Honest
<1> HIDE DEF flags, kept
<1>16. Sees(WithFlags(kept(v), flags(v)), WithFlags(kept(a), flags(a)), Modes)
  BY <1>13, <1>14, <1>15, WithFlagsSees
<1>17. /\ AluApplied(v, c) = WithFlags(kept(v), flags(v))
       /\ AluApplied(a, c) = WithFlags(kept(a), flags(a))
  BY DEF AluApplied, kept, flags, new, stored
<1> QED
  BY <1>7, <1>16, <1>17

LEMMA WholeHonest ==
  ASSUME NEW b, NEW c, BankSees(b, c)
  PROVE  Honest(WholeMR(b), WholeMR(c)) /\ Honest(WholeSR(b), WholeSR(c))
<1>1. \A d \in {"MR0", "MR1", "MR2", "SR0", "SR1"} : Honest(b[d], c[d])
  BY DEF BankSees, Banked, DREG
<1>2. Honest(WholeMR(b), WholeMR(c))
  BY <1>1 DEF WholeMR, Honest, Known
<1>3. Honest(WholeSR(b), WholeSR(c))
  BY <1>1 DEF WholeSR, Honest, Known
<1> QED
  BY <1>2, <1>3

LEMMA MacKnownAgrees ==
  ASSUME NEW v, NEW a, Sees(v, a, Modes), NEW c \in Clauses, c.unit = "MAC", MacKnown(v, c)
  PROVE  MacKnown(a, c) /\ Sees(MacApplied(v, c), MacApplied(a, c), Modes)
<1> DEFINE b == Bank(v)
           d == Bank(a)
           r(m) == Mac(c.f, Operand(Bank(m), c.x), Operand(Bank(m), c.y),
                       OrZero(WholeMR(Bank(m))))
           flags(m) == [MV |-> MacOverflow(r(m))]
           kept(m) == WithBank(m, StoreMAC(Bank(m), c.feedback, r(m)))
<1>1. /\ c.feedback \in BOOLEAN
      /\ c.x \in DREG \cup {"AF", "MF", "ZERO"} /\ c.y \in DREG \cup {"AF", "MF", "ZERO"}
  BY ClauseFields DEF DREG
<1>2. "SR" \in Modes
  BY NamedBits
<1>3. BankSees(b, d)
  BY <1>2, BankSeen
<1>4. Honest(Operand(b, c.x), Operand(d, c.x)) /\ Honest(Operand(b, c.y), Operand(d, c.y))
  BY <1>1, <1>3, OperandHonest
<1>5. Honest(WholeMR(b), WholeMR(d))
  BY <1>3, WholeHonest
<1>6. Operand(b, c.x) = Operand(d, c.x) /\ Operand(b, c.y) = Operand(d, c.y)
  BY <1>4 DEF MacKnown, Honest, Known
<1>7. c.f.op # 1 => WholeMR(b) = WholeMR(d)
  BY <1>5 DEF MacKnown, Honest, Known
<1>8. MacKnown(a, c)
  BY <1>6, <1>7 DEF MacKnown
<1>9. r(v) = r(a)
  <2>1. CASE c.f.op = 1
    BY <1>6, <2>1 DEF Mac
  <2>2. CASE c.f.op # 1
    BY <1>6, <1>7, <2>2
  <2> QED
    BY <2>1, <2>2
<1> HIDE DEF r
<1>10. Sees(kept(v), kept(a), Modes)
  <2>1. BankSees(StoreMAC(b, c.feedback, r(v)), StoreMAC(d, c.feedback, r(a)))
    BY <1>1, <1>3, <1>9, StoreMACSees DEF Honest
  <2> QED
    BY <1>2, <2>1, WithBankSees
<1>11. /\ DOMAIN flags(v) = {"MV"} /\ DOMAIN flags(a) = {"MV"}
       /\ \A f \in {"MV"} : Honest(flags(v)[f], flags(a)[f])
       /\ Tested(flags(v)) /\ Tested(flags(a))
  BY <1>9 DEF Honest, Tested, MacOverflow
<1> HIDE DEF flags, kept
<1>12. Sees(WithFlags(kept(v), flags(v)), WithFlags(kept(a), flags(a)), Modes)
  BY <1>10, <1>11, WithFlagsSees
<1>13. /\ MacApplied(v, c) = WithFlags(kept(v), flags(v))
       /\ MacApplied(a, c) = WithFlags(kept(a), flags(a))
  BY DEF MacApplied, kept, flags, r
<1> QED
  BY <1>8, <1>12, <1>13

\* A bank that has lost what a unit writes says nothing against any result, nor
\* against none.
LEMMA BlankBank ==
  ASSUME NEW b, NEW c, BankSees(b, c), NEW feedback \in BOOLEAN
  PROVE  /\ BankSees(StoreALU(b, feedback, Unknown), c)
         /\ BankSees(StoreMAC(b, feedback, Unknown), c)
         /\ BankSees(StoreSR(b, Unknown), c)
         /\ BankSees(StoreSB(b, Unknown), c)
         /\ BankSees([b EXCEPT !["SE"] = Unknown], c)
<1>1. ASSUME NEW e, BankSees(e, c), NEW r \in Banked
      PROVE  BankSees([e EXCEPT ![r] = Unknown], c)
  BY <1>1 DEF BankSees, Honest
<1>2. {"AF", "AR", "MF", "MR0", "MR1", "MR2", "SR0", "SR1", "SE", "SB"} \subseteq Banked
  BY DEF Banked, DREG
<1> DEFINE one(e, r) == [e EXCEPT ![r] = Unknown]
<1>3. \A e, r : BankSees(e, c) /\ r \in Banked => BankSees(one(e, r), c)
  BY <1>1
<1>4. /\ StoreALU(b, feedback, Unknown) = one(b, IF feedback THEN "AF" ELSE "AR")
      /\ StoreMAC(b, feedback, Unknown) =
           IF feedback THEN one(b, "MF") ELSE one(one(one(b, "MR0"), "MR1"), "MR2")
      /\ StoreSR(b, Unknown) = one(one(b, "SR0"), "SR1")
      /\ StoreSB(b, Unknown) = one(b, "SB")
      /\ [b EXCEPT !["SE"] = Unknown] = one(b, "SE")
  BY DEF StoreALU, StoreMAC, StoreSR, StoreSB, Narrow, Lifted, Known
<1> HIDE DEF one
<1>5. BankSees(StoreALU(b, feedback, Unknown), c)
  <2>1. (IF feedback THEN "AF" ELSE "AR") \in Banked
    BY <1>2
  <2> QED
    BY <1>3, <1>4, <2>1
<1>6. BankSees(StoreMAC(b, feedback, Unknown), c)
  <2>1. BankSees(one(b, "MF"), c)
    BY <1>2, <1>3
  <2>2. BankSees(one(one(one(b, "MR0"), "MR1"), "MR2"), c)
    BY <1>2, <1>3
  <2> QED
    BY <1>4, <2>1, <2>2
<1>7. BankSees(one(one(b, "SR0"), "SR1"), c) /\ BankSees(one(b, "SB"), c) /\ BankSees(one(b, "SE"), c)
  BY <1>2, <1>3
<1> QED
  BY <1>4, <1>5, <1>6, <1>7

LEMMA BlankFlagsSee ==
  ASSUME NEW v, NEW a, NEW exact, Sees(v, a, exact), NEW D
  PROVE  Sees(WithoutFlags(v, D), WithoutFlags(a, D), exact)
<1> DEFINE y == [f \in D |-> Unknown]
<1>1. DOMAIN y = D /\ ("MV" \in D => Tested(y))
  BY DEF Tested
<1> HIDE DEF y
<1> QED
  BY <1>1, WithoutFlagsSees

LEMMA WithBankBelow ==
  ASSUME NEW v, NEW a, NEW exact, Sees(v, a, exact), "SR" \in exact,
         NEW b, BankSees(b, Bank(a))
  PROVE  Sees(WithBank(v, b), a, exact)
<1>1. Selected(v) = Selected(a) /\ Selected(v) \in 0..1
  BY BankSeen
<1> DEFINE p == WithBank(v, b)
<1>2. WellFormed(v) /\ b = [r \in Banked |-> b[r]]
  BY DEF Sees, BankSees
<1>3. /\ WellFormed(p) /\ p.flag = v.flag /\ p.mode = v.mode /\ p.ctl = v.ctl
      /\ \A k \in 0..1 : p.bank[k] = IF k = Selected(v) THEN b ELSE v.bank[k]
  BY <1>2, WithBankShape
<1> HIDE DEF p
<1>4. Sees(p, a, exact)
  BY <1>1, <1>3 DEF Sees, Bank
<1> QED
  BY <1>4 DEF p

LEMMA WithoutFlagsBelow ==
  ASSUME NEW v, NEW a, NEW exact, Sees(v, a, exact), NEW D
  PROVE  Sees(WithoutFlags(v, D), a, exact)
<1> DEFINE x == [f \in Flags |-> IF f \in D THEN Unknown ELSE v.flag[f]]
           p == [v EXCEPT !.flag = x]
<1>1. DOMAIN v.flag = Flags /\ "MV" \in Flags
  BY NamedBits DEF Sees, WellFormed, Flags
<1>2. WithoutFlags(v, D) = p
  BY <1>1 DEF WithoutFlags, WithFlags
<1>3. Tested(x) /\ \A f \in Flags : Honest(x[f], a.flag[f])
  BY <1>1 DEF Sees, Tested, Honest
<1>4. x = [f \in Flags |-> x[f]] /\ WellFormed(v)
  BY DEF Sees
<1> HIDE DEF x
<1>5. WellFormed(p) /\ p.flag = x /\ p.bank = v.bank /\ p.mode = v.mode /\ p.ctl = v.ctl
  BY <1>4, NewFlags
<1> HIDE DEF p
<1>6. Sees(p, a, exact)
  BY <1>3, <1>5 DEF Sees
<1> QED
  BY <1>2, <1>6

\* An undecided result is honest about the result, about itself and about no result.
LEMMA ClauseUnknownSees ==
  ASSUME NEW v, NEW a, Sees(v, a, Modes), NEW c \in Clauses
  PROVE  Sees(ClauseUnknown(v, c), a, Modes)
<1>1. "SR" \in Modes /\ c.feedback \in BOOLEAN
  BY NamedBits, ClauseFields
<1>2. BankSees(Bank(v), Bank(a))
  BY <1>1, BankSeen
<1>3. Sees(WithBank(v, StoreMAC(Bank(v), c.feedback, Unknown)), a, Modes)
  BY <1>1, <1>2, BlankBank, WithBankBelow
<1>4. Sees(WithBank(v, StoreALU(Bank(v), c.feedback, Unknown)), a, Modes)
  BY <1>1, <1>2, BlankBank, WithBankBelow
<1> QED
  BY <1>3, <1>4, WithoutFlagsBelow DEF ClauseUnknown, MacUnknown, AluUnknown

LEMMA ClauseUnknownSeesResult ==
  ASSUME NEW v, NEW a, Sees(v, a, Modes), NEW c \in Clauses
  PROVE  Sees(ClauseUnknown(v, c), Compute(a, c), Modes)
<1>1. "SR" \in Modes /\ c.feedback \in BOOLEAN /\ c.unit \in {"ALU", "MAC"}
  BY NamedBits, ClauseFields
<1>2. BankSees(Bank(v), Bank(a))
  BY <1>1, BankSeen
<1>3. CASE c.unit = "ALU"
  <2> DEFINE kept(x) == WithBank(a, StoreALU(Bank(a), c.feedback, x))
             blank == WithBank(v, StoreALU(Bank(v), c.feedback, Unknown))
  <2>1. ASSUME NEW x, NEW y, DOMAIN y = AluFlags(c.f)
        PROVE  Sees(WithoutFlags(blank, AluFlags(c.f)), WithFlags(kept(x), y), Modes)
    <3>1. BankSees(StoreALU(Bank(v), c.feedback, Unknown), StoreALU(Bank(a), c.feedback, x))
      BY <1>1, <1>2, StoreALUSees DEF Honest
    <3>2. Sees(blank, kept(x), Modes)
      BY <1>1, <3>1, WithBankSees
    <3>3. "MV" \notin AluFlags(c.f)
      BY DEF AluFlags
    <3> HIDE DEF blank, kept
    <3> QED
      BY <2>1, <3>2, <3>3, WithoutFlagsSees
  <2>2. ClauseUnknown(v, c) = WithoutFlags(blank, AluFlags(c.f))
    BY <1>3 DEF ClauseUnknown, AluUnknown
  <2>3. \/ Compute(a, c) = AluApplied(a, c)
        \/ Compute(a, c) = WithoutFlags(kept(Unknown), AluFlags(c.f))
    BY <1>3 DEF Compute, ClauseUnknown, AluUnknown
  <2>4. \E x, y : DOMAIN y = AluFlags(c.f) /\ AluApplied(a, c) = WithFlags(kept(x), y)
    <3> DEFINE x == OrZero(Operand(Bank(a), c.x))
               r == AluRaw(c.f, x, OrZero(Operand(Bank(a), c.y)), Number(OrFalse(a.flag["AC"])))
               stored == IF ~c.feedback /\ a.mode["AR"] THEN Saturate(r) ELSE r.raw
               new == [AZ |-> r.raw = 0, AN |-> Negative(r.raw, W),
                       AV |-> r.av \/ (a.mode["OL"] /\ OrFalse(a.flag["AV"])),
                       AC |-> r.ac, AS |-> Negative(x, W)]
               y == [f \in AluFlags(c.f) |-> new[f]]
    <3>1. AluApplied(a, c) = WithFlags(kept(stored), y)
      BY DEF AluApplied
    <3> HIDE DEF kept, stored, new
    <3>2. DOMAIN y = AluFlags(c.f)
      OBVIOUS
    <3> HIDE DEF y
    <3> QED
      BY <3>1, <3>2
  <2>5. WithoutFlags(kept(Unknown), AluFlags(c.f)) =
          WithFlags(kept(Unknown), [f \in AluFlags(c.f) |-> Unknown])
    BY DEF WithoutFlags
  <2>6. DOMAIN [f \in AluFlags(c.f) |-> Unknown] = AluFlags(c.f)
    OBVIOUS
  <2>7. Sees(WithoutFlags(blank, AluFlags(c.f)), WithoutFlags(kept(Unknown), AluFlags(c.f)), Modes)
    BY <2>1, <2>5, <2>6
  <2> HIDE DEF blank, kept
  <2> QED
    BY <2>1, <2>2, <2>3, <2>4, <2>7
<1>4. CASE c.unit = "MAC"
  <2> DEFINE kept(x) == WithBank(a, StoreMAC(Bank(a), c.feedback, x))
             blank == WithBank(v, StoreMAC(Bank(v), c.feedback, Unknown))
  <2>1. ASSUME NEW x, NEW y, DOMAIN y = {"MV"}, Tested(y)
        PROVE  Sees(WithoutFlags(blank, {"MV"}), WithFlags(kept(x), y), Modes)
    <3>1. BankSees(StoreMAC(Bank(v), c.feedback, Unknown), StoreMAC(Bank(a), c.feedback, x))
      BY <1>1, <1>2, StoreMACSees DEF Honest
    <3>2. Sees(blank, kept(x), Modes)
      BY <1>1, <3>1, WithBankSees
    <3> HIDE DEF blank, kept
    <3> QED
      BY <2>1, <3>2, WithoutFlagsSees
  <2>2. ClauseUnknown(v, c) = WithoutFlags(blank, {"MV"})
    BY <1>4 DEF ClauseUnknown, MacUnknown
  <2>3. \/ Compute(a, c) = MacApplied(a, c)
        \/ Compute(a, c) = WithoutFlags(kept(Unknown), {"MV"})
    BY <1>4 DEF Compute, ClauseUnknown, MacUnknown
  <2>4. \E x, y : /\ DOMAIN y = {"MV"} /\ Tested(y)
                  /\ MacApplied(a, c) = WithFlags(kept(x), y)
    <3> DEFINE r == Mac(c.f, Operand(Bank(a), c.x), Operand(Bank(a), c.y),
                        OrZero(WholeMR(Bank(a))))
               y == [MV |-> MacOverflow(r)]
    <3>1. MacApplied(a, c) = WithFlags(kept(r), y)
      BY DEF MacApplied
    <3> HIDE DEF kept, r
    <3>2. DOMAIN y = {"MV"} /\ Tested(y)
      BY DEF Tested, MacOverflow
    <3> HIDE DEF y
    <3> QED
      BY <3>1, <3>2
  <2>5. WithoutFlags(kept(Unknown), {"MV"}) =
          WithFlags(kept(Unknown), [f \in {"MV"} |-> Unknown])
    BY DEF WithoutFlags
  <2>6. DOMAIN [f \in {"MV"} |-> Unknown] = {"MV"} /\ Tested([f \in {"MV"} |-> Unknown])
    BY DEF Tested
  <2>7. Sees(WithoutFlags(blank, {"MV"}), WithoutFlags(kept(Unknown), {"MV"}), Modes)
    BY <2>1, <2>5, <2>6
  <2> HIDE DEF blank, kept
  <2> QED
    BY <2>1, <2>2, <2>3, <2>4, <2>7
<1> QED
  BY <1>1, <1>3, <1>4

LEMMA ClauseUnknownSeesItself ==
  ASSUME NEW v, NEW a, Sees(v, a, Modes), NEW c \in Clauses
  PROVE  Sees(ClauseUnknown(v, c), ClauseUnknown(a, c), Modes)
<1>1. "SR" \in Modes /\ c.feedback \in BOOLEAN
  BY NamedBits, ClauseFields
<1>2. BankSees(Bank(v), Bank(a))
  BY <1>1, BankSeen
<1>3. CASE c.unit = "MAC"
  <2> DEFINE p == WithBank(v, StoreMAC(Bank(v), c.feedback, Unknown))
             q == WithBank(a, StoreMAC(Bank(a), c.feedback, Unknown))
  <2>1. Sees(p, q, Modes)
    BY <1>1, <1>2, StoreMACSees, WithBankSees DEF Honest
  <2> HIDE DEF p, q
  <2>2. Sees(WithoutFlags(p, {"MV"}), WithoutFlags(q, {"MV"}), Modes)
    BY <2>1, BlankFlagsSee
  <2> QED
    BY <1>3, <2>2 DEF ClauseUnknown, MacUnknown, p, q
<1>4. CASE c.unit # "MAC"
  <2> DEFINE p == WithBank(v, StoreALU(Bank(v), c.feedback, Unknown))
             q == WithBank(a, StoreALU(Bank(a), c.feedback, Unknown))
  <2>1. Sees(p, q, Modes)
    BY <1>1, <1>2, StoreALUSees, WithBankSees DEF Honest
  <2> HIDE DEF p, q
  <2>2. Sees(WithoutFlags(p, AluFlags(c.f)), WithoutFlags(q, AluFlags(c.f)), Modes)
    BY <2>1, BlankFlagsSee
  <2> QED
    BY <1>4, <2>2 DEF ClauseUnknown, AluUnknown, p, q
<1> QED
  BY <1>3, <1>4

LEMMA ComputeSees ==
  ASSUME NEW v, NEW a, Sees(v, a, Modes), NEW c \in Clauses
  PROVE  Sees(Compute(v, c), Compute(a, c), Modes)
<1>1. c.unit \in {"ALU", "MAC"}
  BY ClauseFields
<1>2. CASE c.unit = "ALU" /\ AluKnown(v, c)
  <2>1. AluKnown(a, c) /\ Sees(AluApplied(v, c), AluApplied(a, c), Modes)
    BY <1>2, AluKnownAgrees
  <2> QED
    BY <1>2, <2>1 DEF Compute
<1>3. CASE c.unit = "MAC" /\ MacKnown(v, c)
  <2>1. MacKnown(a, c) /\ Sees(MacApplied(v, c), MacApplied(a, c), Modes)
    BY <1>3, MacKnownAgrees
  <2> QED
    BY <1>3, <2>1 DEF Compute
<1>4. CASE ~(c.unit = "ALU" /\ AluKnown(v, c)) /\ ~(c.unit = "MAC" /\ MacKnown(v, c))
  <2>1. Compute(v, c) = ClauseUnknown(v, c)
    BY <1>4 DEF Compute
  <2> QED
    BY <2>1, ClauseUnknownSeesResult
<1> QED
  BY <1>2, <1>3, <1>4

LEMMA MoveSees ==
  ASSUME NEW v, NEW a, NEW exact, Sees(v, a, exact), "SR" \in exact,
         NEW w, NEW b, Sees(w, b, exact), NEW i, i.dst \in DREG, i.src \in DREG
  PROVE  Sees(MoveDREG(w, v, i), MoveDREG(b, a, i), exact)
<1>1. BankSees(Bank(v), Bank(a)) /\ BankSees(Bank(w), Bank(b))
  BY BankSeen
<1>2. Honest(ReadDREG(Bank(v), i.src), ReadDREG(Bank(a), i.src))
  BY <1>1, HonestDREG
<1>3. BankSees(StoreDREG(Bank(w), i.dst, ReadDREG(Bank(v), i.src)),
               StoreDREG(Bank(b), i.dst, ReadDREG(Bank(a), i.src)))
  BY <1>1, <1>2, StoreDREGSees
<1> QED
  BY <1>3, WithBankSees DEF MoveDREG

LEMMA Type8Sees ==
  ASSUME NEW v, NEW a, Sees(v, a, Modes), NEW i \in Type8
  PROVE  Sees(Type8Retired(v, i), Type8Retired(a, i), Modes)
<1>1. i.clause \in Clauses /\ i.dst \in DREG /\ i.src \in DREG /\ "SR" \in Modes
  BY NamedBits DEF Type8, Type8With, Clauses
<1>2. Sees(Compute(v, i.clause), Compute(a, i.clause), Modes)
  BY <1>1, ComputeSees
<1> QED
  BY <1>1, <1>2, MoveSees DEF Type8Retired

-----------------------------------------------------------------------------
(* Conditions *)

\* The counter is tested alike.
TestsAlike(code, n, k) == code = "NOT CE" => n = k

LEMMA ConditionFlags ==
  ASSUME NEW code \in ConditionCodes, NEW x, NEW y, NEW n, NEW k,
         \A f \in FlagsOf(code) : x[f] = y[f], TestsAlike(code, n, k)
  PROVE  IfCondition(code, x, n) = IfCondition(code, y, k)
<1>1. CASE code \in {"EQ", "NE"}
  BY <1>1 DEF IfCondition, FlagsOf
<1>2. CASE code \in {"GT", "LE"}
  BY <1>2 DEF IfCondition, FlagsOf
<1>3. CASE code \in {"LT", "GE"}
  BY <1>3 DEF IfCondition, FlagsOf
<1>4. CASE code \in {"AV", "NOT AV", "AC", "NOT AC", "NEG", "POS", "MV", "NOT MV"}
  BY <1>4 DEF IfCondition, FlagsOf
<1>5. CASE code \in {"NOT CE", "TRUE"}
  BY <1>5 DEF IfCondition, TestsAlike
<1> QED
  BY <1>1, <1>2, <1>3, <1>4, <1>5 DEF ConditionCodes

LEMMA ConditionDecided ==
  ASSUME NEW code \in ConditionCodes, NEW x, NEW n \in BOOLEAN,
         \A f \in FlagsOf(code) : x[f] \in BOOLEAN
  PROVE  IfCondition(code, x, n) \in BOOLEAN
<1>1. CASE code \in {"EQ", "NE", "GT", "LE", "LT", "GE", "NOT AV", "NOT AC", "NEG", "POS", "NOT MV"}
  BY <1>1 DEF IfCondition, FlagsOf
<1>2. CASE code \in {"AV", "AC", "MV"}
  BY <1>2 DEF IfCondition, FlagsOf
<1>3. CASE code \in {"NOT CE", "TRUE"}
  BY <1>3 DEF IfCondition
<1> QED
  BY <1>1, <1>2, <1>3 DEF ConditionCodes

\* A condition the model decides is decided as the processor does.
ConditionAgrees(v, a, code, n, k) ==
  /\ Condition(v, code, n) \in {TRUE, FALSE, Unknown}
  /\ Known(Condition(v, code, n)) => Condition(a, code, k) = Condition(v, code, n)

LEMMA ConditionSees ==
  ASSUME NEW v, NEW a, NEW exact, Sees(v, a, exact), NEW code \in ConditionCodes,
         NEW n \in BOOLEAN, NEW k \in BOOLEAN, TestsAlike(code, n, k)
  PROVE  ConditionAgrees(v, a, code, n, k)
<1> DEFINE flags(m) == [f \in DOMAIN m.flag |-> OrFalse(m.flag[f])]
           decided(m) == \A f \in FlagsOf(code) : Known(m.flag[f])
<1>1. FlagsOf(code) \subseteq Flags /\ DOMAIN v.flag = Flags /\ DOMAIN a.flag = Flags
  <2>1. FlagsOf(code) \subseteq Flags
    BY NamedBits DEF FlagsOf
  <2> QED
    BY <2>1 DEF Sees, WellFormed, Flags
<1>2. Known(n) /\ Known(k) /\ OrFalse(n) = n /\ OrFalse(k) = k
  BY ArchitectureConstants DEF Known, OrFalse
<1>3. \A f \in FlagsOf(code) : flags(v)[f] \in BOOLEAN
  BY <1>1 DEF OrFalse
<1>4. decided(v) => decided(a) /\ \A f \in FlagsOf(code) : flags(v)[f] = flags(a)[f]
  BY <1>1 DEF Sees, Honest, Known
<1> HIDE DEF flags
<1>5. /\ decided(v) => Condition(v, code, n) = IfCondition(code, flags(v), n)
      /\ decided(a) => Condition(a, code, k) = IfCondition(code, flags(a), k)
      /\ ~decided(v) => Condition(v, code, n) = Unknown
  BY <1>2 DEF Condition, flags
<1>6. IfCondition(code, flags(v), n) \in BOOLEAN
  BY <1>3, ConditionDecided
<1>7. decided(v) => IfCondition(code, flags(v), n) = IfCondition(code, flags(a), k)
  <2> SUFFICES ASSUME decided(v)
               PROVE  IfCondition(code, flags(v), n) = IfCondition(code, flags(a), k)
    OBVIOUS
  <2>1. \A f \in FlagsOf(code) : flags(v)[f] = flags(a)[f]
    BY <1>4
  <2> QED
    BY <2>1, ConditionFlags
<1> HIDE DEF decided
<1> QED
  BY <1>4, <1>5, <1>6, <1>7 DEF ConditionAgrees, Known

LEMMA Type9Sees ==
  ASSUME NEW v, NEW a, Sees(v, a, Modes), NEW i \in Type9, NEW n \in BOOLEAN, NEW k \in BOOLEAN,
         TestsAlike(i.condition, n, k)
  PROVE  Sees(Type9Retired(v, i, n), Type9Retired(a, i, k), Modes)
<1>1. CASE i.clause.unit = "NOP"
  BY <1>1 DEF Type9Retired
<1>2. CASE i.clause.unit # "NOP"
  <2>1. i.clause \in Clauses /\ i.condition \in ConditionCodes
    <3>1. CASE i \in Type9With(AluClauses \cup MacClauses)
      BY <3>1 DEF Type9With, Clauses
    <3>2. CASE i \in Type9With({[unit |-> "NOP"]})
      <4>1. i.clause = [unit |-> "NOP"]
        BY <3>2 DEF Type9With
      <4> QED
        BY <1>2, <4>1
    <3> QED
      BY <3>1, <3>2 DEF Type9
  <2> DEFINE shown == Condition(v, i.condition, n)
             holds == Condition(a, i.condition, k)
  <2>2. shown \in {TRUE, FALSE, Unknown} /\ (Known(shown) => holds = shown)
    <3>1. ConditionAgrees(v, a, i.condition, n, k)
      BY <2>1, ConditionSees
    <3> QED
      BY <3>1 DEF ConditionAgrees
  <2>3. /\ Sees(ClauseUnknown(v, i.clause), a, Modes)
        /\ Sees(ClauseUnknown(v, i.clause), Compute(a, i.clause), Modes)
        /\ Sees(Compute(v, i.clause), Compute(a, i.clause), Modes)
    BY <2>1, ClauseUnknownSees, ClauseUnknownSeesResult, ComputeSees
  <2>4. Sees(ClauseUnknown(v, i.clause), ClauseUnknown(a, i.clause), Modes)
    <3>1. Sees(a, a, Modes)
      BY SeesEach
    <3> QED
      BY <2>1, ClauseUnknownSeesItself
  <2>5. \A m, t : Type9Retired(m, i, t) =
          LET c == Condition(m, i.condition, t)
          IN IF ~Known(c) THEN ClauseUnknown(m, i.clause)
             ELSE IF c = FALSE THEN m ELSE Compute(m, i.clause)
    BY <1>2, ArchitectureConstants DEF Type9Retired, Known
  <2> HIDE DEF shown, holds
  <2> QED
    BY <2>2, <2>3, <2>4, <2>5 DEF shown, holds
<1> QED
  BY <1>1, <1>2

-----------------------------------------------------------------------------
(* The shifter clause *)

Shifters == ShiftFunctions \cup DetectFunctions

LEMMA ShifterOps ==
  ASSUME NEW f \in Shifters
  PROVE  /\ IsShift(f) <=> f.op \in {"LSHIFT", "ASHIFT", "NORM"}
         /\ ~IsShift(f) => f.op \in {"EXP HI", "EXP HIX", "EXP LO", "EXPADJ"}
<1>1. f \in ShiftFunctions => f.op \in {"LSHIFT", "ASHIFT", "NORM"}
  BY DEF ShiftFunctions
<1>2. f \in DetectFunctions => f.op \in {"EXP HI", "EXP HIX", "EXP LO", "EXPADJ"}
  BY DEF DetectFunctions
<1> QED
  BY <1>1, <1>2 DEF Shifters, IsShift

WithSE(m, y) == WithBank(m, [Bank(m) EXCEPT !["SE"] = y])

\* What a shifter clause, decided or not, may leave of a machine.
Outcome(m, f, o) ==
  \/ o = m
  \/ IsShift(f) /\ \E y : o = WithBank(m, StoreSR(Bank(m), y))
  \/ /\ f.op \in {"EXP HI", "EXP HIX"}
     /\ \E y, z : DOMAIN z = {"SS"} /\ o = WithFlags(WithSE(m, y), z)
  \/ /\ f.op = "EXP LO" /\ Bank(m)["SE"] \in {Unknown, AllSign}
     /\ \E y : o = WithSE(m, y)
  \/ f.op = "EXPADJ" /\ \E y : o = WithBank(m, StoreSB(Bank(m), y))

LEMMA UnknownOutcome ==
  ASSUME NEW m, NEW f \in Shifters
  PROVE  Outcome(m, f, ShifterUnknown(m, f))
<1>1. CASE IsShift(f)
  BY <1>1, ShifterOps DEF ShifterUnknown, Outcome
<1>2. CASE f.op \in {"EXP HI", "EXP HIX"}
  <2> DEFINE z == [s \in {"SS"} |-> Unknown]
  <2>1. ~IsShift(f)
    BY <1>2, ShifterOps
  <2>2. ShifterUnknown(m, f) = WithFlags(WithSE(m, Unknown), z)
    BY <1>2, <2>1 DEF ShifterUnknown, WithoutFlags, WithSE
  <2>3. DOMAIN z = {"SS"}
    OBVIOUS
  <2> HIDE DEF z
  <2> QED
    BY <1>2, <2>2, <2>3 DEF Outcome
<1>3. CASE f.op = "EXP LO"
  <2>1. ~IsShift(f)
    BY <1>3, ShifterOps
  <2>2. \/ ShifterUnknown(m, f) = m
        \/ /\ Bank(m)["SE"] \in {Unknown, AllSign}
           /\ ShifterUnknown(m, f) = WithSE(m, Unknown)
    BY <1>3, <2>1 DEF ShifterUnknown, WithSE
  <2> QED
    BY <1>3, <2>2 DEF Outcome
<1>4. CASE f.op = "EXPADJ"
  <2>1. ~IsShift(f)
    BY <1>4, ShifterOps
  <2> QED
    BY <1>4, <2>1 DEF ShifterUnknown, Outcome
<1> QED
  BY <1>1, <1>2, <1>3, <1>4, ShifterOps

LEMMA DetectedOutcome ==
  ASSUME NEW m, NEW se, NEW ss
  PROVE  \E y, z : DOMAIN z = {"SS"} /\ Detected(m, se, ss) = WithFlags(WithSE(m, y), z)
<1> DEFINE z == [SS |-> ss]
           y == se % 2 ^ Exponent
<1>1. Detected(m, se, ss) = WithFlags(WithSE(m, y), z)
  BY DEF Detected, WithSE
<1>2. DOMAIN z = {"SS"}
  OBVIOUS
<1> HIDE DEF y, z
<1> QED
  BY <1>1, <1>2

LEMMA AppliedOutcome ==
  ASSUME NEW m, NEW f \in Shifters, NEW x, NEW shift
  PROVE  Outcome(m, f, ShifterApplied(m, f, x, shift))
<1> DEFINE o == ShifterApplied(m, f, x, shift)
           v == ReadDREG(Bank(m), x)
<1>1. CASE IsShift(f)
  <2> DEFINE y == Shift(f, v, Signed(shift, Exponent), OrZero(WholeSR(Bank(m))),
                        OrFalse(m.flag["AC"]))
  <2>1. o = WithBank(m, StoreSR(Bank(m), y))
    BY <1>1, ShifterOps DEF ShifterApplied
  <2> HIDE DEF y, o
  <2> QED
    BY <1>1, <2>1 DEF Outcome, o
<1>2. CASE f.op \in {"EXP HI", "EXP HIX"}
  <2>1. ~IsShift(f)
    BY <1>2, ShifterOps
  <2>2. o = Detected(m, 1, ~Negative(v, W)) \/ o = Detected(m, HiExponent(v), Negative(v, W))
    BY <1>2, <2>1 DEF ShifterApplied
  <2> HIDE DEF o
  <2>3. \E y, z : DOMAIN z = {"SS"} /\ o = WithFlags(WithSE(m, y), z)
    BY <2>2, DetectedOutcome
  <2>4. Outcome(m, f, o)
    BY <1>2, <2>3 DEF Outcome
  <2> QED
    BY <2>4 DEF o
<1>3. CASE f.op = "EXP LO"
  <2> DEFINE y == LoExponent(v, m.flag["SS"]) % 2 ^ Exponent
  <2>1. ~IsShift(f)
    BY <1>3, ShifterOps
  <2>2. o = m \/ (Bank(m)["SE"] = AllSign /\ o = WithSE(m, y))
    BY <1>3, <2>1 DEF ShifterApplied, WithSE
  <2> HIDE DEF o, y
  <2> QED
    BY <1>3, <2>2 DEF Outcome, o
<1>4. CASE f.op = "EXPADJ"
  <2>1. ~IsShift(f)
    BY <1>4, ShifterOps
  <2>2. o = m \/ o = WithBank(m, StoreSB(Bank(m), HiExponent(v)))
    BY <1>4, <2>1 DEF ShifterApplied
  <2> HIDE DEF o
  <2> QED
    BY <1>4, <2>2 DEF Outcome, o
<1> QED
  BY <1>1, <1>2, <1>3, <1>4, ShifterOps

LEMMA ShifterUnknownSees ==
  ASSUME NEW v, NEW a, NEW exact, Sees(v, a, exact), "SR" \in exact, NEW f \in Shifters,
         NEW o, Outcome(a, f, o)
  PROVE  Sees(ShifterUnknown(v, f), o, exact)
<1> DEFINE b == Bank(v)
           c == Bank(a)
           p == ShifterUnknown(v, f)
<1>1. BankSees(b, c)
  BY BankSeen
<1>2. "SE" \in Banked /\ "SB" \in Banked
  BY DEF Banked, DREG
<1>3. CASE IsShift(f)
  <2>1. p = WithBank(v, StoreSR(b, Unknown))
    BY <1>3, ShifterOps DEF ShifterUnknown
  <2>2. o = a \/ \E y : o = WithBank(a, StoreSR(c, y))
    BY <1>3, ShifterOps DEF Outcome
  <2>3. Sees(p, a, exact)
    BY <1>1, <2>1, BlankBank, WithBankBelow
  <2>4. ASSUME NEW y PROVE Sees(p, WithBank(a, StoreSR(c, y)), exact)
    <3>1. BankSees(StoreSR(b, Unknown), StoreSR(c, y))
      BY <1>1, StoreSRSees DEF Honest
    <3> QED
      BY <2>1, <3>1, WithBankSees
  <2> QED
    BY <2>2, <2>3, <2>4
<1>4. CASE f.op \in {"EXP HI", "EXP HIX"}
  <2>1. ~IsShift(f)
    BY <1>4, ShifterOps
  <2>2. p = WithoutFlags(WithSE(v, Unknown), {"SS"})
    BY <1>4, <2>1 DEF ShifterUnknown, WithSE
  <2>3. o = a \/ \E y, z : DOMAIN z = {"SS"} /\ o = WithFlags(WithSE(a, y), z)
    BY <1>4, <2>1 DEF Outcome
  <2>4. Sees(p, a, exact)
    <3>1. Sees(WithSE(v, Unknown), a, exact)
      BY <1>1, BlankBank, WithBankBelow DEF WithSE
    <3> QED
      BY <2>2, <3>1, WithoutFlagsBelow
  <2>5. ASSUME NEW y, NEW z, DOMAIN z = {"SS"}
        PROVE  Sees(p, WithFlags(WithSE(a, y), z), exact)
    <3>1. BankSees([b EXCEPT !["SE"] = Unknown], [c EXCEPT !["SE"] = y])
      BY <1>1, <1>2, StoreOne DEF Honest
    <3>2. Sees(WithSE(v, Unknown), WithSE(a, y), exact)
      BY <3>1, WithBankSees DEF WithSE
    <3>3. "MV" \notin {"SS"}
      OBVIOUS
    <3>4. Sees(WithoutFlags(WithSE(v, Unknown), {"SS"}), WithFlags(WithSE(a, y), z), exact)
      BY <2>5, <3>2, <3>3, WithoutFlagsSees
    <3> QED
      BY <2>2, <3>4
  <2> QED
    BY <2>3, <2>4, <2>5
<1>5. CASE f.op = "EXP LO"
  <2>1. ~IsShift(f)
    BY <1>5, ShifterOps
  <2>2. o = a \/ (c["SE"] \in {Unknown, AllSign} /\ \E y : o = WithSE(a, y))
    BY <1>5, <2>1 DEF Outcome
  <2>3. CASE b["SE"] \in {Unknown, AllSign}
    <3>1. p = WithSE(v, Unknown)
      BY <1>5, <2>1, <2>3 DEF ShifterUnknown, WithSE
    <3>2. Sees(p, a, exact)
      BY <1>1, <3>1, BlankBank, WithBankBelow DEF WithSE
    <3>3. ASSUME NEW y PROVE Sees(p, WithSE(a, y), exact)
      <4>1. BankSees([b EXCEPT !["SE"] = Unknown], [c EXCEPT !["SE"] = y])
        BY <1>1, <1>2, StoreOne DEF Honest
      <4> QED
        BY <3>1, <4>1, WithBankSees DEF WithSE
    <3> QED
      BY <2>2, <3>2, <3>3
  <2>4. CASE b["SE"] \notin {Unknown, AllSign}
    <3>1. p = v
      BY <1>5, <2>1, <2>4 DEF ShifterUnknown
    <3>2. c["SE"] = b["SE"]
      BY <1>1, <1>2, <2>4 DEF BankSees, Honest
    <3> QED
      BY <2>2, <2>4, <3>1, <3>2
  <2> QED
    BY <2>3, <2>4
<1>6. CASE f.op = "EXPADJ"
  <2>1. ~IsShift(f)
    BY <1>6, ShifterOps
  <2>2. p = WithBank(v, StoreSB(b, Unknown))
    BY <1>6, <2>1 DEF ShifterUnknown
  <2>3. o = a \/ \E y : o = WithBank(a, StoreSB(c, y))
    BY <1>6, <2>1 DEF Outcome
  <2>4. Sees(p, a, exact)
    BY <1>1, <2>2, BlankBank, WithBankBelow
  <2>5. ASSUME NEW y PROVE Sees(p, WithBank(a, StoreSB(c, y)), exact)
    <3>1. BankSees(StoreSB(b, Unknown), StoreSB(c, y))
      BY <1>1, StoreSBSees DEF Honest
    <3> QED
      BY <2>2, <3>1, WithBankSees
  <2> QED
    BY <2>3, <2>4, <2>5
<1> QED
  BY <1>3, <1>4, <1>5, <1>6, ShifterOps

LEMMA ShiftReads ==
  ASSUME NEW f, NEW x, NEW shift, NEW r, NEW s, NEW c, NEW d,
         f.op \in {"LSHIFT", "ASHIFT", "NORM"}, f.or => r = s,
         f.op = "NORM" /\ f.high => c = d
  PROVE  Shift(f, x, shift, r, c) = Shift(f, x, shift, s, d)
<1>1. CASE f.op = "LSHIFT"
  BY <1>1 DEF Shift
<1>2. CASE f.op = "ASHIFT"
  BY <1>2 DEF Shift
<1>3. CASE f.op = "NORM"
  <2> DEFINE o(e) == Shifted(x, -shift, f.high, e)
             merged(m, p) == IF f.or THEN FromBits(Bits(m, 2 * W) \cup Bits(p, 2 * W)) ELSE p
  <2>1. \A m, k : Shift(f, x, shift, m, k) = merged(m, o(f.high /\ k))
    BY <1>3 DEF Shift
  <2>2. (f.high /\ c) = (f.high /\ d)
    BY <1>3
  <2> HIDE DEF o
  <2>3. o(f.high /\ c) = o(f.high /\ d)
    BY <2>2
  <2>4. \A p : merged(r, p) = merged(s, p)
    OBVIOUS
  <2> HIDE DEF merged
  <2> QED
    BY <2>1, <2>3, <2>4
<1> QED
  BY <1>1, <1>2, <1>3

LEMMA ShifterKnownAgrees ==
  ASSUME NEW v, NEW a, NEW exact, Sees(v, a, exact), "SR" \in exact, NEW f \in Shifters,
         NEW x \in ShifterX, NEW s, NEW t, Honest(s, t), ShifterKnown(v, f, x, s)
  PROVE  /\ ShifterKnown(a, f, x, t)
         /\ Sees(ShifterApplied(v, f, x, s), ShifterApplied(a, f, x, t), exact)
<1> DEFINE b == Bank(v)
           c == Bank(a)
           w == ReadDREG(b, x)
<1>1. BankSees(b, c)
  BY BankSeen
<1>2. "SE" \in Banked /\ "SB" \in Banked /\ x \in DREG
  BY DEF Banked, DREG, ShifterX
<1>3. /\ Honest(w, ReadDREG(c, x)) /\ Honest(WholeSR(b), WholeSR(c))
      /\ Honest(b["SE"], c["SE"]) /\ Honest(b["SB"], c["SB"])
  BY <1>1, <1>2, HonestDREG, WholeHonest DEF BankSees
<1>4. \A g \in {"AC", "AV", "SS"} : Honest(v.flag[g], a.flag[g])
  BY NamedBits DEF Sees
<1>5. ReadDREG(c, x) = w
  BY <1>3 DEF ShifterKnown, Honest, Known
<1>6. IsShift(f) => /\ s = t
                    /\ f.or => WholeSR(b) = WholeSR(c)
                    /\ f.op = "NORM" /\ f.high => v.flag["AC"] = a.flag["AC"]
  BY <1>3, <1>4 DEF ShifterKnown, Honest, Known
<1>7. f.op = "EXP HIX" => v.flag["AV"] = a.flag["AV"]
  BY <1>4 DEF ShifterKnown, Honest, Known
<1>8. f.op = "EXP LO" => b["SE"] = c["SE"] /\ (b["SE"] = AllSign => v.flag["SS"] = a.flag["SS"])
  BY <1>3, <1>4 DEF ShifterKnown, Honest, Known
<1>9. f.op = "EXPADJ" => b["SB"] = c["SB"]
  BY <1>3 DEF ShifterKnown, Honest, Known
<1>10. ShifterKnown(a, f, x, t)
  <2>1. Known(w)
    BY DEF ShifterKnown
  <2>2. IsShift(f) => /\ Known(t)
                      /\ f.or => Known(WholeSR(c))
                      /\ f.op = "NORM" /\ f.high => Known(a.flag["AC"])
    BY <1>6 DEF ShifterKnown
  <2>3. f.op = "EXP HIX" => Known(a.flag["AV"])
    BY <1>7 DEF ShifterKnown
  <2>4. f.op = "EXP LO" => Known(c["SE"]) /\ (c["SE"] = AllSign => Known(a.flag["SS"]))
    BY <1>8 DEF ShifterKnown
  <2>5. f.op = "EXPADJ" => Known(c["SB"])
    BY <1>9 DEF ShifterKnown
  <2> QED
    BY <1>5, <2>1, <2>2, <2>3, <2>4, <2>5 DEF ShifterKnown
<1> DEFINE p == ShifterApplied(v, f, x, s)
           q == ShifterApplied(a, f, x, t)
<1>11. CASE IsShift(f)
  <2> DEFINE y(m, r) == Shift(f, w, Signed(r, Exponent), OrZero(WholeSR(Bank(m))),
                              OrFalse(m.flag["AC"]))
  <2>1. /\ p = WithBank(v, StoreSR(b, y(v, s)))
        /\ q = WithBank(a, StoreSR(c, y(a, t)))
    BY <1>5, <1>11, ShifterOps DEF ShifterApplied
  <2>2. y(v, s) = y(a, t)
    <3> DEFINE r(m) == OrZero(WholeSR(Bank(m)))
               g(m) == OrFalse(m.flag["AC"])
    <3>1. /\ s = t /\ (f.or => r(v) = r(a)) /\ f.op \in {"LSHIFT", "ASHIFT", "NORM"}
          /\ f.op = "NORM" /\ f.high => g(v) = g(a)
      BY <1>6, <1>11, ShifterOps
    <3> HIDE DEF r, g
    <3>2. Shift(f, w, Signed(s, Exponent), r(v), g(v)) = Shift(f, w, Signed(s, Exponent), r(a), g(a))
      BY <3>1, ShiftReads
    <3> QED
      BY <3>1, <3>2 DEF r, g
  <2> HIDE DEF y
  <2>3. BankSees(StoreSR(b, y(v, s)), StoreSR(c, y(a, t)))
    BY <1>1, <2>2, StoreSRSees DEF Honest
  <2> QED
    BY <1>10, <2>1, <2>3, WithBankSees
<1>12. ASSUME NEW se, NEW ss
       PROVE  Sees(Detected(v, se, ss), Detected(a, se, ss), exact)
  <2> DEFINE y == se % 2 ^ Exponent
             z == [SS |-> ss]
  <2>1. BankSees([b EXCEPT !["SE"] = y], [c EXCEPT !["SE"] = y])
    BY <1>1, <1>2, StoreOne DEF Honest
  <2>2. Sees(WithSE(v, y), WithSE(a, y), exact)
    BY <2>1, WithBankSees DEF WithSE
  <2>3. DOMAIN z = {"SS"} /\ Honest(z["SS"], z["SS"]) /\ "MV" \notin {"SS"}
    BY DEF Honest
  <2>4. Detected(v, se, ss) = WithFlags(WithSE(v, y), z)
    BY DEF Detected, WithSE
  <2>5. Detected(a, se, ss) = WithFlags(WithSE(a, y), z)
    BY DEF Detected, WithSE
  <2> HIDE DEF y, z
  <2>6. Sees(WithFlags(WithSE(v, y), z), WithFlags(WithSE(a, y), z), exact)
    BY <2>2, <2>3, WithFlagsSees
  <2> QED
    BY <2>4, <2>5, <2>6
<1>13. CASE f.op \in {"EXP HI", "EXP HIX"}
  <2>1. ~IsShift(f)
    BY <1>13, ShifterOps
  <2>2. \/ p = Detected(v, 1, ~Negative(w, W)) /\ q = Detected(a, 1, ~Negative(w, W))
        \/ /\ p = Detected(v, HiExponent(w), Negative(w, W))
           /\ q = Detected(a, HiExponent(w), Negative(w, W))
    BY <1>5, <1>7, <1>13, <2>1 DEF ShifterApplied
  <2> HIDE DEF p, q
  <2> QED
    BY <1>10, <1>12, <2>2 DEF p, q
<1>14. CASE f.op = "EXP LO"
  <2> DEFINE y == LoExponent(w, v.flag["SS"]) % 2 ^ Exponent
  <2>1. ~IsShift(f)
    BY <1>14, ShifterOps
  <2>2. CASE b["SE"] = AllSign
    <3>1. p = WithSE(v, y) /\ q = WithSE(a, y)
      BY <1>5, <1>8, <1>14, <2>1, <2>2 DEF ShifterApplied, WithSE
    <3> HIDE DEF y
    <3>2. BankSees([b EXCEPT !["SE"] = y], [c EXCEPT !["SE"] = y])
      BY <1>1, <1>2, StoreOne DEF Honest
    <3> QED
      BY <1>10, <3>1, <3>2, WithBankSees DEF WithSE
  <2>3. CASE b["SE"] # AllSign
    <3>1. p = v /\ q = a
      BY <1>8, <1>14, <2>1, <2>3 DEF ShifterApplied
    <3> QED
      BY <1>10, <3>1
  <2> QED
    BY <2>2, <2>3
<1>15. CASE f.op = "EXPADJ"
  <2>1. ~IsShift(f)
    BY <1>15, ShifterOps
  <2>2. \/ p = v /\ q = a
        \/ /\ p = WithBank(v, StoreSB(b, HiExponent(w)))
           /\ q = WithBank(a, StoreSB(c, HiExponent(w)))
    BY <1>5, <1>9, <1>15, <2>1 DEF ShifterApplied
  <2>3. BankSees(StoreSB(b, HiExponent(w)), StoreSB(c, HiExponent(w)))
    BY <1>1, StoreSBSees DEF Honest
  <2>4. Sees(WithBank(v, StoreSB(b, HiExponent(w))), WithBank(a, StoreSB(c, HiExponent(w))), exact)
    BY <2>3, WithBankSees
  <2> HIDE DEF p, q
  <2> QED
    BY <1>10, <2>2, <2>4 DEF p, q
<1> QED
  BY <1>11, <1>13, <1>14, <1>15, ShifterOps

LEMMA ShifterSees ==
  ASSUME NEW v, NEW a, NEW exact, Sees(v, a, exact), "SR" \in exact, NEW f \in Shifters,
         NEW x \in ShifterX, NEW s, NEW t, Honest(s, t)
  PROVE  /\ Sees(ShifterClause(v, f, x, s), ShifterClause(a, f, x, t), exact)
         /\ Sees(ShifterUnknown(v, f), ShifterClause(a, f, x, t), exact)
         /\ Sees(ShifterUnknown(v, f), ShifterUnknown(a, f), exact)
         /\ Sees(ShifterUnknown(v, f), a, exact)
<1>1. Outcome(a, f, ShifterClause(a, f, x, t))
  BY AppliedOutcome, UnknownOutcome DEF ShifterClause
<1>2. Outcome(a, f, a)
  BY DEF Outcome
<1>3. Outcome(a, f, ShifterUnknown(a, f))
  BY UnknownOutcome
<1>4. /\ Sees(ShifterUnknown(v, f), ShifterClause(a, f, x, t), exact)
      /\ Sees(ShifterUnknown(v, f), ShifterUnknown(a, f), exact)
      /\ Sees(ShifterUnknown(v, f), a, exact)
  BY <1>1, <1>2, <1>3, ShifterUnknownSees
<1>5. CASE ShifterKnown(v, f, x, s)
  <2>1. /\ ShifterKnown(a, f, x, t)
        /\ Sees(ShifterApplied(v, f, x, s), ShifterApplied(a, f, x, t), exact)
    BY <1>5, ShifterKnownAgrees
  <2> QED
    BY <1>4, <1>5, <2>1 DEF ShifterClause
<1>6. CASE ~ShifterKnown(v, f, x, s)
  BY <1>4, <1>6 DEF ShifterClause
<1> QED
  BY <1>5, <1>6

LEMMA Type14Sees ==
  ASSUME NEW v, NEW a, NEW exact, Sees(v, a, exact), "SR" \in exact, NEW i \in Type14
  PROVE  Sees(Type14Retired(v, i), Type14Retired(a, i), exact)
<1>1. i.f \in Shifters /\ i.x \in ShifterX /\ i.dst \in DREG /\ i.src \in DREG
  BY DEF Type14, Shifters
<1>2. Honest(Bank(v)["SE"], Bank(a)["SE"])
  BY BankSeen DEF BankSees, Banked, DREG
<1>3. Sees(ShifterClause(v, i.f, i.x, Bank(v)["SE"]), ShifterClause(a, i.f, i.x, Bank(a)["SE"]), exact)
  BY <1>1, <1>2, ShifterSees
<1> QED
  BY <1>1, <1>3, MoveSees DEF Type14Retired

LEMMA Type15Sees ==
  ASSUME NEW v, NEW a, NEW exact, Sees(v, a, exact), "SR" \in exact, NEW i \in Type15
  PROVE  Sees(Type15Retired(v, i), Type15Retired(a, i), exact)
<1>1. i.f \in Shifters /\ i.x \in ShifterX
  BY DEF Type15, Shifters
<1>2. Honest(i.shift, i.shift)
  BY DEF Honest
<1> QED
  BY <1>1, <1>2, ShifterSees DEF Type15Retired

LEMMA Type16Sees ==
  ASSUME NEW v, NEW a, NEW exact, Sees(v, a, exact), "SR" \in exact, NEW i \in Type16,
         NEW n \in BOOLEAN, NEW k \in BOOLEAN, TestsAlike(i.condition, n, k)
  PROVE  Sees(Type16Retired(v, i, n), Type16Retired(a, i, k), exact)
<1>1. i.f \in Shifters /\ i.x \in ShifterX /\ i.condition \in ConditionCodes
  BY DEF Type16, Shifters
<1>2. Honest(Bank(v)["SE"], Bank(a)["SE"])
  BY BankSeen DEF BankSees, Banked, DREG
<1> DEFINE shown == Condition(v, i.condition, n)
           holds == Condition(a, i.condition, k)
<1>3. shown \in {TRUE, FALSE, Unknown} /\ (Known(shown) => holds = shown)
  <2>1. ConditionAgrees(v, a, i.condition, n, k)
    BY <1>1, ConditionSees
  <2> QED
    BY <2>1 DEF ConditionAgrees
<1>4. holds \in {TRUE, FALSE, Unknown}
  <2>1. Sees(a, a, Modes) /\ TestsAlike(i.condition, k, k)
    BY SeesEach DEF TestsAlike
  <2>2. ConditionAgrees(a, a, i.condition, k, k)
    BY <1>1, <2>1, ConditionSees
  <2> QED
    BY <2>2 DEF ConditionAgrees
<1>5. /\ Sees(ShifterClause(v, i.f, i.x, Bank(v)["SE"]), ShifterClause(a, i.f, i.x, Bank(a)["SE"]), exact)
      /\ Sees(ShifterUnknown(v, i.f), ShifterClause(a, i.f, i.x, Bank(a)["SE"]), exact)
      /\ Sees(ShifterUnknown(v, i.f), ShifterUnknown(a, i.f), exact)
      /\ Sees(ShifterUnknown(v, i.f), a, exact)
  BY <1>1, <1>2, ShifterSees
<1> HIDE DEF shown, holds
<1>6. /\ Type16Retired(v, i, n) =
           CASE shown = Unknown -> ShifterUnknown(v, i.f)
             [] shown = FALSE -> v
             [] shown = TRUE -> ShifterClause(v, i.f, i.x, Bank(v)["SE"])
      /\ Type16Retired(a, i, k) =
           CASE holds = Unknown -> ShifterUnknown(a, i.f)
             [] holds = FALSE -> a
             [] holds = TRUE -> ShifterClause(a, i.f, i.x, Bank(a)["SE"])
  BY DEF Type16Retired, shown, holds
<1>7. Unknown \notin BOOLEAN
  BY ArchitectureConstants
<1>8. CASE shown = Unknown
  BY <1>4, <1>5, <1>6, <1>7, <1>8
<1>9. CASE shown = FALSE
  BY <1>3, <1>6, <1>7, <1>9 DEF Known
<1>10. CASE shown = TRUE
  BY <1>3, <1>5, <1>6, <1>7, <1>10 DEF Known
<1> QED
  BY <1>3, <1>8, <1>9, <1>10

-----------------------------------------------------------------------------
(* Division and saturation *)

LEMMA DividedSees ==
  ASSUME NEW v, NEW a, NEW exact, Sees(v, a, exact), "SR" \in exact, NEW s, NEW t,
         Honest(s.af, t.af), Honest(s.ay0, t.ay0), Honest(s.aq, t.aq)
  PROVE  Sees(Divided(v, s), Divided(a, t), exact)
<1> DEFINE p == WithBank(v, [Bank(v) EXCEPT !["AF"] = s.af, !["AY0"] = s.ay0])
           q == WithBank(a, [Bank(a) EXCEPT !["AF"] = t.af, !["AY0"] = t.ay0])
           x == [AQ |-> s.aq]
           y == [AQ |-> t.aq]
<1>1. BankSees(Bank(v), Bank(a)) /\ "AF" \in Banked /\ "AY0" \in Banked
  BY BankSeen DEF Banked, DREG
<1>2. BankSees([Bank(v) EXCEPT !["AF"] = s.af, !["AY0"] = s.ay0],
               [Bank(a) EXCEPT !["AF"] = t.af, !["AY0"] = t.ay0])
  BY <1>1, StoreTwoSees
<1>3. Sees(p, q, exact)
  BY <1>2, WithBankSees
<1>4. /\ DOMAIN x = {"AQ"} /\ DOMAIN y = {"AQ"} /\ "MV" \notin {"AQ"}
      /\ \A f \in {"AQ"} : Honest(x[f], y[f])
  OBVIOUS
<1>5. Divided(v, s) = WithFlags(p, x) /\ Divided(a, t) = WithFlags(q, y)
  BY DEF Divided
<1> HIDE DEF p, q, x, y
<1>6. Sees(WithFlags(p, x), WithFlags(q, y), exact)
  BY <1>3, <1>4, WithFlagsSees
<1> QED
  BY <1>5, <1>6

LEMMA DivisionUnknownSees ==
  ASSUME NEW v, NEW a, NEW exact, Sees(v, a, exact), "SR" \in exact, NEW t
  PROVE  /\ Sees(DivisionUnknown(v), Divided(a, t), exact)
         /\ Sees(DivisionUnknown(v), DivisionUnknown(a), exact)
<1> DEFINE s == [af |-> Unknown, ay0 |-> Unknown, aq |-> Unknown]
<1>1. /\ Honest(s.af, t.af) /\ Honest(s.ay0, t.ay0) /\ Honest(s.aq, t.aq)
      /\ Honest(s.af, s.af) /\ Honest(s.ay0, s.ay0) /\ Honest(s.aq, s.aq)
  BY DEF Honest
<1>2. DivisionUnknown(v) = Divided(v, s) /\ DivisionUnknown(a) = Divided(a, s)
  BY DEF DivisionUnknown
<1> HIDE DEF s
<1> QED
  BY <1>1, <1>2, DividedSees

LEMMA Type24Sees ==
  ASSUME NEW v, NEW a, NEW exact, Sees(v, a, exact), "SR" \in exact, NEW i \in Type24
  PROVE  Sees(Type24Retired(v, i), Type24Retired(a, i), exact)
<1> DEFINE b == Bank(v)
           c == Bank(a)
           s(e) == DivideSign(e[i.y], e["AY0"], ReadDREG(e, i.x))
           known(e) == Known(ReadDREG(e, i.x)) /\ Known(e[i.y]) /\ Known(e["AY0"])
<1>1. BankSees(b, c) /\ i.x \in DREG /\ i.y \in Banked /\ "AY0" \in Banked
  BY BankSeen DEF Banked, DREG, Type24, AluX
<1>2. /\ Honest(ReadDREG(b, i.x), ReadDREG(c, i.x)) /\ Honest(b[i.y], c[i.y])
      /\ Honest(b["AY0"], c["AY0"])
  BY <1>1, HonestDREG DEF BankSees
<1>3. known(b) => known(c) /\ s(b) = s(c)
  BY <1>2 DEF Honest, Known
<1>4. /\ Type24Retired(v, i) = IF known(b) THEN Divided(v, s(b)) ELSE DivisionUnknown(v)
      /\ Type24Retired(a, i) = IF known(c) THEN Divided(a, s(c)) ELSE DivisionUnknown(a)
  BY DEF Type24Retired
<1> HIDE DEF s, known
<1>5. \A t : Sees(Divided(v, t), Divided(a, t), exact)
  BY DividedSees DEF Honest
<1> QED
  BY <1>3, <1>4, <1>5, DivisionUnknownSees

LEMMA Type23Sees ==
  ASSUME NEW v, NEW a, NEW exact, Sees(v, a, exact), "SR" \in exact, NEW i \in Type23
  PROVE  Sees(Type23Retired(v, i), Type23Retired(a, i), exact)
<1> DEFINE s(m) == DivideStep([af |-> Bank(m)["AF"], ay0 |-> Bank(m)["AY0"],
                               aq |-> m.flag["AQ"]], ReadDREG(Bank(m), i.x))
           known(m) == /\ Known(ReadDREG(Bank(m), i.x)) /\ Known(Bank(m)["AF"])
                       /\ Known(Bank(m)["AY0"]) /\ Known(m.flag["AQ"])
<1>1. /\ BankSees(Bank(v), Bank(a)) /\ i.x \in DREG /\ "AF" \in Banked /\ "AY0" \in Banked
      /\ "AQ" \in Flags
  BY BankSeen, NamedBits DEF Banked, DREG, Type23, AluX
<1>2. /\ Honest(ReadDREG(Bank(v), i.x), ReadDREG(Bank(a), i.x))
      /\ Honest(Bank(v)["AF"], Bank(a)["AF"]) /\ Honest(Bank(v)["AY0"], Bank(a)["AY0"])
      /\ Honest(v.flag["AQ"], a.flag["AQ"])
  BY <1>1, HonestDREG DEF BankSees, Sees
<1>3. known(v) => known(a) /\ s(v) = s(a)
  BY <1>2 DEF Honest, Known
<1>4. /\ Type23Retired(v, i) = IF known(v) THEN Divided(v, s(v)) ELSE DivisionUnknown(v)
      /\ Type23Retired(a, i) = IF known(a) THEN Divided(a, s(a)) ELSE DivisionUnknown(a)
  BY DEF Type23Retired
<1> HIDE DEF s, known
<1>5. \A t : Sees(Divided(v, t), Divided(a, t), exact)
  BY DividedSees DEF Honest
<1> QED
  BY <1>3, <1>4, <1>5, DivisionUnknownSees

LEMMA Type25Sees ==
  ASSUME NEW v, NEW a, NEW exact, Sees(v, a, exact), "SR" \in exact, NEW i
  PROVE  Sees(Type25Retired(v, i), Type25Retired(a, i), exact)
<1> DEFINE stored(m, x) == WithBank(m, StoreMAC(Bank(m), FALSE, x))
           clamped(m) == IF Negative(Bank(m)["MR2"], Guard)
                           THEN NegativeSaturation ELSE PositiveSaturation
           written(m) == IF Known(Bank(m)["MR2"]) THEN clamped(m) ELSE Unknown
<1>1. BankSees(Bank(v), Bank(a)) /\ "MR2" \in Banked /\ "MV" \in Flags
  BY BankSeen, NamedBits DEF Banked, DREG
<1>2. /\ Honest(v.flag["MV"], a.flag["MV"])
      /\ v.flag["MV"] \in {TRUE, FALSE, Unknown} /\ a.flag["MV"] \in {TRUE, FALSE, Unknown}
  BY <1>1 DEF Sees, Tested
<1>3. Honest(written(v), written(a))
  BY <1>1 DEF BankSees, Honest, Known
<1>4. \A m : /\ m.flag["MV"] = Unknown => Type25Retired(m, i) = stored(m, Unknown)
             /\ m.flag["MV"] = TRUE => Type25Retired(m, i) = stored(m, written(m))
             /\ m.flag["MV"] = FALSE => Type25Retired(m, i) = m
  <2> TAKE m
  <2>1. CASE m.flag["MV"] = Unknown
    BY <2>1, ArchitectureConstants DEF Type25Retired
  <2>2. CASE m.flag["MV"] = FALSE
    BY <2>2, ArchitectureConstants DEF Type25Retired
  <2>3. CASE m.flag["MV"] = TRUE /\ Known(Bank(m)["MR2"])
    BY <2>3, ArchitectureConstants DEF Type25Retired
  <2>4. CASE m.flag["MV"] = TRUE /\ ~Known(Bank(m)["MR2"])
    BY <2>4, ArchitectureConstants DEF Type25Retired
  <2> HIDE DEF stored, written
  <2>5. Unknown # TRUE /\ Unknown # FALSE
    BY ArchitectureConstants
  <2> QED
    BY <2>1, <2>2, <2>3, <2>4, <2>5
<1> HIDE DEF written
<1>5. ASSUME NEW x, NEW y, Honest(x, y) PROVE Sees(stored(v, x), stored(a, y), exact)
  <2>1. BankSees(StoreMAC(Bank(v), FALSE, x), StoreMAC(Bank(a), FALSE, y))
    BY <1>1, <1>5, StoreMACSees
  <2> QED
    BY <2>1, WithBankSees
<1>6. Sees(stored(v, Unknown), a, exact)
  <2>1. BankSees(StoreMAC(Bank(v), FALSE, Unknown), Bank(a))
    BY <1>1, BlankBank
  <2> QED
    BY <2>1, WithBankBelow
<1>7. ASSUME NEW y PROVE Sees(stored(v, Unknown), stored(a, y), exact)
  <2>1. Honest(Unknown, y)
    BY DEF Honest
  <2> HIDE DEF stored
  <2> QED
    BY <1>5, <2>1
<1>8. Sees(stored(v, written(v)), stored(a, written(a)), exact)
  BY <1>3, <1>5
<1> HIDE DEF stored
<1>9. CASE v.flag["MV"] = Unknown
  <2>1. Type25Retired(v, i) = stored(v, Unknown)
    BY <1>4, <1>9
  <2>2. Type25Retired(a, i) = a \/ \E y : Type25Retired(a, i) = stored(a, y)
    BY <1>2, <1>4
  <2> QED
    BY <1>6, <1>7, <2>1, <2>2
<1>10. CASE v.flag["MV"] = TRUE /\ v.flag["MV"] # Unknown
  <2>1. a.flag["MV"] = TRUE
    BY <1>2, <1>10 DEF Honest
  <2>2. /\ Type25Retired(v, i) = stored(v, written(v))
        /\ Type25Retired(a, i) = stored(a, written(a))
    BY <1>4, <1>10, <2>1
  <2> QED
    BY <1>8, <2>2
<1>11. CASE v.flag["MV"] = FALSE /\ v.flag["MV"] # Unknown
  <2>1. a.flag["MV"] = FALSE
    BY <1>2, <1>11 DEF Honest
  <2>2. Type25Retired(v, i) = v /\ Type25Retired(a, i) = a
    BY <1>4, <1>11, <2>1
  <2> QED
    BY <2>2
<1> QED
  BY <1>2, <1>9, <1>10, <1>11

-----------------------------------------------------------------------------
(* Moves *)

LEMMA StatusWordHonest ==
  ASSUME NEW bits, NEW s, NEW t, \A b \in BitNames(bits) : Honest(s[b], t[b])
  PROVE  Honest(StatusWord(bits, s), StatusWord(bits, t))
<1> DEFINE known(r) == \A n \in DOMAIN bits : Known(r[bits[n]])
           ones(r) == {n - 1 : n \in {k \in DOMAIN bits : r[bits[k]]}}
<1>1. CASE known(s)
  <2>1. \A n \in DOMAIN bits : s[bits[n]] = t[bits[n]]
    BY <1>1 DEF Honest, Known, BitNames
  <2>2. known(t) /\ ones(s) = ones(t)
    BY <1>1, <2>1
  <2>3. /\ known(s) => StatusWord(bits, s) = FromBits(ones(s)) % 2 ^ W
        /\ known(t) => StatusWord(bits, t) = FromBits(ones(t)) % 2 ^ W
    BY DEF StatusWord
  <2> HIDE DEF known, ones
  <2> QED
    BY <1>1, <2>2, <2>3 DEF Honest
<1>2. CASE ~known(s)
  BY <1>2 DEF StatusWord, Honest
<1> QED
  BY <1>1, <1>2

LEMMA FromWordHonest ==
  ASSUME NEW bits, NEW v, NEW a, Honest(v, a)
  PROVE  /\ \A b \in BitNames(bits) : Honest(FromWord(bits, v)[b], FromWord(bits, a)[b])
         /\ FromWord(bits, v) = [b \in BitNames(bits) |-> FromWord(bits, v)[b]]
         /\ \A b \in BitNames(bits) : FromWord(bits, v)[b] \in {TRUE, FALSE, Unknown}
<1>1. CASE v = Unknown
  BY <1>1 DEF FromWord, Lifted, Known, Honest
<1>2. CASE v = a
  BY <1>2 DEF FromWord, Lifted, Known, Honest
<1> QED
  BY <1>1, <1>2 DEF Honest

LEMMA StatusMoveSees ==
  ASSUME NEW v, NEW a, NEW exact, Sees(v, a, exact), NEW x, NEW y, Honest(x, y)
  PROVE  /\ Sees([v EXCEPT !.flag = FromWord(ASTATBits, x)],
                 [a EXCEPT !.flag = FromWord(ASTATBits, y)], exact)
         /\ Sees([v EXCEPT !.mode = FromWord(MSTATBits, x)],
                 [a EXCEPT !.mode = FromWord(MSTATBits, y)], {})
         /\ x = y => Sees([v EXCEPT !.mode = FromWord(MSTATBits, x)],
                          [a EXCEPT !.mode = FromWord(MSTATBits, y)], exact)
<1>1. /\ \A f \in Flags : Honest(FromWord(ASTATBits, x)[f], FromWord(ASTATBits, y)[f])
      /\ FromWord(ASTATBits, x) = [f \in Flags |-> FromWord(ASTATBits, x)[f]]
      /\ FromWord(ASTATBits, y) = [f \in Flags |-> FromWord(ASTATBits, y)[f]]
      /\ Tested(FromWord(ASTATBits, x)) /\ Tested(FromWord(ASTATBits, y))
  <2>1. Honest(y, y) /\ "MV" \in Flags
    BY NamedBits DEF Honest
  <2> QED
    BY <2>1, FromWordHonest DEF Flags, Tested
<1>2. /\ \A b \in Modes : Honest(FromWord(MSTATBits, x)[b], FromWord(MSTATBits, y)[b])
      /\ FromWord(MSTATBits, x) = [b \in Modes |-> FromWord(MSTATBits, x)[b]]
      /\ FromWord(MSTATBits, y) = [b \in Modes |-> FromWord(MSTATBits, y)[b]]
  <2>1. Honest(y, y)
    BY DEF Honest
  <2> QED
    BY <2>1, FromWordHonest DEF Modes
<1>3. Sees([v EXCEPT !.flag = FromWord(ASTATBits, x)],
           [a EXCEPT !.flag = FromWord(ASTATBits, y)], exact)
  BY <1>1, NewFlagsSee
<1>4. Sees([v EXCEPT !.mode = FromWord(MSTATBits, x)],
           [a EXCEPT !.mode = FromWord(MSTATBits, y)], {})
  BY <1>2, NewModesSee
<1>5. ASSUME x = y
      PROVE  Sees([v EXCEPT !.mode = FromWord(MSTATBits, x)],
                  [a EXCEPT !.mode = FromWord(MSTATBits, y)], exact)
  BY <1>2, <1>5, NewModesSee
<1> QED
  BY <1>3, <1>4, <1>5

LEMMA ReadSees ==
  ASSUME NEW v, NEW a, NEW S, Sees(v, a, S), NEW r \in Movable
  PROVE  Honest(ReadRegister(v, r), ReadRegister(a, r))
<1>1. CASE InBank(r) /\ BankUnknown(v)
  BY <1>1 DEF ReadRegister, Honest, InBank, DREG, Control
<1>2. CASE InBank(r) /\ ~BankUnknown(v)
  <2>1. Sees(v, a, {"SR"})
    BY <1>2, KnowsMore, NamedBits DEF BankUnknown
  <2>2. BankSees(Bank(v), Bank(a)) /\ "SB" \in Banked
    BY <2>1, BankSeen DEF Banked
  <2>3. ~BankUnknown(a)
    BY <1>2, <2>1 DEF Sees, BankUnknown
  <2>4. CASE r \in DREG
    <3>1. ReadRegister(v, r) = ReadDREG(Bank(v), r) /\ ReadRegister(a, r) = ReadDREG(Bank(a), r)
      BY <1>2, <2>3, <2>4 DEF ReadRegister, DREG, Control
    <3> QED
      BY <2>2, <2>4, <3>1, HonestDREG
  <2>5. CASE r = "SB"
    <3>1. /\ ReadRegister(v, r) = Extended(Bank(v)["SB"], Block)
          /\ ReadRegister(a, r) = Extended(Bank(a)["SB"], Block)
      BY <1>2, <2>3, <2>5 DEF ReadRegister, DREG, Control
    <3>2. Honest(Bank(v)["SB"], Bank(a)["SB"])
      BY <2>2 DEF BankSees
    <3> QED
      BY <3>1, <3>2, HonestWords
  <2> QED
    BY <1>2, <2>4, <2>5 DEF InBank
<1>3. CASE r = "ASTAT"
  <2>1. /\ ReadRegister(v, r) = StatusWord(ASTATBits, v.flag)
        /\ ReadRegister(a, r) = StatusWord(ASTATBits, a.flag)
    BY <1>3 DEF ReadRegister, InBank, DREG, Control
  <2>2. \A f \in BitNames(ASTATBits) : Honest(v.flag[f], a.flag[f])
    BY DEF Sees, Flags
  <2> QED
    BY <2>1, <2>2, StatusWordHonest
<1>4. CASE r = "MSTAT"
  <2>1. /\ ReadRegister(v, r) = StatusWord(MSTATBits, v.mode)
        /\ ReadRegister(a, r) = StatusWord(MSTATBits, a.mode)
    BY <1>4 DEF ReadRegister, InBank, DREG, Control
  <2>2. \A b \in BitNames(MSTATBits) : Honest(v.mode[b], a.mode[b])
    BY DEF Sees, Modes
  <2> QED
    BY <2>1, <2>2, StatusWordHonest
<1>5. CASE r \in Control
  <2>1. Honest(v.ctl[r], a.ctl[r])
    BY <1>5 DEF Sees
  <2>2. \A m : ReadRegister(m, r) = IF r = "M" THEN Extended(m.ctl[r], Address)
                                    ELSE Narrow(m.ctl[r], W)
    BY <1>5 DEF ReadRegister, InBank, DREG, Control
  <2> QED
    BY <2>1, <2>2, HonestWords
<1> QED
  BY <1>1, <1>2, <1>3, <1>4, <1>5 DEF Movable, StatusRegister, InBank

LEMMA WriteSees ==
  ASSUME NEW v, NEW a, NEW exact, Sees(v, a, exact), NEW r \in Movable,
         NEW x, NEW y, Honest(x, y), "SR" \in exact \/ ~WriteRefused(v, r)
  PROVE  /\ Sees(WriteRegister(v, r, x), WriteRegister(a, r, y), {})
         /\ x = y \/ r # "MSTAT" => Sees(WriteRegister(v, r, x), WriteRegister(a, r, y), exact)
<1>1. ASSUME NEW p, NEW q, Sees(p, q, exact)
      PROVE  Sees(p, q, {})
  BY <1>1 DEF Sees
<1>2. CASE r = "ASTAT"
  <2>1. /\ WriteRegister(v, r, x) = [v EXCEPT !.flag = FromWord(ASTATBits, x)]
        /\ WriteRegister(a, r, y) = [a EXCEPT !.flag = FromWord(ASTATBits, y)]
    BY <1>2 DEF WriteRegister, DREG, Control
  <2>2. Sees([v EXCEPT !.flag = FromWord(ASTATBits, x)],
             [a EXCEPT !.flag = FromWord(ASTATBits, y)], exact)
    BY StatusMoveSees
  <2> QED
    BY <1>1, <2>1, <2>2
<1>3. CASE r = "MSTAT"
  <2>1. /\ WriteRegister(v, r, x) = [v EXCEPT !.mode = FromWord(MSTATBits, x)]
        /\ WriteRegister(a, r, y) = [a EXCEPT !.mode = FromWord(MSTATBits, y)]
    BY <1>3 DEF WriteRegister, DREG, Control
  <2>2. Sees([v EXCEPT !.mode = FromWord(MSTATBits, x)],
             [a EXCEPT !.mode = FromWord(MSTATBits, y)], {})
    BY StatusMoveSees
  <2>3. ASSUME x = y
        PROVE  Sees([v EXCEPT !.mode = FromWord(MSTATBits, x)],
                    [a EXCEPT !.mode = FromWord(MSTATBits, y)], exact)
    BY <2>3, StatusMoveSees
  <2> QED
    BY <1>3, <2>1, <2>2, <2>3
<1>4. CASE r \in Control
  <2>1. /\ WriteRegister(v, r, x) = [v EXCEPT !.ctl[r] = Narrow(x, Width[r])]
        /\ WriteRegister(a, r, y) = [a EXCEPT !.ctl[r] = Narrow(y, Width[r])]
    BY <1>4 DEF WriteRegister, DREG, Control
  <2>2. Honest(Narrow(x, Width[r]), Narrow(y, Width[r]))
    BY HonestWords
  <2>3. Sees([v EXCEPT !.ctl[r] = Narrow(x, Width[r])],
             [a EXCEPT !.ctl[r] = Narrow(y, Width[r])], exact)
    BY <1>4, <2>2, ControlSees
  <2> QED
    BY <1>1, <2>1, <2>3
<1>5. CASE InBank(r)
  <2> DEFINE e == exact \cup {"SR"}
  <2>1. Sees(v, a, e)
    <3>1. "SR" \in exact \/ (Known(v.mode["SR"]) /\ "SR" \in Modes)
      BY <1>5, NamedBits DEF WriteRefused, BankUnknown
    <3> QED
      BY <3>1 DEF Sees, Honest, Known
  <2>2. BankSees(Bank(v), Bank(a))
    BY <2>1, BankSeen
  <2>3. \E b, c : /\ BankSees(b, c)
                  /\ WriteRegister(v, r, x) = WithBank(v, b)
                  /\ WriteRegister(a, r, y) = WithBank(a, c)
    <3>1. CASE r \in DREG
      <4>1. BankSees(StoreDREG(Bank(v), r, x), StoreDREG(Bank(a), r, y))
        BY <2>2, <3>1, StoreDREGSees
      <4>2. /\ WriteRegister(v, r, x) = WithBank(v, StoreDREG(Bank(v), r, x))
            /\ WriteRegister(a, r, y) = WithBank(a, StoreDREG(Bank(a), r, y))
        BY <3>1 DEF WriteRegister, DREG, Control
      <4> QED
        BY <4>1, <4>2
    <3>2. CASE r = "SB"
      <4>1. BankSees(StoreSB(Bank(v), x), StoreSB(Bank(a), y))
        BY <2>2, StoreSBSees
      <4>2. /\ WriteRegister(v, r, x) = WithBank(v, StoreSB(Bank(v), x))
            /\ WriteRegister(a, r, y) = WithBank(a, StoreSB(Bank(a), y))
        BY <3>2 DEF WriteRegister, DREG, Control
      <4> QED
        BY <4>1, <4>2
    <3> QED
      BY <1>5, <3>1, <3>2 DEF InBank
  <2>4. PICK b, c : /\ BankSees(b, c)
                    /\ WriteRegister(v, r, x) = WithBank(v, b)
                    /\ WriteRegister(a, r, y) = WithBank(a, c)
    BY <2>3
  <2>5. Sees(WithBank(v, b), WithBank(a, c), e)
    BY <2>1, <2>4, WithBankSees
  <2>6. Sees(WithBank(v, b), WithBank(a, c), exact)
    BY <2>5 DEF Sees
  <2> QED
    BY <1>1, <2>4, <2>6
<1> QED
  BY <1>2, <1>3, <1>4, <1>5 DEF Movable, StatusRegister, InBank

LEMMA Type6Sees ==
  ASSUME NEW v, NEW a, NEW exact, Sees(v, a, exact), "SR" \in exact, NEW i \in Type6
  PROVE  Sees(Type6Retired(v, i), Type6Retired(a, i), exact)
<1>1. BankSees(Bank(v), Bank(a)) /\ i.dst \in DREG
  BY BankSeen DEF Type6
<1>2. BankSees(StoreDREG(Bank(v), i.dst, i.data), StoreDREG(Bank(a), i.dst, i.data))
  BY <1>1, StoreDREGSees DEF Honest
<1> QED
  BY <1>2, WithBankSees DEF Type6Retired

LEMMA Type7Sees ==
  ASSUME NEW v, NEW a, NEW exact, Sees(v, a, exact), NEW i \in Type7,
         "SR" \in exact \/ ~WriteRefused(v, i.dst)
  PROVE  Sees(Type7Retired(v, i), Type7Retired(a, i), {})
<1>1. i.dst \in Movable
  BY DEF Type7
<1> DEFINE x == i.data % 2 ^ Address
<1>2. Honest(x, x)
  BY DEF Honest
<1> HIDE DEF x
<1>3. Sees(WriteRegister(v, i.dst, x), WriteRegister(a, i.dst, x), {})
  BY <1>1, <1>2, WriteSees
<1> QED
  BY <1>3 DEF Type7Retired, x

LEMMA Type17Sees ==
  ASSUME NEW v, NEW a, NEW exact, Sees(v, a, exact), NEW i \in Type17,
         "SR" \in exact \/ ~WriteRefused(v, i.dst)
  PROVE  Sees(Type17Retired(v, i), Type17Retired(a, i), {})
<1>1. i.dst \in Movable /\ i.src \in Movable
  BY DEF Type17
<1>2. Honest(ReadRegister(v, i.src), ReadRegister(a, i.src))
  BY <1>1, ReadSees
<1> QED
  BY <1>1, <1>2, WriteSees DEF Type17Retired

LEMMA Type18Sees ==
  ASSUME NEW v, NEW a, NEW exact, exact \subseteq Modes, Sees(v, a, exact), NEW i
  PROVE  Sees(Type18Retired(v, i), Type18Retired(a, i), exact)
<1> DEFINE new(m) == [b \in Modes |-> IF i.modes[b] = "KEEP" THEN m.mode[b]
                                      ELSE i.modes[b] = "SET"]
<1>1. DOMAIN v.mode = Modes /\ DOMAIN a.mode = Modes
  BY DEF Sees, WellFormed, Modes
<1>2. /\ new(v) = [b \in Modes |-> new(v)[b]] /\ new(a) = [b \in Modes |-> new(a)[b]]
      /\ \A b \in Modes : Honest(new(v)[b], new(a)[b])
      /\ \A b \in exact : new(v)[b] = new(a)[b]
  BY DEF Sees, Honest
<1>3. Type18Retired(v, i) = [v EXCEPT !.mode = new(v)]
  BY <1>1 DEF Type18Retired
<1>4. Type18Retired(a, i) = [a EXCEPT !.mode = new(a)]
  BY <1>1 DEF Type18Retired
<1> HIDE DEF new
<1>5. Sees([v EXCEPT !.mode = new(v)], [a EXCEPT !.mode = new(a)], exact)
  BY <1>2, NewModesSee
<1> QED
  BY <1>3, <1>4, <1>5

LEMMA Type21Sees ==
  ASSUME NEW v, NEW a, NEW exact, Sees(v, a, exact), NEW i
  PROVE  Sees(Type21Retired(v, i), Type21Retired(a, i), exact)
<1> DEFINE next(m) == IF /\ Known(m.ctl["I"]) /\ Known(m.ctl["M"]) /\ Known(m.ctl["L"])
                         /\ ConfigurationValid(m.ctl["I"], m.ctl["M"], m.ctl["L"])
                        THEN NextAddress(m.ctl["I"], m.ctl["M"], m.ctl["L"]) ELSE Unknown
<1>1. {"I", "M", "L"} \subseteq Control
  BY DEF Control
<1>2. \A c \in {"I", "M", "L"} : Honest(v.ctl[c], a.ctl[c])
  BY <1>1 DEF Sees
<1>3. Honest(next(v), next(a))
  BY <1>2 DEF Honest, Known
<1>4. /\ Type21Retired(v, i) = [v EXCEPT !.ctl["I"] = next(v)]
      /\ Type21Retired(a, i) = [a EXCEPT !.ctl["I"] = next(a)]
  BY DEF Type21Retired, Modify
<1> HIDE DEF next
<1>5. Sees([v EXCEPT !.ctl["I"] = next(v)], [a EXCEPT !.ctl["I"] = next(a)], exact)
  BY <1>1, <1>3, ControlSees
<1> QED
  BY <1>4, <1>5

-----------------------------------------------------------------------------
(* Instructions *)

Types == Type6 \cup Type7 \cup Type8 \cup Type9 \cup Type14 \cup Type15 \cup Type16
           \cup Type17 \cup Type18 \cup Type21 \cup Type23 \cup Type24 \cup Type25

LEMMA ExecutableTypes ==
  ASSUME NEW i, Executable(i)
  PROVE  i \in Types
<1>1. CASE i.type = 8
  <2>1. i \in Type8With(ClausesLike(i.clause))
    BY <1>1 DEF Executable
  <2> QED
    BY <2>1 DEF Type8With, ClausesLike, Type8, Types
<1>2. CASE i.type = 9
  <2>1. i \in Type9With(ClausesLike(i.clause)) \/ i \in Type9With({[unit |-> "NOP"]})
    BY <1>2 DEF Executable
  <2>2. i \in Type9With(ClausesLike(i.clause)) => i \in Type9With(AluClauses \cup MacClauses)
    BY DEF Type9With, ClausesLike
  <2> QED
    BY <2>1, <2>2 DEF Type9, Types
<1>3. CASE i.type \notin {8, 9}
  BY <1>3 DEF Executable, Types
<1> QED
  BY <1>1, <1>2, <1>3

LEMMA TypeOf ==
  ASSUME NEW i \in Types
  PROVE  /\ i.type \in {6, 7, 8, 9, 14, 15, 16, 17, 18, 21, 23, 24, 25}
         /\ i.type = 6 => i \in Type6
         /\ i.type = 7 => i \in Type7
         /\ i.type = 8 => i \in Type8
         /\ i.type = 9 => i \in Type9
         /\ i.type = 14 => i \in Type14
         /\ i.type = 15 => i \in Type15
         /\ i.type = 16 => i \in Type16
         /\ i.type = 17 => i \in Type17
         /\ i.type = 23 => i \in Type23
         /\ i.type = 24 => i \in Type24
<1>1. /\ i \in Type6 => i.type = 6
      /\ i \in Type7 => i.type = 7
      /\ i \in Type8 => i.type = 8
      /\ i \in Type9 => i.type = 9
      /\ i \in Type14 => i.type = 14
      /\ i \in Type15 => i.type = 15
      /\ i \in Type16 => i.type = 16
      /\ i \in Type17 => i.type = 17
      /\ i \in Type18 => i.type = 18
      /\ i \in Type21 => i.type = 21
      /\ i \in Type23 => i.type = 23
      /\ i \in Type24 => i.type = 24
      /\ i \in Type25 => i.type = 25
  BY DEF Type6, Type7, Type8, Type8With, Type9, Type9With, Type14, Type15, Type16, Type17,
         Type18, Type21, Type23, Type24, Type25
<1> QED
  BY <1>1 DEF Types

\* An instruction whose banks and modes the model knows leaves both machines in step.
LEMMA RetiredSees ==
  ASSUME NEW exact, exact \subseteq Modes, NEW v, NEW a, Sees(v, a, exact), NEW i \in Types,
         NEW n \in BOOLEAN, NEW k \in BOOLEAN,
         i.type \in {9, 16} => TestsAlike(i.condition, n, k),
         i.type \in {8, 9} => exact = Modes,
         i.type \in {6, 14, 15, 16, 23, 24, 25} => "SR" \in exact,
         i.type \in {7, 17} => "SR" \in exact \/ ~WriteRefused(v, i.dst)
  PROVE  Sees(Retired(v, i, n), Retired(a, i, k), IF i.type \in {7, 17} THEN {} ELSE exact)
<1>1. CASE i.type = 6
  <2>1. Sees(Type6Retired(v, i), Type6Retired(a, i), exact)
    BY <1>1, TypeOf, Type6Sees
  <2> QED
    BY <1>1, <2>1 DEF Retired, MovesRetired
<1>2. CASE i.type = 7
  <2>1. Sees(Type7Retired(v, i), Type7Retired(a, i), {})
    BY <1>2, TypeOf, Type7Sees
  <2> QED
    BY <1>2, <2>1 DEF Retired, MovesRetired
<1>3. CASE i.type = 8
  <2>1. Sees(Type8Retired(v, i), Type8Retired(a, i), Modes)
    BY <1>3, TypeOf, Type8Sees
  <2> QED
    BY <1>3, <2>1 DEF Retired, ClausesRetired
<1>4. CASE i.type = 9
  <2>1. Sees(Type9Retired(v, i, n), Type9Retired(a, i, k), Modes)
    BY <1>4, TypeOf, Type9Sees
  <2> QED
    BY <1>4, <2>1 DEF Retired, ClausesRetired
<1>5. CASE i.type = 14
  <2>1. Sees(Type14Retired(v, i), Type14Retired(a, i), exact)
    BY <1>5, TypeOf, Type14Sees
  <2> QED
    BY <1>5, <2>1 DEF Retired, ShiftsRetired
<1>6. CASE i.type = 15
  <2>1. Sees(Type15Retired(v, i), Type15Retired(a, i), exact)
    BY <1>6, TypeOf, Type15Sees
  <2> QED
    BY <1>6, <2>1 DEF Retired, ShiftsRetired
<1>7. CASE i.type = 16
  <2>1. Sees(Type16Retired(v, i, n), Type16Retired(a, i, k), exact)
    BY <1>7, TypeOf, Type16Sees
  <2> QED
    BY <1>7, <2>1 DEF Retired, ShiftsRetired
<1>8. CASE i.type = 17
  <2>1. Sees(Type17Retired(v, i), Type17Retired(a, i), {})
    BY <1>8, TypeOf, Type17Sees
  <2> QED
    BY <1>8, <2>1 DEF Retired, MovesRetired
<1>9. CASE i.type = 18
  <2>1. Sees(Type18Retired(v, i), Type18Retired(a, i), exact)
    BY <1>9, Type18Sees
  <2> QED
    BY <1>9, <2>1 DEF Retired, MovesRetired
<1>10. CASE i.type = 21
  <2>1. Sees(Type21Retired(v, i), Type21Retired(a, i), exact)
    BY <1>10, Type21Sees
  <2> QED
    BY <1>10, <2>1 DEF Retired, MovesRetired
<1>11. CASE i.type = 23
  <2>1. Sees(Type23Retired(v, i), Type23Retired(a, i), exact)
    BY <1>11, TypeOf, Type23Sees
  <2> QED
    BY <1>11, <2>1 DEF Retired, DividesRetired
<1>12. CASE i.type = 24
  <2>1. Sees(Type24Retired(v, i), Type24Retired(a, i), exact)
    BY <1>12, TypeOf, Type24Sees
  <2> QED
    BY <1>12, <2>1 DEF Retired, DividesRetired
<1>13. CASE i.type = 25
  <2>1. Sees(Type25Retired(v, i), Type25Retired(a, i), exact)
    BY <1>13, Type25Sees
  <2> QED
    BY <1>13, <2>1 DEF Retired, DividesRetired
<1> QED
  BY <1>1, <1>2, <1>3, <1>4, <1>5, <1>6, <1>7, <1>8, <1>9, <1>10, <1>11, <1>12, <1>13, TypeOf

\* A machine by itself keeps its registers, whatever it knows.
LEMMA RetiredShape ==
  ASSUME NEW m, Sees(m, m, Modes), NEW i \in Types, NEW n \in BOOLEAN
  PROVE  Sees(Retired(m, i, n), Retired(m, i, n), Modes)
<1>1. "SR" \in Modes /\ (i.type \in {9, 16} => TestsAlike(i.condition, n, n))
  BY NamedBits DEF TestsAlike
<1>2. Sees(Retired(m, i, n), Retired(m, i, n), IF i.type \in {7, 17} THEN {} ELSE Modes)
  BY <1>1, RetiredSees
<1> QED
  BY <1>2, SeesEach

LEMMA WholeStatusSees ==
  ASSUME NEW v, NEW a, NEW exact, Sees(v, a, exact)
  PROVE  Sees(WholeStatus(v), a, exact)
<1> DEFINE x == FromWord(ASTATBits, Unknown)
<1>1. /\ x = [f \in Flags |-> x[f]] /\ Tested(x)
      /\ \A f \in Flags : x[f] = Unknown
  BY NamedBits DEF FromWord, Lifted, Known, Flags, Tested
<1> HIDE DEF x
<1>2. a.flag = [f \in Flags |-> a.flag[f]] /\ Tested(a.flag)
  BY DEF Sees, WellFormed, Flags
<1>3. Sees([v EXCEPT !.flag = x], [a EXCEPT !.flag = a.flag], exact)
  BY <1>1, <1>2, NewFlagsSee DEF Honest
<1>4. [a EXCEPT !.flag = a.flag] = a
  BY DEF Sees, WellFormed
<1>5. WholeStatus(v) \in {v, [v EXCEPT !.flag = x]}
  BY DEF WholeStatus, x
<1> QED
  BY <1>3, <1>4, <1>5

LEMMA SetRegisterSees ==
  ASSUME NEW v, NEW a, NEW exact, Sees(v, a, exact), NEW r \in Movable \cup {"AF", "MF"},
         NEW x, NEW y, Honest(x, y),
         "SR" \in exact \/ (r \in Movable /\ ~WriteRefused(v, r))
  PROVE  /\ Sees(SetRegister(v, r, x), SetRegister(a, r, y), {})
         /\ x = y \/ r # "MSTAT" => Sees(SetRegister(v, r, x), SetRegister(a, r, y), exact)
<1>1. CASE r \in {"AF", "MF"}
  <2>1. r \in Banked /\ "SR" \in exact
    BY <1>1 DEF Banked, Movable, DREG, Control, StatusRegister
  <2>2. BankSees(Bank(v), Bank(a))
    BY <2>1, BankSeen
  <2>3. BankSees([Bank(v) EXCEPT ![r] = x], [Bank(a) EXCEPT ![r] = y])
    BY <2>1, <2>2, StoreOne
  <2>4. Sees(WithBank(v, [Bank(v) EXCEPT ![r] = x]), WithBank(a, [Bank(a) EXCEPT ![r] = y]), exact)
    BY <2>1, <2>3, WithBankSees
  <2>5. Sees(SetRegister(v, r, x), SetRegister(a, r, y), exact)
    BY <1>1, <2>4 DEF SetRegister
  <2> QED
    BY <2>5 DEF Sees
<1>2. CASE r \notin {"AF", "MF"}
  BY <1>2, WriteSees DEF SetRegister
<1> QED
  BY <1>1, <1>2

-----------------------------------------------------------------------------
(* The hosts *)

\* A slice that computes always knows the modes, so it has nothing to report.
Computing == Slice /\ \A i \in Instructions : i.type \notin {7, 17}

HonestInv ==
  /\ \E n \in DOMAIN Programs : program = Programs[n]
  /\ Sees(view, view, Modes) /\ Sees(actual, actual, Modes)
  /\ ~diagnosed => Sees(view, actual, {})
  /\ Computing => ~diagnosed /\ Sees(view, actual, Modes)

\* The core is not asked about a counter that nothing has loaded.
CounterLoaded ==
  ~Slice => \A i \in Instructions :
              i.type \in {9, 16} /\ i.condition = "NOT CE" => Known(view.ctl["CNTR"])

LEMMA ProgramTypes ==
  ASSUME HonestInv
  PROVE  /\ Instructions \subseteq Types
         /\ Slice => \A i, j \in Instructions : i.type = j.type
<1>1. PICK n \in DOMAIN Programs : program = Programs[n]
  BY DEF HonestInv
<1> DEFINE code == Programs[n].code
<1>2. /\ \A k \in DOMAIN code : code[k] \in Types
      /\ Programs[n].host = "SLICE" => \A k, l \in DOMAIN code : code[k].type = code[l].type
  BY ArchitectureConstants, ExecutableTypes
<1>3. Instructions = {code[k] : k \in DOMAIN code} /\ (Slice <=> Programs[n].host = "SLICE")
  BY <1>1 DEF Instructions, Slice
<1> HIDE DEF code
<1> QED
  BY <1>2, <1>3

LEMMA SliceKeepsHonest ==
  ASSUME HonestInv, SliceExecute
  PROVE  HonestInv'
<1>1. PICK i \in Instructions, n \in BOOLEAN :
        /\ actual' = Retired(actual, i, n)
        /\ IF i.type \in {7, 17} /\ WriteRefused(view, i.dst)
             THEN diagnosed' = TRUE /\ UNCHANGED view
             ELSE view' = Retired(view, i, n) /\ UNCHANGED diagnosed
  BY DEF SliceExecute
<1>2. i \in Types /\ Slice /\ program' = program
  BY ProgramTypes DEF SliceExecute, Boundary
<1>3. Sees(actual', actual', Modes)
  BY <1>1, <1>2, RetiredShape DEF HonestInv
<1>4. Sees(Retired(view, i, n), Retired(view, i, n), Modes)
  BY <1>2, RetiredShape DEF HonestInv
<1>5. Sees(view', view', Modes)
  BY <1>1, <1>4 DEF HonestInv
<1>6. "SR" \in Modes /\ TestsAlike(i.condition, n, n)
  BY NamedBits DEF TestsAlike
<1>7. CASE i.type \in {7, 17}
  <2>1. ~Computing /\ ~Computing'
    BY <1>2, <1>7 DEF Computing, Slice, Instructions
  <2>2. ASSUME ~diagnosed' PROVE Sees(view', actual', {})
    <3>1. ~WriteRefused(view, i.dst) /\ ~diagnosed /\ view' = Retired(view, i, n)
      BY <1>1, <1>7, <2>2
    <3>2. Sees(view, actual, {})
      BY <3>1 DEF HonestInv
    <3>3. Sees(Retired(view, i, n), Retired(actual, i, n), IF i.type \in {7, 17} THEN {} ELSE {})
      BY <1>2, <1>7, <3>1, <3>2, RetiredSees
    <3> QED
      BY <1>1, <3>1, <3>3
  <2> QED
    BY <1>2, <1>3, <1>5, <2>1, <2>2 DEF HonestInv
<1>8. CASE i.type \notin {7, 17}
  <2>1. Computing
    BY <1>2, <1>8, ProgramTypes DEF Computing
  <2>2. ~diagnosed /\ Sees(view, actual, Modes) /\ ~diagnosed' /\ view' = Retired(view, i, n)
    BY <1>1, <1>8, <2>1 DEF HonestInv
  <2>3. Sees(Retired(view, i, n), Retired(actual, i, n), IF i.type \in {7, 17} THEN {} ELSE Modes)
    BY <1>2, <1>6, <1>8, <2>2, RetiredSees
  <2>4. Sees(view', actual', Modes)
    BY <1>1, <1>8, <2>2, <2>3
  <2>5. Sees(view', actual', {})
    BY <2>4 DEF Sees
  <2> QED
    BY <1>2, <1>3, <1>5, <2>2, <2>4, <2>5 DEF HonestInv
<1> QED
  BY <1>7, <1>8

LEMMA CoreKeepsHonest ==
  ASSUME HonestInv, CounterLoaded, CoreExecute
  PROVE  HonestInv'
<1> DEFINE n == NotExpired(view)
           k == NotExpired(actual)
<1>1. PICK i \in Instructions :
        /\ actual' = Retired(actual, i, k)
        /\ IF MstatDependencyInvalid(view, i)
             THEN diagnosed' = TRUE /\ UNCHANGED view
             ELSE view' = WholeStatus(Retired(view, i, n)) /\ UNCHANGED diagnosed
  BY DEF CoreExecute
<1>2. i \in Types /\ ~Slice /\ program' = program
  BY ProgramTypes DEF CoreExecute, Boundary
<1>3. n \in BOOLEAN /\ k \in BOOLEAN
  BY DEF NotExpired
<1> DEFINE shown == Retired(view, i, n)
           held == Retired(actual, i, k)
<1>4. Sees(held, held, Modes) /\ Sees(shown, shown, Modes)
  BY <1>2, <1>3, RetiredShape DEF HonestInv
<1>5. Sees(WholeStatus(shown), WholeStatus(shown), Modes)
  BY <1>4, WholeStatusSees, SeesEach
<1>6. Sees(actual', actual', Modes) /\ Sees(view', view', Modes)
  BY <1>1, <1>4, <1>5 DEF HonestInv
<1>7. ~Computing'
  BY <1>2 DEF Computing, Slice
<1>8. ASSUME ~diagnosed' PROVE Sees(view', actual', {})
  <2>1. ~MstatDependencyInvalid(view, i) /\ ~diagnosed /\ view' = WholeStatus(shown)
    BY <1>1, <1>8
  <2>2. Sees(view, actual, {})
    BY <2>1 DEF HonestInv
  <2> DEFINE exact == {b \in Modes : Known(view.mode[b])}
  <2>3. Sees(view, actual, exact) /\ exact \subseteq Modes
    BY <2>2, KnowsMore
  <2>4. DOMAIN view.mode = Modes /\ "SR" \in Modes
    BY <2>2, NamedBits DEF Sees, WellFormed, Modes
  <2>5. i.type \in {8, 9} => exact = Modes
    BY <2>1, <2>4 DEF MstatDependencyInvalid
  <2>6. i.type \in {8, 9, 14, 15, 16, 23, 24, 25} => "SR" \in exact
    BY <2>1, <2>4 DEF MstatDependencyInvalid, BankUnknown
  <2>7. i.type \in {6, 7, 17} => ~WriteRefused(view, i.dst)
    BY <2>1 DEF MstatDependencyInvalid, WriteRefused, Named
  <2>8. i.type = 6 => "SR" \in exact
    <3>1. i.type = 6 => InBank(i.dst)
      BY <1>2, TypeOf DEF Type6, InBank
    <3> QED
      BY <2>4, <2>7, <3>1 DEF WriteRefused, BankUnknown
  <2>9. i.type \in {9, 16} => TestsAlike(i.condition, n, k)
    <3>1. "CNTR" \in Control
      BY DEF Control
    <3>2. Known(view.ctl["CNTR"]) => view.ctl["CNTR"] = actual.ctl["CNTR"]
      BY <2>2, <3>1 DEF Sees, Honest, Known
    <3>3. Known(view.ctl["CNTR"]) => n = k
      BY <3>2 DEF NotExpired
    <3> HIDE DEF n, k
    <3> QED
      BY <1>2, <3>3 DEF CounterLoaded, TestsAlike
  <2> HIDE DEF exact, n, k
  <2>10. Sees(shown, held, IF i.type \in {7, 17} THEN {} ELSE exact)
    BY <1>2, <1>3, <2>3, <2>5, <2>6, <2>7, <2>8, <2>9, RetiredSees
  <2> HIDE DEF shown, held
  <2>11. Sees(WholeStatus(shown), held, IF i.type \in {7, 17} THEN {} ELSE exact)
    BY <2>10, WholeStatusSees
  <2>12. Sees(WholeStatus(shown), held, {})
    BY <2>11 DEF Sees
  <2> QED
    BY <1>1, <2>1, <2>12 DEF held
<1> QED
  BY <1>2, <1>6, <1>7, <1>8 DEF HonestInv

LEMMA SetUpReaches ==
  ASSUME NEW type \in {6, 7, 8, 9, 14, 15, 16, 17, 18, 21, 23, 24, 25},
         NEW r \in SetUpRegisters(type)
  PROVE  /\ r \in Movable \cup {"AF", "MF"}
         /\ type \in {7, 17} => r \in Movable
         /\ type = 21 => r # "MSTAT"
<1>1. CASE type \in {6, 15}
  BY <1>1 DEF SetUpRegisters, Movable, StatusRegister
<1>2. CASE type \in {7, 17}
  BY <1>2 DEF SetUpRegisters
<1>3. CASE type \in {8, 9}
  BY <1>3 DEF SetUpRegisters, Movable, StatusRegister
<1>4. CASE type \in {14, 16}
  BY <1>4 DEF SetUpRegisters, Movable, StatusRegister
<1>5. CASE type \in {18, 21}
  BY <1>5 DEF SetUpRegisters, Movable, StatusRegister, Control
<1>6. CASE type \in {23, 24}
  BY <1>6 DEF SetUpRegisters, Movable, StatusRegister
<1>7. CASE type = 25
  BY <1>7 DEF SetUpRegisters, Movable, StatusRegister, DREG
<1> QED
  BY <1>1, <1>2, <1>3, <1>4, <1>5, <1>6, <1>7

LEMMA SetUpKeepsHonest ==
  ASSUME HonestInv, SetUp
  PROVE  HonestInv'
<1> DEFINE Ports(type, r, x, hidden) ==
             /\ hidden => type = 21
             /\ actual' = SetRegister(actual, r, x)
             /\ IF type \in {7, 17} /\ WriteRefused(view, r)
                  THEN diagnosed' = TRUE /\ UNCHANGED view
                  ELSE /\ view' = SetRegister(view, r, IF hidden THEN Unknown ELSE x)
                       /\ UNCHANGED diagnosed
<1>1. PICK type \in {i.type : i \in Instructions} :
        \E r \in SetUpRegisters(type) : \E x \in SetUpWords(r), hidden \in BOOLEAN :
          Ports(type, r, x, hidden)
  BY DEF SetUp
<1>2. PICK r \in SetUpRegisters(type) :
        \E x \in SetUpWords(r), hidden \in BOOLEAN : Ports(type, r, x, hidden)
  BY <1>1
<1>3. PICK x \in SetUpWords(r), hidden \in BOOLEAN : Ports(type, r, x, hidden)
  BY <1>2
<1> DEFINE y == IF hidden THEN Unknown ELSE x
<1>4. Slice /\ program' = program /\ "SR" \in Modes
  BY NamedBits DEF SetUp, Boundary
<1>5. type \in {6, 7, 8, 9, 14, 15, 16, 17, 18, 21, 23, 24, 25}
  BY ProgramTypes, TypeOf
<1>6. /\ r \in Movable \cup {"AF", "MF"}
      /\ type \in {7, 17} => r \in Movable
      /\ type = 21 => r # "MSTAT"
  BY <1>5, SetUpReaches
<1>7. /\ Honest(x, x) /\ Honest(y, x) /\ Honest(y, y)
      /\ y = x \/ r # "MSTAT"
  BY <1>3, <1>6 DEF Honest
<1> HIDE DEF y
<1>8. Sees(SetRegister(actual, r, x), SetRegister(actual, r, x), Modes)
  BY <1>4, <1>6, <1>7, SetRegisterSees DEF HonestInv
<1>9. Sees(SetRegister(view, r, y), SetRegister(view, r, y), Modes)
  BY <1>4, <1>6, <1>7, SetRegisterSees DEF HonestInv
<1>10. Sees(actual', actual', Modes) /\ Sees(view', view', Modes)
  BY <1>3, <1>8, <1>9 DEF HonestInv, y
<1>11. CASE type \in {7, 17}
  <2>1. ~Computing'
    BY <1>4, <1>11 DEF Computing, Slice, Instructions
  <2>2. ASSUME ~diagnosed' PROVE Sees(view', actual', {})
    <3>1. ~WriteRefused(view, r) /\ ~diagnosed /\ view' = SetRegister(view, r, y)
      BY <1>3, <1>11, <2>2 DEF y
    <3>2. Sees(view, actual, {})
      BY <3>1 DEF HonestInv
    <3>3. Sees(SetRegister(view, r, y), SetRegister(actual, r, x), {})
      BY <1>6, <1>7, <1>11, <3>1, <3>2, SetRegisterSees
    <3> QED
      BY <1>3, <3>1, <3>3
  <2> QED
    BY <1>4, <1>10, <2>1, <2>2 DEF HonestInv
<1>12. CASE type \notin {7, 17}
  <2>1. Computing
    BY <1>4, <1>12, ProgramTypes DEF Computing
  <2>2. ~diagnosed /\ Sees(view, actual, Modes) /\ ~diagnosed' /\ view' = SetRegister(view, r, y)
    BY <1>3, <1>12, <2>1 DEF HonestInv, y
  <2>3. Sees(SetRegister(view, r, y), SetRegister(actual, r, x), Modes)
    BY <1>4, <1>6, <1>7, <2>2, SetRegisterSees
  <2>4. Sees(view', actual', Modes)
    BY <1>3, <2>2, <2>3
  <2>5. Sees(view', actual', {})
    BY <2>4 DEF Sees
  <2> QED
    BY <1>4, <1>10, <2>2, <2>4, <2>5 DEF HonestInv
<1> QED
  BY <1>11, <1>12

\* What reset leaves of the status.
LEMMA ResetShape ==
  ASSUME NEW m, WellFormed(m)
  PROVE  LET n == ResetStatus(m)
             o == ResetMachine(m)
         IN /\ WellFormed(n) /\ WellFormed(o)
            /\ \A f \in Flags : n.flag[f] = Unknown /\ o.flag[f] = Unknown
            /\ n.mode = FromWord(MSTATBits, 0) /\ o.mode = FromWord(MSTATBits, 0)
            /\ n.ctl = [m.ctl EXCEPT !["IMASK"] = 0, !["ICNTL"] = Unknown]
            /\ o.ctl = [c \in Control |-> IF c = "IMASK" THEN 0 ELSE Unknown]
            /\ n.bank = m.bank
            /\ o.bank = [b \in 0..1 |-> [d \in Banked |-> Unknown]]
<1> DEFINE flags == FromWord(ASTATBits, Unknown)
           modes == FromWord(MSTATBits, 0)
           c == [m.ctl EXCEPT !["IMASK"] = 0, !["ICNTL"] = Unknown]
           d == [e \in Control |-> IF e = "IMASK" THEN 0 ELSE Unknown]
           banks == [b \in 0..1 |-> [r \in Banked |-> Unknown]]
           k == [m EXCEPT !.flag = flags]
           l == [k EXCEPT !.mode = modes]
           n == [l EXCEPT !.ctl = c]
           p == [n EXCEPT !.bank = banks]
           o == [p EXCEPT !.ctl = d]
<1>1. flags = [f \in Flags |-> flags[f]] /\ \A f \in Flags : flags[f] = Unknown
  BY DEF FromWord, Lifted, Known, Flags
<1>2. modes = [b \in Modes |-> modes[b]]
  BY DEF FromWord, Modes
<1>3. m.ctl = [e \in Control |-> m.ctl[e]]
  BY DEF WellFormed
<1>4. /\ c = [e \in Control |-> c[e]] /\ d = [e \in Control |-> d[e]]
      /\ banks = [b \in 0..1 |-> [r \in Banked |-> banks[b][r]]]
  BY <1>3
<1>5. ResetStatus(m) = n
  BY DEF ResetStatus
<1>6. ResetMachine(m) = [ResetStatus(m) EXCEPT !.bank = banks, !.ctl = d]
  BY DEF ResetMachine
<1> HIDE DEF flags, modes, c, d, banks
<1>7. WellFormed(k) /\ k.flag = flags /\ k.bank = m.bank
  BY <1>1, NewFlags
<1> HIDE DEF k
<1>8. WellFormed(l) /\ l.mode = modes /\ l.flag = flags /\ l.bank = m.bank
  BY <1>2, <1>7, NewModes
<1> HIDE DEF l
<1>9. WellFormed(n) /\ n.ctl = c /\ n.mode = modes /\ n.flag = flags /\ n.bank = m.bank
  BY <1>4, <1>8, NewControl
<1>10. [n EXCEPT !.bank = banks, !.ctl = d] = o
  OBVIOUS
<1> HIDE DEF n
<1>11. WellFormed(p) /\ p.bank = banks /\ p.mode = modes /\ p.flag = flags
  BY <1>4, <1>9, NewBanks
<1> HIDE DEF p
<1>12. WellFormed(o) /\ o.ctl = d /\ o.bank = banks /\ o.mode = modes /\ o.flag = flags
  BY <1>4, <1>11, NewControl
<1> HIDE DEF o
<1>13. ResetMachine(m) = o
  BY <1>5, <1>6, <1>10
<1> QED
  BY <1>1, <1>5, <1>9, <1>12, <1>13 DEF flags, modes, c, d, banks

LEMMA ResetHeld ==
  ASSUME NEW m, Sees(m, m, Modes)
  PROVE  LET modes == FromWord(MSTATBits, 0)
             held == [m EXCEPT !.mode = modes, !.ctl["IMASK"] = 0]
         IN /\ Sees(held, held, Modes) /\ held.mode = modes /\ held.bank = m.bank
            /\ held.ctl = [m.ctl EXCEPT !["IMASK"] = 0]
<1> DEFINE modes == FromWord(MSTATBits, 0)
           held == [m EXCEPT !.mode = modes, !.ctl["IMASK"] = 0]
<1>1. /\ Sees([m EXCEPT !.mode = modes], [m EXCEPT !.mode = modes], Modes)
      /\ [m EXCEPT !.mode = modes].mode = modes
      /\ [m EXCEPT !.mode = modes].bank = m.bank
      /\ [m EXCEPT !.mode = modes].ctl = m.ctl
  <2>1. modes = [b \in Modes |-> modes[b]] /\ WellFormed(m)
    BY DEF FromWord, Modes, Sees
  <2> HIDE DEF modes
  <2> QED
    BY <2>1, NewModesSee, NewModes DEF Honest
<1>2. /\ Sees(held, held, Modes) /\ held.mode = modes /\ held.bank = m.bank
      /\ held.ctl = [m.ctl EXCEPT !["IMASK"] = 0]
  <2> DEFINE k == [m EXCEPT !.mode = modes]
             c == [k.ctl EXCEPT !["IMASK"] = 0]
  <2>1. held = [k EXCEPT !.ctl = c]
    OBVIOUS
  <2>2. c = [e \in Control |-> c[e]] /\ WellFormed(k)
    <3> HIDE DEF k
    <3> QED
      BY <1>1 DEF Sees, WellFormed, k
  <2> HIDE DEF k, c, modes
  <2>3. Sees(k, k, Modes) /\ k.mode = modes /\ k.bank = m.bank /\ k.ctl = m.ctl
    BY <1>1 DEF k
  <2>4. \A e \in Control : Honest(c[e], c[e])
    BY DEF Honest
  <2>5. Sees([k EXCEPT !.ctl = c], [k EXCEPT !.ctl = c], Modes)
    BY <2>2, <2>3, <2>4, NewControlSees
  <2>6. /\ [k EXCEPT !.ctl = c].ctl = c /\ [k EXCEPT !.ctl = c].mode = k.mode
        /\ [k EXCEPT !.ctl = c].bank = k.bank
    BY <2>2, NewControl
  <2>7. c = [m.ctl EXCEPT !["IMASK"] = 0]
    BY <2>3 DEF c
  <2> QED
    BY <2>1, <2>3, <2>5, <2>6, <2>7
<1> HIDE DEF modes, held
<1> QED
  BY <1>2 DEF modes, held

LEMMA ResetKeepsHonest ==
  ASSUME HonestInv, Reset
  PROVE  HonestInv'
<1> DEFINE modes == FromWord(MSTATBits, 0)
           masked == [actual EXCEPT !.ctl["IMASK"] = 0]
           held == [actual EXCEPT !.mode = modes, !.ctl["IMASK"] = 0]
<1>1. /\ actual' = held /\ program' = program /\ ~diagnosed'
      /\ \/ Computing /\ view' = ResetStatus(view)
         \/ view' = ResetMachine(view)
  BY DEF Reset, Boundary, Computing
<1>2. Sees(actual, actual, Modes) /\ Sees(view, view, Modes) /\ WellFormed(view)
  BY DEF HonestInv, Sees
<1>4. /\ Sees(held, held, Modes) /\ held.mode = modes /\ held.bank = actual.bank
      /\ held.ctl = [actual.ctl EXCEPT !["IMASK"] = 0]
  BY <1>2, ResetHeld
<1> HIDE DEF held
<1>5. /\ held.flag = [f \in Flags |-> held.flag[f]] /\ WellFormed(held) /\ Tested(held.flag)
      /\ \A e \in Control : held.ctl[e] = IF e = "IMASK" THEN 0 ELSE actual.ctl[e]
      /\ \A b \in 0..1 : BankSees(held.bank[b], held.bank[b])
  BY <1>2, <1>4 DEF Sees, WellFormed, Flags
<1>6. "MV" \in Flags /\ "IMASK" \in Control
  BY NamedBits DEF Control
<1>7. ASSUME Computing, view' = ResetStatus(view) PROVE Sees(view', held, Modes)
  <2> DEFINE n == ResetStatus(view)
  <2>1. Sees(view, actual, Modes)
    BY <1>7 DEF HonestInv
  <2>2. /\ WellFormed(n) /\ (\A f \in Flags : n.flag[f] = Unknown)
        /\ n.mode = modes /\ n.bank = view.bank
        /\ n.ctl = [view.ctl EXCEPT !["IMASK"] = 0, !["ICNTL"] = Unknown]
    BY <1>2, ResetShape
  <2>3. view.ctl = [e \in Control |-> view.ctl[e]]
    BY <1>2 DEF WellFormed
  <2> HIDE DEF n, modes
  <2>4. \A e \in Control : Honest(n.ctl[e], held.ctl[e])
    BY <1>5, <2>1, <2>2, <2>3 DEF Sees, Honest
  <2>5. \A b \in 0..1 : BankSees(n.bank[b], held.bank[b])
    BY <1>4, <2>1, <2>2 DEF Sees
  <2>6. Sees(n, held, Modes)
    BY <1>4, <1>5, <1>6, <2>2, <2>4, <2>5 DEF Sees, Honest, Tested
  <2> QED
    BY <1>7, <2>6 DEF n
<1>8. ASSUME view' = ResetMachine(view) PROVE Sees(view', held, Modes)
  <2> DEFINE n == ResetMachine(view)
  <2>1. /\ WellFormed(n) /\ (\A f \in Flags : n.flag[f] = Unknown)
        /\ n.mode = modes
        /\ n.bank = [b \in 0..1 |-> [d \in Banked |-> Unknown]]
        /\ n.ctl = [c \in Control |-> IF c = "IMASK" THEN 0 ELSE Unknown]
    BY <1>2, ResetShape
  <2> HIDE DEF n, modes
  <2>2. \A e \in Control : Honest(n.ctl[e], held.ctl[e])
    BY <1>5, <2>1 DEF Honest
  <2>3. \A b \in 0..1 : BankSees(n.bank[b], held.bank[b])
    BY <1>5, <2>1 DEF BankSees, Honest
  <2>4. Sees(n, held, Modes)
    BY <1>4, <1>5, <1>6, <2>1, <2>2, <2>3 DEF Sees, Honest, Tested
  <2> QED
    BY <1>8, <2>4 DEF n
<1>9. Sees(view', actual', Modes)
  BY <1>1, <1>7, <1>8
<1>10. Sees(view', view', Modes) /\ Sees(actual', actual', Modes)
  BY <1>9, SeesEach
<1>11. Sees(view', actual', {})
  BY <1>9 DEF Sees
<1> QED
  BY <1>1, <1>9, <1>10, <1>11 DEF HonestInv

LEMMA StepKeepsHonest == HonestInv /\ CounterLoaded /\ [Next]_vars => HonestInv'
<1> SUFFICES ASSUME HonestInv, CounterLoaded, [Next]_vars PROVE HonestInv'
  OBVIOUS
<1>1. CASE UNCHANGED <<program, actual, view, diagnosed>>
  BY <1>1 DEF HonestInv, Computing, Slice, Instructions
<1>2. Refuse \/ UNCHANGED vars => UNCHANGED <<program, actual, view, diagnosed>>
  BY DEF Refuse, Boundary, vars
<1> QED
  BY <1>1, <1>2, SliceKeepsHonest, CoreKeepsHonest, SetUpKeepsHonest, ResetKeepsHonest DEF Next

\* The initial pair: the choices the model sees are those of the processor, or Unknown.
LEMMA MachineSees ==
  ASSUME NEW c, NEW d, DOMAIN c = DOMAIN d, \A n \in DOMAIN c : Honest(c[n], d[n]),
         NEW exact, exact \subseteq Modes,
         \A b \in exact : <<"mode", b>> \in DOMAIN c => c[<<"mode", b>>] = d[<<"mode", b>>],
         <<"flag", "MV">> \in DOMAIN c => /\ c[<<"flag", "MV">>] \in {TRUE, FALSE, Unknown}
                                          /\ d[<<"flag", "MV">>] \in {TRUE, FALSE, Unknown}
  PROVE  Sees(Machine(c), Machine(d), exact)
<1> DEFINE value(e, s, r) == IF <<s, r>> \in DOMAIN e THEN e[<<s, r>>]
                             ELSE IF s \in {"flag", "mode"} THEN FALSE
                             ELSE Other(r, Min(Samples[r]))
           first(e) == [r \in Banked |-> value(e, "bank", r)]
           second(e) == [r \in Banked |-> Lifted(first(e)[r], Other(r, first(e)[r]))]
           banks(e) == [b \in 0..1 |-> [r \in Banked |-> IF b = 0 THEN first(e)[r]
                                        ELSE Lifted(first(e)[r], Other(r, first(e)[r]))]]
           flags(e) == [f \in Flags |-> value(e, "flag", f)]
           modes(e) == [b \in Modes |-> value(e, "mode", b)]
           ctl(e) == [r \in Control |-> value(e, "ctl", r)]
           machine(e) == [bank |-> banks(e), flag |-> flags(e), mode |-> modes(e), ctl |-> ctl(e)]
<1>1. \A e : Machine(e) = machine(e)
  BY DEF Machine, Flags, Modes
<1>2. \A s, r : Honest(value(c, s, r), value(d, s, r))
  BY DEF Honest
<1>3. /\ Tested(flags(c)) /\ Tested(flags(d))
      /\ \A b \in exact : modes(c)[b] = modes(d)[b]
  BY NamedBits DEF Tested
<1> HIDE DEF value
<1>4. \A r \in Banked : Honest(first(c)[r], first(d)[r])
  BY <1>2
<1> HIDE DEF first
<1>5. \A r \in Banked : Honest(second(c)[r], second(d)[r])
  BY <1>4 DEF Honest, Lifted, Known
<1>6. \A e : /\ banks(e) = [b \in 0..1 |-> [r \in Banked |-> banks(e)[b][r]]]
             /\ \A r \in Banked : banks(e)[0][r] = first(e)[r] /\ banks(e)[1][r] = second(e)[r]
  OBVIOUS
<1>7. /\ \A f \in Flags : Honest(flags(c)[f], flags(d)[f])
      /\ \A b \in Modes : Honest(modes(c)[b], modes(d)[b])
      /\ \A r \in Control : Honest(ctl(c)[r], ctl(d)[r])
  BY <1>2
<1>8. \A e : /\ flags(e) = [f \in Flags |-> flags(e)[f]]
             /\ modes(e) = [b \in Modes |-> modes(e)[b]]
             /\ ctl(e) = [r \in Control |-> ctl(e)[r]]
  OBVIOUS
<1> HIDE DEF second, banks, flags, modes, ctl
<1>9. \A b \in 0..1 : BankSees(banks(c)[b], banks(d)[b])
  <2> TAKE b \in 0..1
  <2>1. \A e : banks(e)[b] = [r \in Banked |-> banks(e)[b][r]]
    BY <1>6
  <2>2. b = 0 \/ b = 1
    OBVIOUS
  <2> QED
    BY <1>4, <1>5, <1>6, <2>1, <2>2 DEF BankSees
<1>10. \A e : WellFormed(machine(e))
  BY <1>6, <1>8 DEF WellFormed, Flags, Modes
<1>11. Sees(machine(c), machine(d), exact)
  BY <1>3, <1>7, <1>9, <1>10 DEF Sees
<1> QED
  BY <1>1, <1>11

LEMMA InitHonest == Init => HonestInv
<1> SUFFICES ASSUME Init PROVE HonestInv
  OBVIOUS
<1>1. PICK high \in SUBSET program.inputs, unknown \in SUBSET MayBeUnknown(program) :
        LET choice == Choice(program.inputs, high)
            seen == Machine([n \in DOMAIN choice |-> IF n \in unknown THEN Unknown ELSE choice[n]])
        IN /\ actual = Machine(choice)
           /\ view = IF Slice THEN seen ELSE WholeStatus(seen)
  BY DEF Init
<1> DEFINE d == Choice(program.inputs, high)
           c == [n \in DOMAIN d |-> IF n \in unknown THEN Unknown ELSE d[n]]
<1>2. actual = Machine(d) /\ view = IF Slice THEN Machine(c) ELSE WholeStatus(Machine(c))
  BY <1>1
<1>3. DOMAIN d = program.inputs /\ DOMAIN c = DOMAIN d
  BY DEF Choice
<1>4. \A n \in DOMAIN c : Honest(c[n], d[n])
  BY <1>3 DEF Honest
<1>5. <<"flag", "MV">> \in DOMAIN c => /\ c[<<"flag", "MV">>] \in {TRUE, FALSE, Unknown}
                                       /\ d[<<"flag", "MV">>] \in {TRUE, FALSE, Unknown}
  <2> DEFINE mv == <<"flag", "MV">>
  <2>1. mv[1] \in {"flag", "mode"}
    OBVIOUS
  <2> HIDE DEF mv
  <2>2. mv \in program.inputs => d[mv] = (mv \in high)
    BY <2>1 DEF Choice
  <2>3. \A n \in program.inputs : c[n] \in {Unknown, d[n]}
    BY <1>3
  <2>4. ASSUME mv \in program.inputs
        PROVE  d[mv] = TRUE \/ d[mv] = FALSE
    <3>1. CASE mv \in high
      <4>1. (mv \in high) = TRUE
        BY <3>1
      <4> QED
        BY <2>2, <2>4, <4>1
    <3>2. CASE mv \notin high
      <4>1. (mv \in high) = FALSE
        BY <3>2
      <4> QED
        BY <2>2, <2>4, <4>1
    <3> QED
      BY <3>1, <3>2
  <2> HIDE DEF c, d
  <2>5. mv \in program.inputs => d[mv] \in {TRUE, FALSE}
    BY <2>2, <2>4
  <2> QED
    BY <1>3, <2>3, <2>5 DEF mv
<1>6. Computing => \A b \in Modes :
        <<"mode", b>> \in DOMAIN c => c[<<"mode", b>>] = d[<<"mode", b>>]
  <2>1. ASSUME Computing, NEW b PROVE <<"mode", b>> \notin MayBeUnknown(program)
    BY <2>1 DEF MayBeUnknown, Computing, Slice, Instructions
  <2> QED
    BY <1>3, <2>1
<1> HIDE DEF c, d
<1>7. Sees(Machine(c), Machine(d), {})
  BY <1>3, <1>4, <1>5, MachineSees
<1>8. Computing => Sees(Machine(c), Machine(d), Modes)
  BY <1>3, <1>4, <1>5, <1>6, MachineSees
<1>9. Sees(WholeStatus(Machine(c)), Machine(d), {})
  BY <1>7, WholeStatusSees
<1>10. Sees(view, actual, {})
  BY <1>2, <1>7, <1>9
<1>11. Computing => Sees(view, actual, Modes)
  BY <1>2, <1>8 DEF Computing
<1>12. ~diagnosed /\ \E n \in DOMAIN Programs : program = Programs[n]
  BY DEF Init
<1> QED
  BY <1>10, <1>11, <1>12, SeesEach DEF HonestInv

LEMMA HonestInvSuffices == HonestInv => UnknownsAreHonest
  BY DEF HonestInv, UnknownsAreHonest, Sees, BankSees, WellFormed, Flags, Modes

\* As long as the core is not asked about a counter nothing has loaded, every value
\* the model shows is the value the processor holds: its Unknowns spread to all that
\* depends on them (_invalidate_compute_result, _invalidate_shifter_result,
\* _mstat_dependency_invalid).
THEOREM UnknownsStayHonest == Spec /\ []CounterLoaded => []UnknownsAreHonest
<1>1. Init => HonestInv
  BY InitHonest
<1>2. HonestInv /\ CounterLoaded /\ [Next]_vars => HonestInv'
  BY StepKeepsHonest
<1>3. HonestInv => UnknownsAreHonest
  BY HonestInvSuffices
<1> QED
  BY <1>1, <1>2, <1>3, PTL DEF Spec

-----------------------------------------------------------------------------
(* The two clauses of a cycle *)

LEMMA BankSet ==
  ASSUME NEW m, Sees(m, m, Modes), NEW b, BankSees(b, b)
  PROVE  /\ Bank(WithBank(m, b)) = b
         /\ Sees(WithBank(m, b), WithBank(m, b), Modes)
         /\ WithBank(m, b).flag = m.flag /\ WithBank(m, b).mode = m.mode
         /\ \A c : BankSees(c, c) => WithBank(WithBank(m, b), c) = WithBank(m, c)
<1>1. "SR" \in Modes
  BY NamedBits
<1>2. WellFormed(m) /\ b = [r \in Banked |-> b[r]] /\ Selected(m) \in 0..1
  BY DEF Sees, BankSees, Selected
<1> DEFINE p == WithBank(m, b)
<1>3. /\ WellFormed(p) /\ p.flag = m.flag /\ p.mode = m.mode /\ p.ctl = m.ctl
      /\ \A k \in 0..1 : p.bank[k] = IF k = Selected(m) THEN b ELSE m.bank[k]
  BY <1>2, WithBankShape
<1>4. Sees(p, p, Modes)
  BY <1>1, WithBankSees
<1> HIDE DEF p
<1>5. Selected(p) = Selected(m)
  BY <1>3 DEF Selected
<1>6. Bank(p) = b
  BY <1>2, <1>3, <1>5 DEF Bank
<1>7. ASSUME NEW c, BankSees(c, c) PROVE WithBank(p, c) = WithBank(m, c)
  <2> DEFINE x == WithBank(p, c)
             y == WithBank(m, c)
  <2>1. c = [r \in Banked |-> c[r]]
    BY <1>7 DEF BankSees
  <2>2. /\ WellFormed(x) /\ x.flag = p.flag /\ x.mode = p.mode /\ x.ctl = p.ctl
        /\ \A k \in 0..1 : x.bank[k] = IF k = Selected(p) THEN c ELSE p.bank[k]
    BY <1>3, <2>1, WithBankShape
  <2>3. /\ WellFormed(y) /\ y.flag = m.flag /\ y.mode = m.mode /\ y.ctl = m.ctl
        /\ \A k \in 0..1 : y.bank[k] = IF k = Selected(m) THEN c ELSE m.bank[k]
    BY <1>2, <2>1, WithBankShape
  <2> HIDE DEF x, y
  <2>4. \A k \in 0..1 : x.bank[k] = y.bank[k]
    BY <1>3, <1>5, <2>2, <2>3
  <2>5. x.bank = y.bank
    <3>1. /\ x.bank = [k \in 0..1 |-> [r \in Banked |-> x.bank[k][r]]]
          /\ y.bank = [k \in 0..1 |-> [r \in Banked |-> y.bank[k][r]]]
      BY <2>2, <2>3 DEF WellFormed
    <3> QED
      BY <2>4, <3>1
  <2>6. /\ x = [bank |-> x.bank, flag |-> x.flag, mode |-> x.mode, ctl |-> x.ctl]
        /\ y = [bank |-> y.bank, flag |-> y.flag, mode |-> y.mode, ctl |-> y.ctl]
    BY <2>2, <2>3 DEF WellFormed
  <2>7. x = y
    BY <1>3, <2>2, <2>3, <2>5, <2>6
  <2> QED
    BY <2>7 DEF x, y
<1> QED
  BY <1>3, <1>4, <1>6, <1>7 DEF p

LEMMA FlagsThenBank ==
  ASSUME NEW m, Sees(m, m, Modes), NEW y, NEW b, BankSees(b, b)
  PROVE  /\ WithBank(WithFlags(m, y), b) = WithFlags(WithBank(m, b), y)
         /\ Bank(WithFlags(m, y)) = Bank(m)
<1>1. m = [bank |-> m.bank, flag |-> m.flag, mode |-> m.mode, ctl |-> m.ctl]
  BY DEF Sees, WellFormed
<1> DEFINE n(f) == [bank |-> m.bank, flag |-> f, mode |-> m.mode, ctl |-> m.ctl]
           f == [e \in DOMAIN m.flag |-> IF e \in DOMAIN y THEN y[e] ELSE m.flag[e]]
           k == [m.bank EXCEPT ![Selected(m)] = b]
           o == [bank |-> k, flag |-> m.flag, mode |-> m.mode, ctl |-> m.ctl]
           q == [bank |-> k, flag |-> f, mode |-> m.mode, ctl |-> m.ctl]
<1>2. WithFlags(m, y) = n(f)
  <2>1. WithFlags(m, y) = [m EXCEPT !.flag = f]
    BY DEF WithFlags
  <2> HIDE DEF f
  <2> QED
    BY <1>1, <2>1
<1>3. WithBank(m, b) = o
  <2>1. WithBank(m, b) = [m EXCEPT !.bank = k]
    BY <1>1 DEF WithBank
  <2> HIDE DEF k
  <2> QED
    BY <1>1, <2>1
<1>4. WithFlags(o, y) = q
  <2>1. WithFlags(o, y) = [o EXCEPT !.flag = f]
    BY DEF WithFlags
  <2> HIDE DEF f, k
  <2> QED
    BY <2>1
<1>5. WithBank(n(f), b) = q
  <2> HIDE DEF f
  <2>1. Selected(n(f)) = Selected(m) /\ n(f).bank = m.bank
    BY DEF Selected
  <2>2. WithBank(n(f), b) = [n(f) EXCEPT !.bank = k]
    BY <2>1 DEF WithBank
  <2> HIDE DEF k
  <2> QED
    BY <2>2
<1>6. Bank(n(f)) = Bank(m)
  <2> HIDE DEF f
  <2> QED
    BY DEF Bank, Selected
<1> HIDE DEF n, o, q
<1> QED
  BY <1>2, <1>3, <1>4, <1>5, <1>6

\* What a clause reads, and where its unit puts a result.
Feeds(c) ==
  {c.x, c.y} \cup (IF c.unit = "MAC" THEN {"MR0", "MR1", "MR2"} ELSE {})

StoreUnit(b, c, w) ==
  IF c.unit = "MAC" THEN StoreMAC(b, c.feedback, w) ELSE StoreALU(b, c.feedback, w)

LEMMA StoreUnitShape ==
  ASSUME NEW b, BankSees(b, b), NEW c \in Clauses, NEW w
  PROVE  BankSees(StoreUnit(b, c, w), StoreUnit(b, c, w))
<1>1. c.feedback \in BOOLEAN /\ Honest(w, w)
  BY ClauseFields DEF Honest
<1> QED
  BY <1>1, StoreMACSees, StoreALUSees DEF StoreUnit

LEMMA StoreDREGElsewhere ==
  ASSUME NEW b, BankSees(b, b), NEW d \in DREG, NEW v, NEW r \in Banked, r \notin Touched(d)
  PROVE  StoreDREG(b, d, v)[r] = b[r]
<1> USE DEF BankSees
<1>1. CASE d = "MR1"
  BY <1>1 DEF StoreDREG, Touched
<1>2. CASE d # "MR1"
  BY <1>2 DEF StoreDREG, Touched
<1> QED
  BY <1>1, <1>2

LEMMA OperandOf ==
  ASSUME NEW b, NEW e, NEW r, r # "ZERO" => e[r] = b[r]
  PROVE  Operand(e, r) = Operand(b, r)
  BY DEF Operand, ReadDREG

LEMMA StoreUnitElsewhere ==
  ASSUME NEW b, BankSees(b, b), NEW c \in Clauses, NEW w, NEW d \in DREG,
         d \notin ClauseDestination(c)
  PROVE  ReadDREG(StoreUnit(b, c, w), d) = ReadDREG(b, d)
<1> DEFINE e == StoreUnit(b, c, w)
<1>1. c.feedback \in BOOLEAN /\ c.unit \in {"ALU", "MAC"}
  BY ClauseFields
<1>2. d \notin {"AF", "MF"}
  BY DEF DREG
<1>3. e[d] = b[d]
  <2> USE DEF BankSees, Banked
  <2>1. CASE c.unit = "ALU"
    BY <1>1, <1>2, <2>1 DEF StoreUnit, StoreALU, ClauseDestination
  <2>2. CASE c.unit = "MAC" /\ c.feedback
    BY <1>1, <1>2, <2>2 DEF StoreUnit, StoreMAC
  <2>3. CASE c.unit = "MAC" /\ ~c.feedback
    BY <1>1, <1>2, <2>3 DEF StoreUnit, StoreMAC, ClauseDestination
  <2> QED
    BY <1>1, <2>1, <2>2, <2>3
<1> HIDE DEF e
<1> QED
  BY <1>3 DEF ReadDREG, e

\* A DREG and a result that share no register may be stored in either order.
LEMMA StoresCommute ==
  ASSUME NEW b, BankSees(b, b), NEW c \in Clauses, NEW w, NEW d \in DREG, NEW v,
         Touched(d) \cap ClauseDestination(c) = {}
  PROVE  StoreDREG(StoreUnit(b, c, w), d, v) = StoreUnit(StoreDREG(b, d, v), c, w)
<1>1. c.feedback \in BOOLEAN /\ c.unit \in {"ALU", "MAC"} /\ Honest(v, v)
  BY ClauseFields DEF Honest
<1> DEFINE p == StoreUnit(b, c, w)
           q == StoreDREG(b, d, v)
           x == StoreDREG(p, d, v)
           y == StoreUnit(q, c, w)
           wrote == IF c.feedback THEN (IF c.unit = "MAC" THEN {"MF"} ELSE {"AF"})
                                  ELSE ClauseDestination(c)
<1>2. BankSees(p, p) /\ BankSees(q, q) /\ BankSees(x, x) /\ BankSees(y, y)
  BY <1>1, StoreUnitShape, StoreDREGSees
<1>3. wrote \subseteq Banked /\ Touched(d) \subseteq Banked /\ wrote \cap Touched(d) = {}
  BY <1>1 DEF ClauseDestination, Touched, Banked, DREG
<1>4. \A e, r : BankSees(e, e) /\ r \in Banked /\ r \notin wrote => StoreUnit(e, c, w)[r] = e[r]
  <2> SUFFICES ASSUME NEW e, NEW r \in Banked, BankSees(e, e), r \notin wrote
               PROVE  StoreUnit(e, c, w)[r] = e[r]
    OBVIOUS
  <2>1. DOMAIN e = Banked
    BY DEF BankSees
  <2>2. CASE c.unit = "ALU"
    BY <1>1, <2>1, <2>2 DEF StoreUnit, StoreALU, ClauseDestination
  <2>3. CASE c.unit = "MAC"
    BY <1>1, <2>1, <2>3 DEF StoreUnit, StoreMAC, ClauseDestination
  <2> QED
    BY <1>1, <2>2, <2>3
<1>5. \A e, f, r : BankSees(e, e) /\ BankSees(f, f) /\ r \in wrote =>
                     StoreUnit(e, c, w)[r] = StoreUnit(f, c, w)[r]
  <2> SUFFICES ASSUME NEW e, NEW f, NEW r, BankSees(e, e), BankSees(f, f), r \in wrote
               PROVE  StoreUnit(e, c, w)[r] = StoreUnit(f, c, w)[r]
    OBVIOUS
  <2>1. DOMAIN e = Banked /\ DOMAIN f = Banked /\ r \in Banked
    BY <1>3 DEF BankSees
  <2>2. {"AF", "AR", "MF", "MR0", "MR1", "MR2"} \subseteq Banked
    BY DEF Banked, DREG
  <2>3. CASE c.unit = "ALU"
    BY <1>1, <2>1, <2>2, <2>3 DEF StoreUnit, StoreALU, ClauseDestination
  <2>4. CASE c.unit = "MAC"
    BY <1>1, <2>1, <2>2, <2>4 DEF StoreUnit, StoreMAC, ClauseDestination
  <2> QED
    BY <1>1, <2>3, <2>4
<1>6. \A e, f, r : BankSees(e, e) /\ BankSees(f, f) /\ r \in Touched(d) =>
                     StoreDREG(e, d, v)[r] = StoreDREG(f, d, v)[r]
  <2> SUFFICES ASSUME NEW e, NEW f, NEW r, BankSees(e, e), BankSees(f, f), r \in Touched(d)
               PROVE  StoreDREG(e, d, v)[r] = StoreDREG(f, d, v)[r]
    OBVIOUS
  <2>1. DOMAIN e = Banked /\ DOMAIN f = Banked /\ r \in Banked /\ d \in Banked
    BY <1>3 DEF BankSees, Banked
  <2>2. {"SE", "MR1", "MR2"} \subseteq Banked
    BY DEF Banked, DREG
  <2>3. CASE d = "MR1"
    BY <2>1, <2>2, <2>3 DEF StoreDREG, Touched
  <2>4. CASE d # "MR1"
    BY <2>1, <2>2, <2>4 DEF StoreDREG, Touched
  <2> QED
    BY <2>3, <2>4
<1> HIDE DEF wrote
<1>7. \A r \in Banked : x[r] = y[r]
  <2> TAKE r \in Banked
  <2>1. CASE r \in wrote
    <3>1. x[r] = p[r]
      BY <1>2, <1>3, <2>1, StoreDREGElsewhere
    <3>2. p[r] = y[r]
      BY <1>2, <1>5, <2>1
    <3> QED
      BY <3>1, <3>2
  <2>2. CASE r \in Touched(d)
    <3>1. y[r] = q[r]
      BY <1>2, <1>3, <1>4, <2>2
    <3>2. x[r] = q[r]
      BY <1>2, <1>6, <2>2
    <3> QED
      BY <3>1, <3>2
  <2>3. CASE r \notin wrote /\ r \notin Touched(d)
    <3>1. x[r] = p[r] /\ q[r] = b[r]
      BY <1>2, <2>3, StoreDREGElsewhere
    <3>2. y[r] = q[r] /\ p[r] = b[r]
      BY <1>2, <1>4, <2>3
    <3> QED
      BY <3>1, <3>2
  <2> QED
    BY <2>1, <2>2, <2>3
<1>8. x = [r \in Banked |-> x[r]] /\ y = [r \in Banked |-> y[r]]
  BY <1>2 DEF BankSees
<1> HIDE DEF x, y
<1>9. x = y
  BY <1>7, <1>8
<1> QED
  BY <1>9 DEF x, y

\* A machine after the clause c: its result, stored in the bank b, and its flags.
Computed(m, b, c, w, y) == WithFlags(WithBank(m, StoreUnit(b, c, w)), y)

\* The result depends on the registers that feed the clause alone.
LEMMA ComputeReads ==
  ASSUME NEW m, Sees(m, m, Modes), NEW c \in Clauses,
         NEW b, BankSees(b, b), \A r \in Feeds(c) \cap Banked : b[r] = Bank(m)[r]
  PROVE  \E w, y : /\ Compute(m, c) = Computed(m, Bank(m), c, w, y)
                   /\ Compute(WithBank(m, b), c) = Computed(m, b, c, w, y)
<1> DEFINE p == WithBank(m, b)
<1>1. /\ Bank(p) = b /\ p.flag = m.flag /\ p.mode = m.mode
      /\ \A e : BankSees(e, e) => WithBank(p, e) = WithBank(m, e)
  BY BankSet
<1> HIDE DEF p
<1>2. /\ Operand(b, c.x) = Operand(Bank(m), c.x)
      /\ Operand(b, c.y) = Operand(Bank(m), c.y)
      /\ c.unit \in {"ALU", "MAC"}
  <2>1. /\ c.x \in DREG /\ c.unit \in {"ALU", "MAC"}
        /\ c.y \in {"AY0", "AY1", "AF", "MY0", "MY1", "MF", "ZERO"}
    BY ClauseFields
  <2>2. /\ c.x # "ZERO" => b[c.x] = Bank(m)[c.x]
        /\ c.y # "ZERO" => b[c.y] = Bank(m)[c.y]
    BY <2>1 DEF Feeds, Banked, DREG
  <2> QED
    BY <2>1, <2>2, OperandOf
<1>3. \A w : WithBank(p, StoreUnit(b, c, w)) = WithBank(m, StoreUnit(b, c, w))
  BY <1>1, StoreUnitShape
<1>4. \A w, y : Computed(p, b, c, w, y) = Computed(m, b, c, w, y)
  BY <1>3 DEF Computed
<1>5. /\ ClauseUnknown(m, c) =
           Computed(m, Bank(m), c, Unknown,
                    [f \in IF c.unit = "MAC" THEN {"MV"} ELSE AluFlags(c.f) |-> Unknown])
      /\ ClauseUnknown(p, c) =
           Computed(p, b, c, Unknown,
                    [f \in IF c.unit = "MAC" THEN {"MV"} ELSE AluFlags(c.f) |-> Unknown])
  BY <1>1 DEF ClauseUnknown, AluUnknown, MacUnknown, Computed, StoreUnit, WithoutFlags
<1>6. CASE c.unit = "ALU"
  <2>1. AluKnown(p, c) <=> AluKnown(m, c)
    BY <1>1, <1>2 DEF AluKnown
  <2> DEFINE x == OrZero(Operand(Bank(m), c.x))
             r == AluRaw(c.f, x, OrZero(Operand(Bank(m), c.y)), Number(OrFalse(m.flag["AC"])))
             w == IF ~c.feedback /\ m.mode["AR"] THEN Saturate(r) ELSE r.raw
             new == [AZ |-> r.raw = 0, AN |-> Negative(r.raw, W),
                     AV |-> r.av \/ (m.mode["OL"] /\ OrFalse(m.flag["AV"])),
                     AC |-> r.ac, AS |-> Negative(x, W)]
             y == [f \in AluFlags(c.f) |-> new[f]]
  <2>2. AluApplied(m, c) = WithFlags(WithBank(m, StoreALU(Bank(m), c.feedback, w)), y)
    BY DEF AluApplied
  <2>3. AluApplied(p, c) = WithFlags(WithBank(p, StoreALU(b, c.feedback, w)), y)
    BY <1>1, <1>2 DEF AluApplied
  <2> HIDE DEF w, y
  <2>4. /\ AluApplied(m, c) = Computed(m, Bank(m), c, w, y)
        /\ AluApplied(p, c) = Computed(p, b, c, w, y)
    BY <1>6, <2>2, <2>3 DEF Computed, StoreUnit
  <2>5. CASE AluKnown(m, c)
    <3>1. Compute(m, c) = AluApplied(m, c) /\ Compute(p, c) = AluApplied(p, c)
      BY <1>6, <2>1, <2>5 DEF Compute
    <3> QED
      BY <1>4, <2>4, <3>1 DEF p
  <2>6. CASE ~AluKnown(m, c)
    <3>1. Compute(m, c) = ClauseUnknown(m, c) /\ Compute(p, c) = ClauseUnknown(p, c)
      BY <1>6, <2>1, <2>6 DEF Compute
    <3> QED
      BY <1>4, <1>5, <3>1 DEF p
  <2> QED
    BY <2>5, <2>6
<1>7. CASE c.unit = "MAC"
  <2>1. \A r \in {"MR0", "MR1", "MR2"} : b[r] = Bank(m)[r]
    BY <1>7 DEF Feeds, Banked, DREG
  <2>2. WholeMR(b) = WholeMR(Bank(m))
    BY <2>1 DEF WholeMR
  <2>3. MacKnown(p, c) <=> MacKnown(m, c)
    BY <1>1, <1>2, <2>2 DEF MacKnown
  <2> DEFINE w == Mac(c.f, Operand(Bank(m), c.x), Operand(Bank(m), c.y),
                      OrZero(WholeMR(Bank(m))))
             y == [MV |-> MacOverflow(w)]
  <2>4. /\ MacApplied(m, c) = WithFlags(WithBank(m, StoreMAC(Bank(m), c.feedback, w)), y)
        /\ MacApplied(p, c) = WithFlags(WithBank(p, StoreMAC(b, c.feedback, w)), y)
    BY <1>1, <1>2, <2>2 DEF MacApplied
  <2> HIDE DEF w, y
  <2>5. /\ MacApplied(m, c) = Computed(m, Bank(m), c, w, y)
        /\ MacApplied(p, c) = Computed(p, b, c, w, y)
    BY <1>7, <2>4 DEF Computed, StoreUnit
  <2>6. CASE MacKnown(m, c)
    <3>1. Compute(m, c) = MacApplied(m, c) /\ Compute(p, c) = MacApplied(p, c)
      BY <1>7, <2>3, <2>6 DEF Compute
    <3> QED
      BY <1>4, <2>5, <3>1 DEF p
  <2>7. CASE ~MacKnown(m, c)
    <3>1. Compute(m, c) = ClauseUnknown(m, c) /\ Compute(p, c) = ClauseUnknown(p, c)
      BY <1>7, <2>3, <2>7 DEF Compute
    <3> QED
      BY <1>4, <1>5, <3>1 DEF p
  <2> QED
    BY <2>6, <2>7
<1> QED
  BY <1>2, <1>6, <1>7

\* The program is one of those given, and the processor has all its registers,
\* whatever the host does.
ActualInv ==
  /\ \E n \in DOMAIN Programs : program = Programs[n]
  /\ Sees(actual, actual, Modes)

LEMMA ActualTypes == ActualInv => Instructions \subseteq Types
<1> SUFFICES ASSUME ActualInv PROVE Instructions \subseteq Types
  OBVIOUS
<1>1. PICK n \in DOMAIN Programs : program = Programs[n]
  BY DEF ActualInv
<1> DEFINE code == Programs[n].code
<1>2. \A k \in DOMAIN code : code[k] \in Types
  BY ArchitectureConstants, ExecutableTypes
<1>3. Instructions = {code[k] : k \in DOMAIN code}
  BY <1>1 DEF Instructions
<1> HIDE DEF code
<1> QED
  BY <1>2, <1>3

LEMMA StepKeepsActual == ActualInv /\ [Next]_vars => ActualInv'
<1> SUFFICES ASSUME ActualInv, [Next]_vars PROVE ActualInv'
  OBVIOUS
<1>1. Sees(actual, actual, Modes) /\ "SR" \in Modes /\ Instructions \subseteq Types
  BY NamedBits, ActualTypes DEF ActualInv
<1>2. program' = program
  BY DEF Next, SliceExecute, CoreExecute, SetUp, Refuse, Reset, Boundary, vars
<1>3. CASE SliceExecute
  <2>1. PICK i \in Instructions, n \in BOOLEAN : actual' = Retired(actual, i, n)
    BY <1>3 DEF SliceExecute
  <2>2. Sees(actual', actual', Modes)
    BY <1>1, <2>1, RetiredShape
  <2> QED
    BY <1>2, <2>2 DEF ActualInv
<1>4. CASE CoreExecute
  <2>1. PICK i \in Instructions : actual' = Retired(actual, i, NotExpired(actual))
    BY <1>4 DEF CoreExecute
  <2>2. NotExpired(actual) \in BOOLEAN
    BY DEF NotExpired
  <2>3. Sees(actual', actual', Modes)
    BY <1>1, <2>1, <2>2, RetiredShape
  <2> QED
    BY <1>2, <2>3 DEF ActualInv
<1>5. CASE SetUp
  <2>1. PICK type \in {i.type : i \in Instructions} : \E r \in SetUpRegisters(type) :
          \E v : actual' = SetRegister(actual, r, v)
    BY <1>5 DEF SetUp
  <2>2. PICK r \in SetUpRegisters(type) : \E v : actual' = SetRegister(actual, r, v)
    BY <2>1
  <2>3. PICK v : actual' = SetRegister(actual, r, v)
    BY <2>2
  <2>4. r \in Movable \cup {"AF", "MF"}
    BY <1>1, <2>1, SetUpReaches, TypeOf
  <2>5. Honest(v, v)
    BY DEF Honest
  <2>6. Sees(SetRegister(actual, r, v), SetRegister(actual, r, v), Modes)
    BY <1>1, <2>4, <2>5, SetRegisterSees
  <2> QED
    BY <1>2, <2>3, <2>6 DEF ActualInv
<1>6. CASE Reset
  <2>1. Sees(actual', actual', Modes)
    BY <1>1, <1>6, ResetHeld DEF Reset
  <2> QED
    BY <1>2, <2>1 DEF ActualInv
<1>7. CASE Refuse \/ UNCHANGED vars
  BY <1>2, <1>7 DEF Refuse, vars, ActualInv
<1> QED
  BY <1>3, <1>4, <1>5, <1>6, <1>7 DEF Next

LEMMA InitActual == Init => ActualInv
  BY InitHonest DEF HonestInv, ActualInv

\* In every state that has its registers, whatever they hold.
LEMMA Type8AtOnce ==
  ASSUME NEW m, Sees(m, m, Modes), NEW c \in Clauses, NEW i, i.clause = c,
         i.dst \in DREG, i.src \in DREG
  PROVE  /\ Touched(i.dst) \cap (Feeds(c) \cup ClauseDestination(c)) = {} =>
              Type8Retired(m, i) = Compute(MoveDREG(m, m, i), c)
         /\ i.src \notin ClauseDestination(c) =>
              Type8Retired(m, i) = MoveDREG(Compute(m, c), Compute(m, c), i)
<1> DEFINE d == i.dst
           old == Bank(m)
           v == ReadDREG(old, i.src)
           moved == StoreDREG(old, d, v)
<1>1. BankSees(old, old) /\ "SR" \in Modes
  BY NamedBits, BankSeen
<1>2. BankSees(moved, moved)
  BY <1>1, StoreDREGSees DEF Honest
<1>3. MoveDREG(m, m, i) = WithBank(m, moved)
  BY DEF MoveDREG
<1> HIDE DEF old, v, moved
\* Where a computation leaves the machine.
<1>4. ASSUME NEW w, NEW y, NEW b, BankSees(b, b)
      PROVE  /\ Bank(Computed(m, b, c, w, y)) = StoreUnit(b, c, w)
             /\ \A e : BankSees(e, e) =>
                  WithBank(Computed(m, b, c, w, y), e) = WithFlags(WithBank(m, e), y)
  <2> DEFINE s == StoreUnit(b, c, w)
             p == WithBank(m, s)
  <2>1. BankSees(s, s)
    BY <1>4, StoreUnitShape
  <2> HIDE DEF s
  <2>2. /\ Bank(p) = s /\ Sees(p, p, Modes)
        /\ \A e : BankSees(e, e) => WithBank(p, e) = WithBank(m, e)
    BY <2>1, BankSet
  <2> HIDE DEF p
  <2>3. /\ Bank(WithFlags(p, y)) = s
        /\ \A e : BankSees(e, e) => WithBank(WithFlags(p, y), e) = WithFlags(WithBank(m, e), y)
    BY <1>1, <2>2, FlagsThenBank
  <2> QED
    BY <2>3 DEF Computed, p, s
<1>5. \A r \in Feeds(c) \cap Banked : old[r] = Bank(m)[r]
  BY DEF old
<1>6. PICK w, y : Compute(m, c) = Computed(m, old, c, w, y)
  BY <1>1, <1>5, ComputeReads DEF old
<1>7. MoveDREG(Compute(m, c), m, i) =
        WithBank(Compute(m, c), StoreDREG(StoreUnit(old, c, w), d, v))
  BY <1>1, <1>4, <1>6 DEF MoveDREG, old, v
<1>8. Type8Retired(m, i) = MoveDREG(Compute(m, c), m, i)
  BY DEF Type8Retired
<1>9. ASSUME Touched(d) \cap (Feeds(c) \cup ClauseDestination(c)) = {}
      PROVE  Type8Retired(m, i) = Compute(MoveDREG(m, m, i), c)
  <2>1. \A r \in Feeds(c) \cap Banked : moved[r] = old[r]
    BY <1>1, <1>9, StoreDREGElsewhere DEF moved
  <2>2. PICK x, z : /\ Compute(m, c) = Computed(m, old, c, x, z)
                    /\ Compute(WithBank(m, moved), c) = Computed(m, moved, c, x, z)
    BY <1>2, <2>1, ComputeReads DEF old
  <2> DEFINE e == StoreDREG(StoreUnit(old, c, x), d, v)
  <2>3. e = StoreUnit(moved, c, x)
    BY <1>1, <1>9, StoresCommute DEF moved
  <2>4. BankSees(e, e)
    BY <1>2, <2>3, StoreUnitShape
  <2> HIDE DEF e
  <2>5. WithBank(Compute(m, c), e) = WithFlags(WithBank(m, e), z)
    BY <1>1, <1>4, <2>2, <2>4
  <2>6. MoveDREG(Compute(m, c), m, i) = WithBank(Compute(m, c), e)
    BY <1>1, <1>4, <2>2 DEF MoveDREG, old, v, e
  <2>7. Computed(m, moved, c, x, z) = WithFlags(WithBank(m, e), z)
    BY <2>3 DEF Computed
  <2> QED
    BY <1>3, <1>8, <2>2, <2>5, <2>6, <2>7
<1>10. ASSUME i.src \notin ClauseDestination(c)
       PROVE  Type8Retired(m, i) = MoveDREG(Compute(m, c), Compute(m, c), i)
  <2>1. Bank(Compute(m, c)) = StoreUnit(old, c, w)
    BY <1>1, <1>4, <1>6
  <2>2. ReadDREG(StoreUnit(old, c, w), i.src) = v
    BY <1>1, <1>10, StoreUnitElsewhere DEF v
  <2> QED
    BY <1>8, <2>1, <2>2 DEF MoveDREG, old, v
<1> QED
  BY <1>9, <1>10

\* The two clauses of a Type 8 word act at once, in every program and whatever the
\* processor holds: each may be taken first, unless it would write what the other
\* reads (compute_move reads both clauses' operands before it writes).
THEOREM ClausesAreAtOnce == Spec => []ClausesActAtOnce
<1>1. ActualInv => ClausesActAtOnce
  <2> SUFFICES ASSUME ActualInv, NEW i \in Instructions, i.type = 8
               PROVE  /\ Touched(i.dst) \cap (Feeds(i.clause) \cup ClauseDestination(i.clause)) = {} =>
                           Retired(actual, i, FALSE) = Compute(MoveDREG(actual, actual, i), i.clause)
                      /\ i.src \notin ClauseDestination(i.clause) =>
                           Retired(actual, i, FALSE) =
                             MoveDREG(Compute(actual, i.clause), Compute(actual, i.clause), i)
    BY DEF ClausesActAtOnce, Feeds
  <2>1. i \in Type8 /\ Sees(actual, actual, Modes)
    BY ActualTypes, TypeOf DEF ActualInv
  <2>2. i.clause \in Clauses /\ i.dst \in DREG /\ i.src \in DREG
    BY <2>1 DEF Type8, Type8With, Clauses
  <2>3. Retired(actual, i, FALSE) = Type8Retired(actual, i)
    BY DEF Retired, ClausesRetired
  <2> DEFINE c == i.clause
  <2>4. /\ Touched(i.dst) \cap (Feeds(c) \cup ClauseDestination(c)) = {} =>
              Type8Retired(actual, i) = Compute(MoveDREG(actual, actual, i), c)
        /\ i.src \notin ClauseDestination(c) =>
              Type8Retired(actual, i) = MoveDREG(Compute(actual, c), Compute(actual, c), i)
    <3>1. c \in Clauses /\ i.clause = c
      BY <2>2
    <3> HIDE DEF c
    <3> QED
      BY <2>1, <2>2, <3>1, Type8AtOnce
  <2> QED
    BY <2>3, <2>4
<1> QED
  BY <1>1, InitActual, StepKeepsActual, PTL DEF Spec

LEMMA OneMove ==
  ASSUME NEW q, NEW r, q.dregs = {r}, ~(q.unit = "SB" /\ q.sb)
  PROVE  BankCollision(q) <=> Touched(r) \cap UnitDestination(q) # {}
<1>1. ~DREGsCollide({r})
  BY DEF DREGsCollide
<1> DEFINE touched == UNION {Touched(d) : d \in q.dregs}
<1>2. touched = Touched(r)
  <2>1. \A x : x \in touched <=> \E d \in q.dregs : x \in Touched(d)
    OBVIOUS
  <2> HIDE DEF touched
  <2> QED
    BY <2>1
<1>3. BankCollision(q) <=> DREGsCollide(q.dregs) \/ touched \cap UnitDestination(q) # {}
                             \/ (q.unit = "SB" /\ q.sb)
  BY DEF BankCollision
<1> HIDE DEF touched
<1> QED
  BY <1>1, <1>2, <1>3

\* The decoders support a word with two clauses, whatever its move's destination,
\* just when the register banks take both of its writes in one cycle
\* (DREGWriteConflict and its kin in registers.py).
THEOREM SupportedFits == Spec => []SupportedWritesFit
<1>1. ActualInv => SupportedWritesFit
  <2> SUFFICES ASSUME ActualInv, NEW i \in Instructions, i.type \in {8, 14}, NEW d \in DREG
               PROVE  Supported([i EXCEPT !.dst = d])
                        <=> ~BankCollision(BankRequest([i EXCEPT !.dst = d]))
    BY DEF SupportedWritesFit
  <2> DEFINE word == [i EXCEPT !.dst = d]
             q == BankRequest(word)
  <2>1. i \in Types
    BY ActualTypes
  <2>2. CASE i.type = 8
    <3>1. i \in Type8
      BY <2>1, <2>2, TypeOf
    <3>2. /\ word.type = 8 /\ word.dst = d /\ word.clause = i.clause /\ i.clause \in Clauses
      BY <3>1 DEF Type8, Type8With, Clauses
    <3> HIDE DEF word
    <3>3. /\ q.dregs = {d} /\ q.feedback = i.clause.feedback /\ q.unit = i.clause.unit
          /\ i.clause.unit \in {"ALU", "MAC"}
      BY <3>2, ClauseFields DEF BankRequest
    <3> HIDE DEF q
    <3>4. UnitDestination(q) = ClauseDestination(i.clause)
      BY <3>2, <3>3, ClauseFields DEF UnitDestination, ClauseDestination
    <3>6. Touched(d) \cap ClauseDestination(i.clause) = {} <=> d \notin ClauseDestination(i.clause)
      BY <3>2, ClauseFields DEF Touched, ClauseDestination
    <3>7. Supported(word) <=> d \notin ClauseDestination(i.clause)
      BY <3>2 DEF Supported, Type8Supported
    <3>8. BankCollision(q) <=> Touched(d) \cap ClauseDestination(i.clause) # {}
      BY <3>3, <3>4, OneMove
    <3> QED
      BY <3>6, <3>7, <3>8 DEF q, word
  <2>3. CASE i.type = 14
    <3>1. i \in Type14
      BY <2>1, <2>3, TypeOf
    <3>2. /\ word.type = 14 /\ word.dst = d /\ word.f = i.f
          /\ i.f \in ShiftFunctions \cup DetectFunctions
      BY <3>1 DEF Type14
    <3> HIDE DEF word
    <3> DEFINE kind == i.f.op
    <3>9. /\ IsShift(i.f) <=> kind \in {"LSHIFT", "ASHIFT", "NORM"}
          /\ ~IsShift(i.f) => kind \in {"EXP HI", "EXP HIX", "EXP LO", "EXPADJ"}
      BY <3>2, ShifterOps DEF Shifters
    <3>3. /\ q.dregs = {d} /\ ~q.sb
          /\ IsShift(i.f) => q.unit = "SR"
          /\ kind = "EXPADJ" => q.unit = "SB"
          /\ kind \in {"EXP HI", "EXP HIX", "EXP LO"} => q.unit = "SE"
      <4>1. /\ q.dregs = {d} /\ ~q.sb
            /\ q.unit = CASE word.type = 8 -> word.clause.unit
                          [] word.type = 14 /\ IsShift(word.f) -> "SR"
                          [] word.type = 14 /\ word.f.op = "EXPADJ" -> "SB"
                          [] OTHER -> "SE"
        BY <3>2 DEF BankRequest
      <4>5. word.type = 14 /\ (IsShift(word.f) <=> IsShift(i.f)) /\ word.f.op = kind
        BY <3>2
      <4> HIDE DEF q, kind
      <4>2. CASE IsShift(i.f)
        <5>1. kind \notin {"EXPADJ", "EXP HI", "EXP HIX", "EXP LO"}
          BY <3>9, <4>2
        <5>2. word.type # 8 /\ word.type = 14 /\ IsShift(word.f)
          BY <4>2, <4>5
        <5>3. q.unit = "SR"
          BY <4>1, <4>5, <5>1, <5>2
        <5> QED
          BY <4>1, <5>1, <5>3
      <4>3. CASE kind = "EXPADJ"
        <5>1. ~IsShift(i.f)
          BY <3>9, <4>3
        <5>2. /\ word.type # 8 /\ ~(word.type = 14 /\ IsShift(word.f))
              /\ word.type = 14 /\ word.f.op = "EXPADJ"
          BY <4>3, <4>5, <5>1
        <5>3. q.unit = "SB"
          BY <4>1, <5>2
        <5> QED
          BY <4>1, <4>3, <5>1, <5>3
      <4>4. CASE kind \in {"EXP HI", "EXP HIX", "EXP LO"}
        <5>1. ~IsShift(i.f)
          BY <3>9, <4>4
        <5>4. kind # "EXPADJ"
          BY <4>4
        <5>2. /\ word.type # 8 /\ ~(word.type = 14 /\ IsShift(word.f))
              /\ ~(word.type = 14 /\ word.f.op = "EXPADJ")
          BY <4>5, <5>1, <5>4
        <5>3. q.unit = "SE"
          BY <4>1, <5>2
        <5> QED
          BY <4>1, <4>4, <5>1, <5>3
      <4> QED
        BY <3>9, <4>1, <4>2, <4>3, <4>4
    <3>4. UnitDestination(q) = ShifterDestination(i.f)
      <4> HIDE DEF q
      <4>1. CASE IsShift(i.f)
        BY <3>3, <3>9, <4>1 DEF UnitDestination, ShifterDestination
      <4>2. CASE kind = "EXPADJ"
        BY <3>3, <3>9, <4>2 DEF UnitDestination, ShifterDestination
      <4>3. CASE kind \in {"EXP HI", "EXP HIX", "EXP LO"}
        BY <3>3, <3>9, <4>3 DEF UnitDestination, ShifterDestination
      <4> QED
        BY <3>9, <4>1, <4>2, <4>3
    <3> HIDE DEF q
    <3>6. Touched(d) \cap ShifterDestination(i.f) = {} <=> d \notin ShifterDestination(i.f)
      BY <3>2, ShifterOps DEF Touched, ShifterDestination, IsShift, DetectFunctions
    <3>7. Supported(word) <=> d \notin ShifterDestination(i.f)
      BY <3>2 DEF Supported, Type14Supported
    <3>8. BankCollision(q) <=> Touched(d) \cap ShifterDestination(i.f) # {}
      BY <3>3, <3>4, OneMove
    <3> QED
      BY <3>6, <3>7, <3>8 DEF q, word
  <2> QED
    BY <2>2, <2>3
<1> QED
  BY <1>1, InitActual, StepKeepsActual, PTL DEF Spec

\* The slices, which are told whether the counter has expired, need no hypothesis.
THEOREM SlicesStayHonest == Spec /\ Slice => []UnknownsAreHonest
<1>1. Init => HonestInv
  BY InitHonest
<1>2. HonestInv /\ Slice /\ [Next]_vars => HonestInv'
  BY StepKeepsHonest DEF CounterLoaded
<1>3. Slice /\ [Next]_vars => Slice'
  BY DEF Next, SliceExecute, CoreExecute, SetUp, Refuse, Reset, Boundary, vars, Slice
<1>4. HonestInv => UnknownsAreHonest
  BY HonestInvSuffices
<1> QED
  BY <1>1, <1>2, <1>3, <1>4, PTL DEF Spec

-----------------------------------------------------------------------------
(* The status and the modes of a cycle *)

\* What is proved about words and powers of two.
Arithmetic == INSTANCE DatapathProofs WITH pc <- 0, given <- 0, r <- 0, exact <- 0, MaxTerms <- 0

\* The proofs about the datapath speak of the same words.
LEMMA SameWords == \A bits : FromBits(bits) = Arithmetic!FromBits(bits)
<1>1. \A S : SumSet(S) = Arithmetic!SumSet(S)
  BY DEF SumSet, FoldSet, MapThenFoldSet, Arithmetic!SumSet, Arithmetic!FoldSet,
         Arithmetic!MapThenFoldSet
<1> QED
  BY <1>1 DEF FromBits, Arithmetic!FromBits

\* The mask that an interrupt entry leaves enables nothing up to the level entered.
LEMMA EntryMaskBits ==
  ASSUME NEW m, NEW level \in 0..3, m.ctl["ICNTL"] \in {0, 16}, NEW n \in 0 .. level
  PROVE  ~Bit(EntryMask(m, level), n)
<1> DEFINE above == level + 1 .. 3
           mask == FromBits(above)
           icntl == m.ctl["ICNTL"]
<1>1. Bits(mask, 4) = above
  <2>1. 4 \in Nat /\ above \in SUBSET (0 .. 4 - 1)
    OBVIOUS
  <2> HIDE DEF above
  <2>2. Arithmetic!Bits(Arithmetic!FromBits(above), 4) = above
    BY <2>1, DatapathConstants, Arithmetic!WordOfBits
  <2> QED
    BY <2>2, SameWords DEF Arithmetic!Bits, Arithmetic!Bit, Bits, Bit
<1>2. n \in 0 .. 4 - 1 /\ n \notin above
  OBVIOUS
<1> HIDE DEF above, mask
<1>3. ~Bit(mask, n)
  BY <1>1, <1>2 DEF Bits
<1>4. ~Bit(0, n)
  BY <1>2, DatapathConstants, Arithmetic!BitOfZero DEF Arithmetic!Bit, Bit
<1>5. icntl = 16 => ~Bit(icntl, n)
  <2>1. 2 ^ 0 = 1 /\ 2 ^ (0 + 1) = 2 * 2 ^ 0 /\ 2 ^ (1 + 1) = 2 * 2 ^ 1 /\ 2 ^ (2 + 1) = 2 * 2 ^ 2
    BY DatapathConstants, Arithmetic!PowerZero, Arithmetic!PowerNext
  <2>2. 2 ^ 0 = 1 /\ 2 ^ 1 = 2 /\ 2 ^ 2 = 4 /\ 2 ^ 3 = 8
    BY <2>1
  <2>3. n = 0 \/ n = 1 \/ n = 2 \/ n = 3
    BY <1>2
  <2>4. \A k \in {1, 2, 4, 8} : (16 \div k) % 2 = 0
    OBVIOUS
  <2>5. 2 ^ n \in {1, 2, 4, 8}
    BY <2>2, <2>3
  <2> QED
    BY <2>4, <2>5 DEF Bit
<1>6. EntryMask(m, level) \in {mask, 0, icntl}
  BY DEF EntryMask, Lifted, Known, mask, above
<1> QED
  BY <1>3, <1>4, <1>5, <1>6

\* With no words moved a cycle has no conflict but that of a restore with something
\* else.
LEMMA ConflictOf ==
  ASSUME NEW q, DOMAIN q.moves = {}, DOMAIN q.automatic \in {{}, {"ALU"}}
  PROVE  StatusConflict(q) <=> /\ q.restore # {}
                               /\ \/ DOMAIN q.automatic # {} \/ q.modes # NoModes \/ q.entry # {}
<1>1. Cardinality(DOMAIN q.automatic) \in {0, 1}
  <2>1. Cardinality({}) = 0 /\ Cardinality({"ALU"}) = 1
    BY FS_EmptySet, FS_Singleton
  <2> QED
    BY <2>1
<1>2. ~(Cardinality(DOMAIN q.automatic) > 1)
  BY <1>1
<1> QED
  BY <1>2 DEF StatusConflict

\* StatusSurvivesEntry, of a processor with all its registers.
LEMMA StatusKept ==
  ASSUME WellFormed(actual), NEW level \in 0..3, NEW icntl \in {0, 16}
  PROVE  LET switch == [NoStatusWrites EXCEPT !.modes["SR"] = "SET"]
             restore == [NoStatusWrites EXCEPT !.restore = {StatusEntry(actual)}]
             m == [actual EXCEPT !.ctl["ICNTL"] = icntl]
             entered == StatusCycle(m, [switch EXCEPT !.entry = {level}])
         IN /\ StatusCycle(actual, [restore EXCEPT !.modes = switch.modes]) = actual
            /\ StatusCycle(entered, restore) = m
            /\ \A n \in 0 .. level : ~Bit(entered.ctl["IMASK"], n)
<1> DEFINE e == StatusEntry(actual)
           modes == [NoModes EXCEPT !["SR"] = "SET"]
           request(w, entry, restored) == [moves |-> <<>>, automatic |-> <<>>, modes |-> w,
                                           entry |-> entry, restore |-> restored]
           m == [actual EXCEPT !.ctl["ICNTL"] = icntl]
           mask == EntryMask(m, level)
           entered == [m EXCEPT !.ctl["IMASK"] = mask]
<1>1. modes # NoModes
  BY DEF NoModes, BitNames, MSTATBits
<1>2. \A w, entry, restored :
        /\ DOMAIN request(w, entry, restored).moves = {}
        /\ DOMAIN request(w, entry, restored).automatic = {}
  OBVIOUS
<1> HIDE DEF modes
<1>3. StatusCycle(actual, request(modes, {}, {e})) = actual
  <2> DEFINE q == request(modes, {}, {e})
  <2>1. q.modes = modes /\ q.restore = {e}
    OBVIOUS
  <2>2. DOMAIN q.moves = {} /\ DOMAIN q.automatic = {}
    BY <1>2
  <2> HIDE DEF q
  <2>3. StatusConflict(q)
    BY <1>1, <2>1, <2>2, ConflictOf
  <2> QED
    BY <2>3 DEF StatusCycle, q
<1>4. StatusCycle(m, request(modes, {level}, {})) = entered
  <2> DEFINE q == request(modes, {level}, {})
  <2>1. q.entry = {level} /\ q.restore = {}
    OBVIOUS
  <2>2. DOMAIN q.moves = {} /\ DOMAIN q.automatic = {}
    BY <1>2
  <2> HIDE DEF q, m
  <2>3. ~StatusConflict(q)
    BY <2>1, <2>2, ConflictOf
  <2>4. (CHOOSE l \in q.entry : TRUE) = level
    BY <2>1
  <2> QED
    BY <2>1, <2>3, <2>4 DEF StatusCycle, q
<1>5. StatusCycle(entered, request(NoModes, {}, {e})) = WithEntry(entered, e)
  <2> DEFINE q == request(NoModes, {}, {e})
  <2>1. q.entry = {} /\ q.restore = {e} /\ q.modes = NoModes
    OBVIOUS
  <2>2. DOMAIN q.moves = {} /\ DOMAIN q.automatic = {}
    BY <1>2
  <2> HIDE DEF q, entered
  <2>3. ~StatusConflict(q)
    BY <2>1, <2>2, ConflictOf
  <2>4. (CHOOSE x \in q.restore : TRUE) = e
    BY <2>1
  <2> QED
    BY <2>1, <2>3, <2>4 DEF StatusCycle, q
<1>6. WithEntry(entered, e) = m
  BY DEF WithEntry, StatusEntry, WellFormed, Control
<1>7. m.ctl["ICNTL"] = icntl /\ entered.ctl["IMASK"] = mask
  BY DEF WellFormed, Control
<1>8. \A n \in 0 .. level : ~Bit(mask, n)
  <2> HIDE DEF m
  <2> QED
    BY <1>7, EntryMaskBits
<1>9. LET switch == [NoStatusWrites EXCEPT !.modes["SR"] = "SET"]
          restore == [NoStatusWrites EXCEPT !.restore = {e}]
      IN /\ switch = request(modes, {}, {}) /\ restore = request(NoModes, {}, {e})
         /\ [switch EXCEPT !.entry = {level}] = request(modes, {level}, {})
         /\ [restore EXCEPT !.modes = switch.modes] = request(modes, {}, {e})
  <2> DEFINE withModes(q, w) == [q EXCEPT !.modes = w]
             withEntry(q, w) == [q EXCEPT !.entry = w]
             withRestore(q, w) == [q EXCEPT !.restore = w]
  <2>1. \A w, x, y, z :
          /\ withModes(request(w, x, y), z) = request(z, x, y)
          /\ withEntry(request(w, x, y), z) = request(w, z, y)
          /\ withRestore(request(w, x, y), z) = request(w, x, z)
          /\ request(w, x, y).modes = w
    OBVIOUS
  <2>2. NoStatusWrites = request(NoModes, {}, {})
    BY DEF NoStatusWrites
  <2> HIDE DEF withModes, withEntry, withRestore, request, e, modes
  <2>3. [NoStatusWrites EXCEPT !.modes["SR"] = "SET"] = request(modes, {}, {})
    <3>1. [NoStatusWrites EXCEPT !.modes["SR"] = "SET"]
            = withModes(NoStatusWrites, [NoStatusWrites.modes EXCEPT !["SR"] = "SET"])
      BY DEF withModes
    <3>2. NoStatusWrites.modes = NoModes
      BY <2>1, <2>2
    <3>3. withModes(NoStatusWrites, modes) = request(modes, {}, {})
      BY <2>1, <2>2
    <3> QED
      BY <3>1, <3>2, <3>3 DEF modes
  <2>4. withRestore(NoStatusWrites, {e}) = request(NoModes, {}, {e})
    BY <2>1, <2>2
  <2>5. withEntry(request(modes, {}, {}), {level}) = request(modes, {level}, {})
    BY <2>1
  <2>6. withModes(request(NoModes, {}, {e}), request(modes, {}, {}).modes) = request(modes, {}, {e})
    BY <2>1
  <2>7. /\ withRestore(NoStatusWrites, {e}) = [NoStatusWrites EXCEPT !.restore = {e}]
        /\ \A q, w : /\ withEntry(q, w) = [q EXCEPT !.entry = w]
                     /\ withModes(q, w) = [q EXCEPT !.modes = w]
    BY DEF withModes, withEntry, withRestore
  <2> QED
    BY <2>3, <2>4, <2>5, <2>6, <2>7
<1> HIDE DEF request, entered, m, e
<1> QED
  BY <1>3, <1>4, <1>5, <1>6, <1>7, <1>8, <1>9 DEF m, e

\* Ordinary writes of a cycle that moves no status word: the flags its ALU makes and
\* the modes.
LEMMA StatusOfCompute ==
  ASSUME NEW m, WellFormed(m), NEW modes, NEW flags
  PROVE  LET q == [NoStatusWrites EXCEPT !.moves = <<>>, !.modes = modes,
                                         !.automatic = [ALU |-> flags]]
         IN StatusCycle(m, q) = [bank |-> m.bank, flag |-> WithFlags(m, flags).flag,
                                 mode |-> Controlled(m.mode, modes), ctl |-> m.ctl]
<1> DEFINE q == [moves |-> <<>>, automatic |-> [ALU |-> flags], modes |-> modes,
                 entry |-> {}, restore |-> {}]
<1>1. q = [NoStatusWrites EXCEPT !.moves = <<>>, !.modes = modes, !.automatic = [ALU |-> flags]]
  <2> DEFINE request(x, y, w, e, s) == [moves |-> x, automatic |-> y, modes |-> w,
                                        entry |-> e, restore |-> s]
             withMoves(p, x) == [p EXCEPT !.moves = x]
             withModes(p, x) == [p EXCEPT !.modes = x]
             withAutomatic(p, x) == [p EXCEPT !.automatic = x]
             automatic == [ALU |-> flags]
  <2>1. \A x, y, w, e, s, z :
          /\ withMoves(request(x, y, w, e, s), z) = request(z, y, w, e, s)
          /\ withModes(request(x, y, w, e, s), z) = request(x, y, z, e, s)
          /\ withAutomatic(request(x, y, w, e, s), z) = request(x, z, w, e, s)
    OBVIOUS
  <2>2. /\ NoStatusWrites = request(<<>>, <<>>, NoModes, {}, {})
        /\ q = request(<<>>, automatic, modes, {}, {})
    BY DEF NoStatusWrites
  <2>3. [NoStatusWrites EXCEPT !.moves = <<>>, !.modes = modes, !.automatic = [ALU |-> flags]]
          = withAutomatic(withModes(withMoves(NoStatusWrites, <<>>), modes), automatic)
    OBVIOUS
  <2> HIDE DEF withMoves, withModes, withAutomatic, request, automatic, q
  <2>4. withAutomatic(withModes(withMoves(NoStatusWrites, <<>>), modes), automatic) = q
    BY <2>1, <2>2
  <2> QED
    BY <2>3, <2>4
<1>2. /\ DOMAIN q.moves = {} /\ DOMAIN q.automatic = {"ALU"} /\ q.automatic["ALU"] = flags
      /\ q.modes = modes /\ q.entry = {} /\ q.restore = {}
  OBVIOUS
<1> HIDE DEF q
<1>3. ~StatusConflict(q)
  BY <1>2, ConflictOf
<1>4. StatusCycle(m, q) = StatusWritten(m, q)
  BY <1>2, <1>3 DEF StatusCycle
<1>5. (CHOOSE u \in DOMAIN q.automatic : TRUE) = "ALU"
  BY <1>2
<1> DEFINE fl == WithFlags(m, flags).flag
           md == Controlled(m.mode, modes)
<1>6. StatusWritten(m, q) =
        [m EXCEPT !.flag = fl, !.mode = md, !.ctl["ICNTL"] = m.ctl["ICNTL"],
                  !.ctl["IMASK"] = m.ctl["IMASK"]]
  <2>1. /\ MovedOr(q, "ICNTL", m.ctl["ICNTL"]) = m.ctl["ICNTL"]
        /\ MovedOr(q, "IMASK", m.ctl["IMASK"]) = m.ctl["IMASK"]
    BY <1>2 DEF MovedOr
  <2>2. DOMAIN q.automatic # {} /\ "ASTAT" \notin DOMAIN q.moves /\ "MSTAT" \notin DOMAIN q.moves
    BY <1>2
  <2> HIDE DEF md
  <2> QED
    BY <1>2, <1>5, <2>1, <2>2 DEF StatusWritten, md
<1> HIDE DEF fl, md
<1>7. StatusWritten(m, q) = [bank |-> m.bank, flag |-> fl, mode |-> md, ctl |-> m.ctl]
  <2>1. [m.ctl EXCEPT !["ICNTL"] = m.ctl["ICNTL"], !["IMASK"] = m.ctl["IMASK"]] = m.ctl
    BY DEF WellFormed
  <2>2. m = [bank |-> m.bank, flag |-> m.flag, mode |-> m.mode, ctl |-> m.ctl]
    BY DEF WellFormed
  <2> DEFINE machine(b, f, e, c) == [bank |-> b, flag |-> f, mode |-> e, ctl |-> c]
             withFlag(n, x) == [n EXCEPT !.flag = x]
             withMode(n, x) == [n EXCEPT !.mode = x]
             withControl(n, c, x) == [n EXCEPT !.ctl[c] = x]
  <2>3. \A b, f, e, c, x, r :
          /\ withFlag(machine(b, f, e, c), x) = machine(b, x, e, c)
          /\ withMode(machine(b, f, e, c), x) = machine(b, f, x, c)
          /\ withControl(machine(b, f, e, c), r, x) = machine(b, f, e, [c EXCEPT ![r] = x])
    OBVIOUS
  <2>4. [m EXCEPT !.flag = fl, !.mode = md, !.ctl["ICNTL"] = m.ctl["ICNTL"],
                  !.ctl["IMASK"] = m.ctl["IMASK"]]
          = withControl(withControl(withMode(withFlag(m, fl), md), "ICNTL", m.ctl["ICNTL"]),
                        "IMASK", m.ctl["IMASK"])
    OBVIOUS
  <2>5. m = machine(m.bank, m.flag, m.mode, m.ctl)
    BY <2>2
  <2> HIDE DEF machine, withFlag, withMode, withControl
  <2>6. StatusWritten(m, q) =
          machine(m.bank, fl, md, [[m.ctl EXCEPT !["ICNTL"] = m.ctl["ICNTL"]]
                                          EXCEPT !["IMASK"] = m.ctl["IMASK"]])
    BY <1>6, <2>3, <2>4, <2>5
  <2>7. StatusWritten(m, q) = machine(m.bank, fl, md, m.ctl)
    BY <2>1, <2>6
  <2> QED
    BY <2>7 DEF machine
<1> QED
  BY <1>1, <1>4, <1>7 DEF fl, md

\* A cycle of the mode slice that offers the clause c with a move from s to d.
ModeRequest(m, c, d, s, modes) ==
  [clause |-> c, moves |-> <<>>, modes |-> modes,
   dreg |-> [e \in {d} |-> ModeSliceRead(m, s)]]

\* In every machine whose operands are known: the mode slice's cycle is the
\* computation with its move, and then the change of the modes.
LEMMA ModesWait ==
  ASSUME NEW m, Sees(m, m, Modes), NEW c \in AluClauses, AluKnown(m, c),
         NEW d \in DREG, NEW s \in DREG, NEW modes
  PROVE  ModeSliceCycle(m, ModeRequest(m, c, d, s, modes))
           = Type18Retired(Type8Retired(m, [type |-> 8, clause |-> c, dst |-> d, src |-> s]),
                           [type |-> 18, modes |-> modes])
<1> DEFINE p == AluApplied(m, c)
           v == ReadDREG(Bank(m), s)
           x == WithBank(p, StoreDREG(Bank(p), d, v))
           flags == [f \in AluFlags(c.f) |-> p.flag[f]]
           md == Controlled(m.mode, modes)
<1>1. WellFormed(m) /\ c \in Clauses /\ c.unit = "ALU"
  BY DEF Sees, Clauses, AluClauses
<1>2. PICK w, y : p = Computed(m, Bank(m), c, w, y) /\ DOMAIN y = AluFlags(c.f)
  <2> DEFINE w == IF ~c.feedback /\ m.mode["AR"]
                    THEN Saturate(AluRaw(c.f, OrZero(Operand(Bank(m), c.x)),
                           OrZero(Operand(Bank(m), c.y)), Number(OrFalse(m.flag["AC"]))))
                    ELSE AluRaw(c.f, OrZero(Operand(Bank(m), c.x)),
                           OrZero(Operand(Bank(m), c.y)), Number(OrFalse(m.flag["AC"]))).raw
  <2>1. \E y : /\ p = WithFlags(WithBank(m, StoreALU(Bank(m), c.feedback, w)), y)
               /\ DOMAIN y = AluFlags(c.f)
    BY DEF AluApplied
  <2>2. StoreUnit(Bank(m), c, w) = StoreALU(Bank(m), c.feedback, w)
    BY <1>1 DEF StoreUnit
  <2> HIDE DEF w, p
  <2> QED
    BY <2>1, <2>2 DEF Computed
<1> HIDE DEF p
<1> DEFINE b == StoreUnit(Bank(m), c, w)
           n == WithBank(m, b)
<1>3. /\ BankSees(b, b) /\ BankSees(Bank(m), Bank(m)) /\ "SR" \in Modes
  BY <1>1, BankSeen, NamedBits, StoreUnitShape
<1>4. WellFormed(n) /\ n.flag = m.flag /\ n.mode = m.mode /\ n.ctl = m.ctl
  BY <1>1, <1>3, WithBankShape DEF BankSees
<1>5. p = WithFlags(n, y)
  BY <1>2 DEF Computed
<1> HIDE DEF n, b
<1>6. /\ WellFormed(p) /\ p.mode = m.mode /\ p.ctl = m.ctl
      /\ p.flag = [f \in Flags |-> IF f \in DOMAIN y THEN y[f] ELSE m.flag[f]]
  <2> DEFINE z == [f \in DOMAIN n.flag |-> IF f \in DOMAIN y THEN y[f] ELSE n.flag[f]]
  <2>1. p = [n EXCEPT !.flag = z]
    BY <1>5 DEF WithFlags
  <2>2. z = [f \in Flags |-> IF f \in DOMAIN y THEN y[f] ELSE m.flag[f]]
    BY <1>4 DEF WellFormed, Flags
  <2>3. z = [f \in Flags |-> z[f]]
    BY <2>2
  <2> HIDE DEF z
  <2> QED
    BY <1>4, <2>1, <2>2, <2>3, NewFlags
<1>7. WithFlags(m, flags).flag = p.flag
  <2>1. DOMAIN m.flag = Flags /\ AluFlags(c.f) \subseteq Flags
    BY <1>1, NamedBits DEF WellFormed, Flags, AluFlags
  <2> DEFINE z == [f \in Flags |-> IF f \in AluFlags(c.f) THEN flags[f] ELSE m.flag[f]]
  <2>2. z = p.flag
    BY <1>2, <1>6, <2>1
  <2>3. z = [f \in Flags |-> z[f]]
    OBVIOUS
  <2>4. WithFlags(m, flags) = [m EXCEPT !.flag = z]
    BY <2>1 DEF WithFlags
  <2> HIDE DEF z, flags
  <2>5. [m EXCEPT !.flag = z].flag = z
    BY <1>1, <2>3, NewFlags
  <2> QED
    BY <2>2, <2>4, <2>5
<1> HIDE DEF flags
<1>8. Compute(m, c) = p
  BY <1>1 DEF Compute, p
<1>9. WellFormed(x) /\ x.flag = p.flag /\ x.mode = m.mode /\ x.ctl = m.ctl
  <2>1. Sees(p, p, Modes)
    BY <1>1, <1>8, ComputeSees
  <2>2. BankSees(Bank(p), Bank(p)) /\ Honest(v, v)
    BY <1>3, <2>1, BankSeen DEF Honest
  <2>3. BankSees(StoreDREG(Bank(p), d, v), StoreDREG(Bank(p), d, v))
    BY <2>2, StoreDREGSees
  <2> QED
    BY <1>6, <2>3, WithBankShape DEF BankSees
<1>10. Type8Retired(m, [type |-> 8, clause |-> c, dst |-> d, src |-> s]) = x
  <2> DEFINE i == [type |-> 8, clause |-> c, dst |-> d, src |-> s]
  <2>1. i.clause = c /\ i.dst = d /\ i.src = s
    OBVIOUS
  <2> HIDE DEF i
  <2>2. Type8Retired(m, i) = MoveDREG(p, m, i)
    BY <1>8, <2>1 DEF Type8Retired
  <2>3. MoveDREG(p, m, i) = x
    BY <2>1 DEF MoveDREG
  <2> QED
    BY <2>2, <2>3 DEF i
<1> HIDE DEF x, v, md
<1>11. Type18Retired(x, [type |-> 18, modes |-> modes])
         = [bank |-> x.bank, flag |-> p.flag, mode |-> md, ctl |-> m.ctl]
  <2>1. Type18Retired(x, [type |-> 18, modes |-> modes]) = [x EXCEPT !.mode = md]
    BY <1>9 DEF Type18Retired, Controlled, md
  <2>2. x = [bank |-> x.bank, flag |-> p.flag, mode |-> m.mode, ctl |-> m.ctl]
    BY <1>9 DEF WellFormed
  <2> QED
    BY <2>1, <2>2
<1>12. ModeSliceCycle(m, ModeRequest(m, c, d, s, modes))
         = [bank |-> x.bank, flag |-> p.flag, mode |-> md, ctl |-> m.ctl]
  <2> DEFINE q == ModeRequest(m, c, d, s, modes)
             kept == [NoStatusWrites EXCEPT !.moves = <<>>, !.modes = modes,
                                            !.automatic = [ALU |-> flags]]
             status == StatusCycle(m, kept)
  <2>1. /\ q.clause = c /\ q.moves = <<>> /\ q.modes = modes
        /\ DOMAIN q.dreg = {d} /\ q.dreg[d] = v
    BY DEF ModeRequest, ModeSliceRead, v
  <2>2. status = [bank |-> m.bank, flag |-> p.flag, mode |-> md, ctl |-> m.ctl]
    BY <1>1, <1>7, StatusOfCompute DEF md
  <2>3. DOMAIN q.dreg # {} /\ (CHOOSE e \in DOMAIN q.dreg : TRUE) = d
    BY <2>1
  <2> HIDE DEF q, status
  <2>4. ModeSliceCycle(m, q) = [status EXCEPT !.bank = x.bank]
    BY <2>1, <2>3 DEF ModeSliceCycle, p, x, status, kept, flags
  <2>5. [status EXCEPT !.bank = x.bank]
          = [bank |-> x.bank, flag |-> p.flag, mode |-> md, ctl |-> m.ctl]
    BY <2>2
  <2> QED
    BY <2>4, <2>5 DEF q
<1> QED
  BY <1>10, <1>11, <1>12

\* What one cycle writes, it writes at once: the two clauses of a word, the two
\* writes of its banks, the modes beside a computation and the status that an
\* interrupt entry pushes, for every program, width and content of the registers.
THEOREM CyclesAreAtOnce == Spec => []CyclesCommitAtOnce
<1>1. ActualInv => ModesOfCycleStart
  <2> SUFFICES ASSUME ActualInv,
                      NEW i \in Instructions, i.type = 8, i.clause.unit = "ALU",
                      NEW modes, AluKnown(actual, i.clause)
               PROVE  ModeSliceCycle(actual, ModeRequest(actual, i.clause, i.dst, i.src, modes))
                        = Type18Retired(Retired(actual, i, FALSE), [type |-> 18, modes |-> modes])
    BY DEF ModesOfCycleStart, ModeRequest
  <2>1. i \in Type8 /\ Sees(actual, actual, Modes)
    BY ActualTypes, TypeOf DEF ActualInv
  <2>2. /\ i = [type |-> 8, clause |-> i.clause, dst |-> i.dst, src |-> i.src]
        /\ i.clause \in AluClauses /\ i.dst \in DREG /\ i.src \in DREG
    BY <2>1 DEF Type8, Type8With, AluClauses, MacClauses
  <2>3. Retired(actual, i, FALSE) = Type8Retired(actual, i)
    BY DEF Retired, ClausesRetired
  <2> DEFINE c == i.clause
             word == [type |-> 8, clause |-> c, dst |-> i.dst, src |-> i.src]
  <2>4. ModeSliceCycle(actual, ModeRequest(actual, c, i.dst, i.src, modes))
          = Type18Retired(Type8Retired(actual, word), [type |-> 18, modes |-> modes])
    <3>1. c \in AluClauses /\ AluKnown(actual, c) /\ i.dst \in DREG /\ i.src \in DREG
      BY <2>2
    <3> HIDE DEF c
    <3> QED
      BY <2>1, <3>1, ModesWait
  <2>5. word = i
    BY <2>2
  <2> HIDE DEF word
  <2> QED
    BY <2>3, <2>4, <2>5
<1>2. ActualInv => StatusSurvivesEntry
  <2> SUFFICES ASSUME ActualInv PROVE StatusSurvivesEntry
    OBVIOUS
  <2>1. WellFormed(actual)
    BY DEF ActualInv, Sees
  <2> QED
    BY <2>1, StatusKept DEF StatusSurvivesEntry
<1>3. /\ ClausesActAtOnce /\ SupportedWritesFit /\ ModesOfCycleStart /\ StatusSurvivesEntry
      => CyclesCommitAtOnce
  BY DEF CyclesCommitAtOnce
<1> QED
  BY <1>1, <1>2, <1>3, ClausesAreAtOnce, SupportedFits, InitActual, StepKeepsActual, PTL DEF Spec

=============================================================================
