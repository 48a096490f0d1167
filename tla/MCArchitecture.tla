------------------------------ MODULE MCArchitecture ------------------------------
(* A program for each source of doubt the reference models know.             *)
EXTENDS Architecture

B(names) == {"bank"} \X names
F(names) == {"flag"} \X names
M(names) == {"mode"} \X names
C(names) == {"ctl"} \X names

Alu(f, feedback, x, y) == [unit |-> "ALU", f |-> f, feedback |-> feedback, x |-> x, y |-> y]

Mult(op, round, feedback, x, y) ==
  [unit |-> "MAC", feedback |-> feedback, x |-> x, y |-> y,
   f |-> [op |-> op, xSigned |-> TRUE, ySigned |-> TRUE, round |-> round]]

T8(clause, dst, src) == [type |-> 8, clause |-> clause, dst |-> dst, src |-> src]
T9(clause, code) == [type |-> 9, clause |-> clause, condition |-> code]
Sh(op, high, or) == [op |-> op, high |-> high, or |-> or]
Det(op) == [op |-> op]
T14(f, x, dst, src) == [type |-> 14, f |-> f, x |-> x, dst |-> dst, src |-> src]
T16(f, x, code) == [type |-> 16, f |-> f, x |-> x, condition |-> code]
T17(dst, src) == [type |-> 17, dst |-> dst, src |-> src]

Keep == [b \in {"SR", "BR", "OL", "AR"} |-> "KEEP"]

Code(code, inputs) == [code |-> code, inputs |-> inputs]

\* Programs of one type, for its slice and for the core.
Either ==
  << Code(<<T8(Alu("X-Y+C-1", FALSE, "AX0", "AY0"), "AX1", "AR")>>,
         B({"AX0", "AY0", "AR"}) \cup F({"AC"}) \cup M({"SR"})),
    Code(<<T8(Alu("X+Y", FALSE, "AX0", "AY0"), "MR1", "SI")>>,
         B({"AX0", "AY0", "SI"}) \cup F({"AV"}) \cup M({"OL", "AR"})),
    Code(<<T8(Alu("ABS", TRUE, "AR", "AF"), "AR", "MR2")>>,
         B({"AR", "MR2"}) \cup M({"SR", "OL"}) \cup F({"AV"})),
    Code(<<T8(Mult(2, FALSE, FALSE, "MX0", "MY0"), "MX0", "MR0")>>,
         B({"MX0", "MY0", "MR0", "MR1", "MR2"})),
    Code(<<T8(Mult(1, TRUE, TRUE, "MR2", "MF"), "MR1", "SE")>>, B({"MR2", "MF", "SE"})),
    Code(<<T8(Mult(1, FALSE, FALSE, "MX0", "MY0"), "MR1", "SI")>>, B({"MX0", "MY0"})),
    Code(<<T9(Alu("X+Y+C", FALSE, "AX0", "AY1"), "GT")>>,
         B({"AX0", "AY1"}) \cup F({"AZ", "AN", "AV", "AC"})),
    Code(<<T9(Alu("NOT Y", FALSE, "AX0", "AY1"), "NEG")>>,
         B({"AX0", "AY1"}) \cup F({"AS"}) \cup M({"OL", "AR"})),
    Code(<<T9(Mult(3, FALSE, FALSE, "MX0", "ZERO"), "NOT MV")>>,
         B({"MX0", "MR0", "MR2"}) \cup F({"MV"})),
    Code(<<T9([unit |-> "NOP"], "NE")>>, F({"AZ"}) \cup B({"AR"})),
    Code(<<T14(Sh("NORM", TRUE, TRUE), "SI", "SE", "SR1")>>,
         B({"SI", "SE", "SR0", "SR1"}) \cup F({"AC"})),
    Code(<<T14(Det("EXP LO"), "SI", "SR0", "SE")>>, B({"SI", "SE"}) \cup F({"SS", "AV"})),
    Code(<<T14(Det("EXP HI"), "SI", "SE", "SI")>>, B({"SI", "SE"})),
    Code(<<[type |-> 15, f |-> Sh("ASHIFT", TRUE, FALSE), x |-> "MR2", shift |-> 14]>>,
         B({"MR2", "SR0"}) \cup M({"SR"})),
    Code(<<[type |-> 15, f |-> Sh("LSHIFT", FALSE, TRUE), x |-> "SI", shift |-> 1]>>,
         B({"SI", "SR0", "SR1"})),
    Code(<<T16(Det("EXP HIX"), "AR", "EQ")>>, B({"AR", "SE"}) \cup F({"AZ", "AV", "SS"})),
    Code(<<T16(Det("EXPADJ"), "AR", "NOT AC")>>, B({"AR", "SB"}) \cup F({"AC"})),
    Code(<<[type |-> 24, x |-> "AX0", y |-> "AY1"]>>, B({"AX0", "AY0", "AY1"}) \cup M({"SR"})),
    Code(<<[type |-> 23, x |-> "AX0"]>>, B({"AX0", "AY0", "AF"}) \cup F({"AQ"})),
    Code(<<[type |-> 25]>>, B({"MR0", "MR1", "MR2"}) \cup F({"MV", "AZ"})),
    Code(<<[type |-> 6, dst |-> "MR1", data |-> 9]>>, B({"MR1", "MR2"}) \cup M({"SR"})),
    Code(<<[type |-> 7, dst |-> "MSTAT", data |-> 1]>>, M({"SR", "AR"})),
    Code(<<[type |-> 7, dst |-> "SB", data |-> 5]>>, B({"SB"}) \cup M({"SR"})),
    Code(<<[type |-> 7, dst |-> "ASTAT", data |-> 5]>>, F({"AZ", "AC"})),
    Code(<<T17("MSTAT", "SI")>>, B({"SI"}) \cup M({"SR", "OL"})),
    Code(<<T17("ASTAT", "MSTAT")>>, F({"AZ"}) \cup M({"SR", "AR"})),
    Code(<<T17("MR1", "M")>>, C({"M"}) \cup B({"MR2"}) \cup M({"SR"})),
    Code(<<T17("IMASK", "SE")>>, C({"IMASK"}) \cup B({"SE"}) \cup M({"SR"})),
    Code(<<T17("PX", "ASTAT")>>, C({"PX"}) \cup F({"AZ", "AN"})),
    Code(<<[type |-> 18, modes |-> [Keep EXCEPT !["SR"] = "SET"]]>>, M({"SR", "OL"})),
    Code(<<[type |-> 21]>>, C({"I", "M", "L"})) >>

\* Programs whose instructions hand their doubts on.
Handovers ==
  << Code(<<[type |-> 24, x |-> "AX0", y |-> "AY1"], [type |-> 23, x |-> "AX0"]>>,
         B({"AX0", "AY0", "AY1"}) \cup F({"AQ"})),
    Code(<<T17("MSTAT", "SI"), T8(Alu("X+Y", FALSE, "AX0", "AY0"), "AX0", "AR")>>,
         B({"SI", "AX0", "AY0"}) \cup M({"SR", "AR"})),
    Code(<<T17("MSTAT", "SI"), [type |-> 18, modes |-> [Keep EXCEPT !["SR"] = "CLEAR"]],
           [type |-> 6, dst |-> "SE", data |-> 14]>>,
         B({"SI", "SE"}) \cup M({"SR", "BR"})),
    Code(<<T9(Mult(2, FALSE, FALSE, "MX0", "MY0"), "TRUE"), [type |-> 25]>>,
         B({"MX0", "MY0", "MR1", "MR2"}) \cup F({"MV"})),
    Code(<<T9(Alu("X+Y", FALSE, "AX0", "AY0"), "NOT CE"), [type |-> 7, dst |-> "CNTR", data |-> 1]>>,
         B({"AX0", "AY0"}) \cup F({"AZ"})),
    Code(<<T17("M", "CNTR"), [type |-> 21]>>, C({"CNTR", "I", "M", "L"})) >>

At(host, codes) ==
  [n \in DOMAIN codes |-> [host |-> host, code |-> codes[n].code, inputs |-> codes[n].inputs]]

MCPrograms == At("SLICE", Either) \o At("CORE", Either \o Handovers)

\* Programs that test a counter nobody has loaded.
MCCounterPrograms ==
  At("CORE", <<Code(<<T9(Alu("X+Y", FALSE, "AX0", "AY0"), "NOT CE")>>,
                   B({"AX0"}) \cup C({"CNTR"})),
              Code(<<T16(Det("EXP HI"), "AR", "NOT CE")>>, B({"AR"}) \cup C({"CNTR"}))>>)

MCSamples ==
  [r \in Banked \cup Control |->
     CASE r = "SE" -> {1, AllSign}
       [] r \in {"MR2", "CNTR"} -> {1, 2}
       [] r = "L" -> {0, 3}
       [] r \in {"SB", "I"} -> {1, 6}
       [] r = "M" -> {1, 7}
       [] OTHER -> {5, 2 ^ W - 2}]

=============================================================================
