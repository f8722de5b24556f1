------------------------------- MODULE RevISA -------------------------------
(***************************************************************************)
(* A core from its machine model string to the functions it runs.  Boot    *)
(* parses the string, loads the instruction tables of the extensions and   *)
(* indexes them.  Step decodes and executes one instruction word of the    *)
(* program; Operate and OperateFP run the integer and the floating-point   *)
(* functions on register values.  What a word means is RISCVAsm's          *)
(* definition; what the core does with it is RevDecode's, RevInsns' and    *)
(* RevFloat's.                                                             *)
(***************************************************************************)
EXTENDS RISCVAsm, RevInsns, RevFloat

CONSTANTS Machines,        \* machine models: [rv64, names (the extensions), coproc]
          RegSets,         \* registers <<rd, rs1, rs2, rs3>> programs use
          Operands,        \* values Operate puts in registers
          Floats, FewFloats,   \* values OperateFP puts in rs1, and in rs2 and rs3
          PF, PD           \* significant bits of a float and of a double

VARIABLES machine, power, asm, ran, values, floats

vars == <<machine, power, asm, ran, values, floats>>

Features(m) == ParseMachineModel(m.names).features

Core == [m \in {n \in Machines : ParseMachineModel(n.names).ok} |->
           LoadInstructionTable(m.rv64, Features(m))]

-----------------------------------------------------------------------------
(* Programs: every instruction of the extensions the string names, with the registers of       *)
(* RegSets, every rounding mode and every one-bit and one-bit-missing immediate.               *)

Rows(m) ==
  LET Of(f, e32, e64) == IF f \notin Features(m) THEN {}
                         ELSE ToSet(e32) \cup (IF m.rv64 THEN ToSet(e64) ELSE {})
  IN Of("I", RV32ITable, RV64ITable) \cup Of("M", RV32MTable, RV64MTable)
     \cup Of("A", RV32ATable, RV64ATable) \cup Of("F", RV32FTable, RV64FTable)
     \cup Of("D", RV32DTable, RV64DTable) \cup Of("Zicbom", ZicbomTable, <<>>)

RoundingModes == {0, 1, 2, 3, 4, 7}
OneRegs == CHOOSE r \in RegSets : \A k \in 1..4 : r[k] # 0

Base(m) ==
  UNION {{Assemble(e, r, {}, 7) : r \in RegSets}
         \cup {Assemble(e, OneRegs, imm, 7) : imm \in Patterns(ImmBits(e.func, m.rv64))}
         \cup {Assemble(e, OneRegs, {}, rm) : rm \in RoundingModes} : e \in Rows(m)}

Forms(m) ==
  {c \in CForms : c.func \in {"fld", "fsd"} => "D" \in Features(m)}
  \cup (IF m.rv64 THEN CForms64
        ELSE CForms32 \cup (IF "F" \in Features(m) /\ "D" \notin Features(m) THEN CForms32F ELSE {}))

\* Encodings that are reserved, or hints, are not instructions a program means.
Legal(m, a) ==
  /\ a.name \in {"c.addi4spn", "c.addi16sp", "c.lui"} => a.imm # {}
  /\ a.name = "c.lui" => a.rd \notin {0, 2}
  /\ a.name \in {"c.lwsp", "c.ldsp", "c.add", "c.addiw"} => a.rd # 0
  /\ a.name \in {"c.mv", "c.add"} => a.rs2 # 0
  /\ a.name \in {"c.jr", "c.jalr"} => a.rs1 # 0
  /\ a.func \in {"slli", "srli", "srai"} /\ ~m.rv64 => 5 \notin a.imm

Compressed(m) ==
  LET Imms(c) == Patterns({c.lo + k - 1 : k \in DOMAIN c.at})
  IN {a \in UNION {{AssembleC(c, [lo \in {2, 7} |-> IF lo = 2 THEN r[1] ELSE r[2]], imm) :
                      r \in RegSets, imm \in Imms(c)} : c \in Forms(m)} : Legal(m, a)}

\* Words of the co-processor: a custom opcode, and a compressed encoding the standard leaves free.
Foreign == {Written("custom", "nop", OneRegs, {}, 7, w) :
              w \in {BitsOf(11, 0) \cup BitsOf(r[1], 7) \cup BitsOf(r[2], 15) : r \in RegSets}}
CForeign == {Written("c.custom", "nop", OneRegs, {}, 7, w) :
               w \in {BitsOf(4, 13) \cup BitsOf(r[1] % 8, 7) \cup BitsOf(r[2] % 8, 2) : r \in RegSets}}

Programs == [m \in DOMAIN Core |->
               Base(m) \cup (IF "C" \in Features(m) THEN Compressed(m) ELSE {})
                       \cup (IF m.coproc THEN Foreign \cup CForeign ELSE {})]

-----------------------------------------------------------------------------
NoAsm == Written("", "nop", <<0, 0, 0, 0>>, {}, 7, {})
NoFloats == <<<<FALSE, 0>>, <<FALSE, 0>>, <<FALSE, 0>>>>
Nothing == [func |-> "nop", inst |-> RevInst, cls |-> xxxx, co |-> FALSE]

Init ==
  /\ machine \in Machines
  /\ power = "off"
  /\ asm = NoAsm
  /\ ran = Nothing
  /\ values = <<0, 0>>
  /\ floats = NoFloats

\* The constructors of RevFeature and RevProc; a string that does not parse ends the simulation.
Boot ==
  /\ power = "off"
  /\ power' = IF ParseMachineModel(machine.names).ok THEN "on" ELSE "dead"
  /\ UNCHANGED <<machine, asm, ran, values, floats>>

Decode(m, word) == DecodeInst(Core[m], word, m.rv64, "C" \in Features(m), m.coproc)

Run(core, d) ==
  LET f == Execute(core, d)
      call == Expand(f, d.inst)
  IN IF f = Fatal THEN [Nothing EXCEPT !.func = Fatal]
     ELSE [func |-> call.func, inst |-> call.inst, cls |-> core.InstTable[d.entry].cls,
           co |-> d.isCoProcInst]

\* FetchAndDecodeInst, DecodeInst and Execute on the next word of the program.
Step ==
  /\ power = "on"
  /\ \E a \in Programs[machine] :
       /\ asm' = a
       /\ ran' = Run(Core[machine], Decode(machine, a.word))
       /\ power' = IF ran'.func = Fatal THEN "dead" ELSE "busy"
  /\ UNCHANGED <<machine, values, floats>>

\* An integer instruction on values of rs1 and rs2 (or the immediate).
Operate ==
  /\ power = "on"
  /\ values' \in {<<SetX(machine.rv64, v), SetX(machine.rv64, w)>> : v, w \in Operands}
  /\ power' = "busy"
  /\ UNCHANGED <<machine, asm, ran, floats>>

OperateFP ==
  /\ power = "on"
  /\ "F" \in Features(machine)
  /\ floats' \in Floats \X FewFloats \X FewFloats
  /\ power' = "busy"
  /\ UNCHANGED <<machine, asm, ran, values>>

Retire ==
  /\ power = "busy"
  /\ power' = "on"
  /\ asm' = NoAsm
  /\ ran' = Nothing
  /\ values' = <<0, 0>>
  /\ floats' = NoFloats
  /\ UNCHANGED machine

Next == Boot \/ Step \/ Operate \/ OperateFP \/ Retire

Spec == Init /\ [][Next]_vars

-----------------------------------------------------------------------------
TypeOK ==
  /\ machine \in Machines
  /\ power \in {"off", "on", "busy", "dead"}
  /\ power \in {"off", "on"} => asm = NoAsm /\ ran = Nothing
  /\ ran.inst.imm \subseteq 0..31
  /\ \A v \in {values[1], values[2]} : v \in 0..(2^Bits(machine.rv64) - 1)

\* The immediate a function works with.
Effective(f, fmt, imm) ==
  CASE f \in Shifts -> imm \cap (IF f \in {"slliw", "srliw", "sraiw"} THEN 0..4 ELSE 0..5)
    [] f \in {"lui", "auipc"} -> {i + 12 : i \in imm} \cap (0..31)
    [] fmt = "B" -> SignExt(imm, 13)
    [] fmt = "J" -> SignExt(imm, 21)
    [] OTHER -> SignExt(imm, 12)

AsWritten(a, r) ==
  /\ r.func = a.func
  /\ \A operand \in {"rd", "rs1", "rs2", "rs3"} :
       Has(a.func, operand) => r.inst[operand] = a[operand]
  /\ Has(a.func, "imm") => Effective(a.func, BaseRow[a.func].fmt, r.inst.imm) = a.imm
  /\ Has(a.func, "rm") => SetFPEnv(r.inst.rm) = SetFPEnv(a.rm) /\ a.rm # 4

\* What the decoder is known to get wrong: 32-bit ebreak, whose encoding is looked up one bit off;
\* the source of sc.d; cbo.clean and cbo.flush, which change places; the rounding mode of the
\* fused operations and mode 4; c.jr, which writes rs1; offsets of c.sw, and of c.fsd on a 32-bit
\* core; and the optional compressed instructions of a 32-bit core, which run other functions.
Misread(m, a) ==
  \/ a.name = "ebreak"
  \/ a.func = "scd" /\ a.rs2 # 0
  \/ a.func \in {"CleanLine", "FlushLine"}
  \/ Has(a.func, "rm") /\ a.rm = 4
  \/ BaseRow[a.func].fmt = "R4" /\ a.rm \notin {0, 7}
  \/ a.name = "c.jr"
  \/ a.name = "c.sw" /\ a.imm \cap (3..5) # {}
  \/ a.name = "c.fsd" /\ ~m.rv64 /\ a.imm \cap (6..7) # {}
  \/ a.name \in {"c.jal", "c.flw", "c.fsw", "c.flwsp", "c.fswsp"}

\* A word the tables do not have, and ebreak with them, goes to the co-processor and is a no-op
\* to the core (DecodeInst, RevProc.cc:1457: "Create NOP - ADDI x0, x0, 0"); a compressed one is
\* run as c.addi of its own fields (RevProc.cc:936).
CoProcNop ==
  /\ ran.co <=> machine.coproc /\ asm.name \in {"custom", "c.custom", "ebreak"}
  /\ asm.name = "custom" => ran.func = "addi" /\ ran.inst.rd = 0
  /\ asm.name = "c.custom" => ran.func = "addi" /\ ran.inst.rd = ran.inst.rs1

\* DependencyCheck (RevProc.cc:1578) looks up the registers an instruction uses in the register
\* files the class of its table entry names: they are the files its function uses, except for the
\* address of fsd, the data of c.fsd and the data of sc.d.
Unchecked(r) ==
  {k \in 1..4 : LET operand == <<"rd", "rs1", "rs2", "rs3">>[k]
                IN /\ Has(r.func, operand)
                   /\ r.cls[k] # IF operand \in FloatOperands(r.func) THEN "F" ELSE "G"}

SourcesChecked ==
  power = "busy" /\ ran.func \in DOMAIN BaseRow =>
    Unchecked(ran) = CASE asm.name = "fsd" -> {2} [] asm.name \in {"c.fsd", "scd"} -> {3}
                       [] OTHER -> {}

\* ParseMachineModel (RevFeature.cc:34) accepts the strings that name extensions in canonical
\* order, each once, and only those.
AcceptsCanonical ==
  LET Place(name) == CHOOSE k \in DOMAIN ExtensionNames : ExtensionNames[k][1] = name
      names == machine.names
  IN power # "off" =>
       (power = "dead" /\ asm = NoAsm
          <=> names = <<>> \/ \E k \in 1..(Len(names) - 1) : Place(names[k]) >= Place(names[k + 1]))

\* An instruction of the program (DecodeInst, RevProc.cc:1359, and Execute, RevExt.cc:46) runs the
\* function of that instruction on the registers, immediate and rounding mode it was assembled
\* with, for every machine model that ParseMachineModel has to accept; the exceptions are exactly
\* those of Misread.  A word of the co-processor is a no-op to the core.
RunsAsWritten ==
  /\ TypeOK
  /\ asm.name # "" /\ asm.func # "nop" => (AsWritten(asm, ran) <=> ~Misread(machine, asm))
  /\ AcceptsCanonical /\ CoProcNop

-----------------------------------------------------------------------------
x == values[1]
y == values[2]
Value(f) == Result(machine.rv64, f, x, y)
XLEN == Bits(machine.rv64)

\* Division and remainder (divrem, RevInstHelpers.h:287) fit together: the dividend is the divisor
\* times the quotient plus the remainder, which is smaller than the divisor and has the sign of
\* the dividend; dividing by zero gives all ones and leaves the dividend.
DivisionLaw ==
  \A d \in {<<"div", "rem", XLEN, TRUE>>, <<"divu", "remu", XLEN, FALSE>>,
            <<"divw", "remw", W, TRUE>>, <<"divuw", "remuw", W, FALSE>>} :
    LET n == d[3]
        a == As(x, n, d[4])
        b == As(y, n, d[4])
        q == As(Value(d[1]), n, d[4])
        r == As(Value(d[2]), n, d[4])
    IN IF b = 0 THEN Unsigned(q, n) = 2^n - 1 /\ r = a
       ELSE /\ Unsigned(b * q + r, n) = Unsigned(a, n)
            /\ Magnitude(r) < Magnitude(b)
            /\ r # 0 => (r < 0 <=> a < 0)

\* mul and the upper product of each signedness (uppermul, RevInstHelpers.h:260) are the two
\* halves of the exact product.
ProductExact ==
  \A f \in DOMAIN Upper :
    As(Value(f), XLEN, Upper[f][1]) * 2^XLEN + Value("mul")
      = As(x, XLEN, Upper[f][1]) * As(y, XLEN, Upper[f][2])

\* A word instruction of a 64-bit core (W_MODE of oper and divrem) computes what a 32-bit core
\* computes on the low words, sign-extended.
WordForms ==
  LET Of32 == [addw |-> "add", addiw |-> "addi", subw |-> "sub", mulw |-> "mul", sllw |-> "sll",
               slliw |-> "slli", srlw |-> "srl", srliw |-> "srli", sraw |-> "sra",
               sraiw |-> "srai", divw |-> "div", divuw |-> "divu", remw |-> "rem", remuw |-> "remu"]
  IN machine.rv64 =>
       \A f \in DOMAIN Of32 :
         Value(f) = SetX(TRUE, AsSigned(Result(FALSE, Of32[f], Unsigned(x, W), Unsigned(y, W)), W))

\* A branch is taken (bcond, RevInstHelpers.h:324) exactly when the compare instruction of the same
\* order says so, and equality when the difference and the exclusive or are zero.
BranchesAgree ==
  LET Taken(f) == bcond(machine.rv64, Conditions[f], x, y)
  IN /\ Taken("blt") <=> Value("slt") = 1
     /\ Taken("bltu") <=> Value("sltu") = 1
     /\ Taken("bge") <=> Value("slt") = 0
     /\ Taken("bgeu") <=> Value("sltu") = 0
     /\ Taken("beq") <=> Value("sub") = 0
     /\ Taken("bne") <=> Value("f_xor") # 0

\* A return address a jump links (jal and jalr, RV32I.h:316 and 322) brings the next jalr behind
\* the jump, for both sizes of instructions, also when jalr links the register it jumps through.
JumpsReturn ==
  \A size \in {2, 4} :
    LET pc == x - (x % 2)
        call == jal(machine.rv64, pc, y, size)
        back == jalr(machine.rv64, call.pc, call.rd, 0, size)
        swap == jalr(machine.rv64, pc, y, 0, size)
    IN /\ back.pc = SetX(machine.rv64, pc + size)
       /\ jalr(machine.rv64, swap.pc, swap.rd, 0, size).pc = back.pc

\* The integer instructions of RV32I, RV64I, RV32M and RV64M fit together as the manual says.
IntegerLaws == DivisionLaw /\ ProductExact /\ WordForms /\ BranchesAgree /\ JumpsReturn

-----------------------------------------------------------------------------
a1 == floats[1]
a2 == floats[2]
a3 == floats[3]

\* A conversion (CvtFpToInt, RevInstHelpers.h:28) truncates, and clips at the limits of the
\* integer type, "whether signed or unsigned"; the one exception is the power of two above a
\* maximum that the format cannot hold, for which the cast is undefined.
ConversionsClip ==
  \A P \in {PF, PD}, n \in {W, 2 * W}, signed \in BOOLEAN :
    LET max == IF signed THEN 2^(n - 1) - 1 ELSE 2^n - 1
        min == IF signed THEN -(2^(n - 1)) ELSE 0
        whole == IF a1[1] THEN -(a1[2] \div 2) ELSE a1[2] \div 2
        clip == IF IsNaN(a1) \/ whole > max THEN max ELSE IF whole < min THEN min ELSE whole
        edge == a1 = <<FALSE, 2 * (max + 1)>> /\ ~Holds(P, 2 * max)
    IN Holds(P, a1[2]) \/ a1[2] >= Inf => (CvtFpToInt(P, n, signed, a1) = {clip} <=> ~edge)

\* The fused operations (RevInstHelpers.h:342) are the sums and differences of the product that
\* their names say, with the sign of a zero that one rounding gives; fnmadd negates the sum
\* instead of its terms, and a sum of zero comes out with the other sign.
FusedSigns ==
  a1[2] < 40 =>
    /\ fmsub(a1, a2, a3) = fma(a1, a2, Neg(a3))
    /\ fnmsub(a1, a2, a3) = fma(a1, Neg(a2), a3)
    /\ Val(fnmadd(a1, a2, a3)) = Val(fma(Neg(a1), a2, Neg(a3)))
    /\ fnmadd(a1, a2, a3) = fma(Neg(a1), a2, Neg(a3)) <=>
         ~(Zero(fma(a1, a2, a3)) /\ (a1[1] # a2[1]) # a3[1])

\* fmin and fmax split two numbers, and fclass orders them: the class of the minimum is not above
\* that of the maximum; the sign injections obey the rules for absolute value and negation.
OrderAndSigns ==
  /\ ~IsNaN(a1) /\ ~IsNaN(a2) =>
       \A l \in FMin(a1, a2), h \in FMax(a1, a2) :
         Val(l) <= Val(h) /\ (Val(l) # Val(h) => fclass(l) <= fclass(h) /\ {l, h} = {a1, a2})
  /\ fsgnjx(a1, a1) = <<FALSE, a1[2]>> /\ fsgnjn(a1, a1) = Neg(a1)
  /\ fsgnjx(fsgnjx(a1, a2), a2) = a1

\* A float written to a register (SetFP, RevRegFile.h:315) over a double is read back as it was
\* and stored as it was; a double read as a float is NaN, on a core with D.
BoxedFloats ==
  LET hasD == "D" \in Features(machine)
      old == [hi |-> "double", lo |-> a2]
      new == SetFPFloat(hasD, old, a1)
  IN /\ \A raw \in BOOLEAN : GetFPFloat(hasD, new, raw) = a1
     /\ hasD => GetFPFloat(hasD, old, FALSE) = Canonical /\ GetFPFloat(hasD, old, TRUE) = a2

\* Conversions, fused operations, comparisons and NaN boxing of RV32F and RV32D obey their laws,
\* with the exceptions named above.
FloatLaws == ConversionsClip /\ FusedSigns /\ OrderAndSigns /\ BoxedFloats
=============================================================================
