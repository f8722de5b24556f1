------------------------------ MODULE RISCVAsm ------------------------------
(***************************************************************************)
(* What a program means by an instruction word: the encodings of the       *)
(* RISC-V instruction formats, and for each compressed instruction the     *)
(* base instruction it stands for.  This is the side of the tool chain     *)
(* that builds the programs Rev runs, not code of the simulator.  An       *)
(* assembled instruction carries the word and the operation, registers,    *)
(* immediate and rounding mode the program asks for.                       *)
(***************************************************************************)
EXTENDS RevDecode

BaseTables == <<RV32ITable, RV64ITable, RV32MTable, RV64MTable, RV32ATable, RV64ATable,
                RV32FTable, RV64FTable, RV32DTable, RV64DTable, ZicbomTable>>
BaseRows == ToSet(FlattenSeq(BaseTables))
BaseFuncs == {e.func : e \in BaseRows}
\* cbo.inval, cbo.clean and cbo.flush, in the order of their encodings.
LineOps == <<"InvLine", "CleanLine", "FlushLine">>
BaseRow == [f \in BaseFuncs \cup ToSet(LineOps) |->
              CHOOSE e \in BaseRows : e.func = IF f \in ToSet(LineOps) THEN "cmo" ELSE f]

\* Operands the function of a base instruction reads: loads and stores, arithmetic, branches
\* and jumps read all their format has; csr accesses, fences and traps read none.
Inert == {"fence", "fencei", "ecall", "ebreak", "nop",
          "csrrw", "csrrs", "csrrc", "csrrwi", "csrrsi", "csrrci"}
Shifts == {"slli", "srli", "srai", "slliw", "srliw", "sraiw"}
Conversions == {"fcvtws", "fcvtwus", "fcvtsw", "fcvtswu", "fcvtls", "fcvtlus", "fcvtsl", "fcvtslu",
                "fcvtsd", "fcvtds", "fcvtwd", "fcvtwud", "fcvtdw", "fcvtdwu", "fcvtld", "fcvtlud",
                "fcvtdl", "fcvtdlu", "fsqrts", "fsqrtd"}
Rounded == Conversions \cup {"fadds", "fsubs", "fmuls", "fdivs", "faddd", "fsubd", "fmuld", "fdivd"}
\* Operations of the R format that read one register.
OneSource == Conversions \cup {"lrw", "lrd", "fclasss", "fclassd", "fmvxw", "fmvwx", "fmvxd", "fmvdx"}

Reads(f, row, operand) ==
  CASE operand = "rd" -> row.fmt \in {"R", "I", "U", "J", "R4"} /\ row.func # "cmo"
    [] operand = "rs1" -> row.fmt \in {"R", "I", "S", "B", "R4"}
    [] operand = "rs2" -> row.fmt \in {"R", "S", "B", "R4"} /\ f \notin OneSource
    [] operand = "rs3" -> row.fmt = "R4"
    [] operand = "imm" -> row.fmt \in {"I", "S", "B", "U", "J"} /\ row.func # "cmo"
    [] operand = "rm" -> row.fmt = "R4" \/ f \in Rounded

Has(f, operand) == f \notin Inert /\ Reads(f, BaseRow[f], operand)

\* The bits of its immediate an instruction can encode; the highest is its sign.
FormatBits == [I |-> 0..11, S |-> 0..11, B |-> 1..12, J |-> 1..20, U |-> 12..31]
ImmBits(f, rv64) ==
  CASE ~Has(f, "imm") -> {}
    [] f \in Shifts -> 0..(IF rv64 /\ f \in {"slli", "srli", "srai"} THEN 5 ELSE 4)
    [] OTHER -> FormatBits[BaseRow[f].fmt]

Patterns(bits) == {{}, bits} \cup {{b} : b \in bits} \cup {bits \ {b} : b \in bits}
Signed(f, bits, imm) == IF f \in Shifts \/ bits = {} THEN imm ELSE SignExt(imm, Max(bits) + 1)

\* An operation with its registers <<rd, rs1, rs2, rs3>>, its immediate and its rounding mode.
Written(name, f, r, imm, rm, word) ==
  [name |-> name, func |-> f, rd |-> r[1], rs1 |-> r[2], rs2 |-> r[3], rs3 |-> r[4],
   imm |-> imm, rm |-> rm, word |-> word]

PlaceImm(fmt, imm) ==
  CASE fmt = "I" -> Move(imm, 0, 11, 20)
    [] fmt = "S" -> Move(imm, 0, 4, 7) \cup Move(imm, 5, 11, 20)
    [] fmt = "B" -> Move(imm, 1, 4, 7) \cup Move(imm, 5, 10, 20) \cup Move(imm, 11, 11, -4)
                      \cup Move(imm, 12, 12, 19)
    [] fmt = "U" -> imm
    [] fmt = "J" -> Move(imm, 1, 10, 20) \cup Move(imm, 11, 11, 9) \cup Move(imm, 12, 19, 0)
                      \cup Move(imm, 20, 20, 11)
    [] OTHER -> {}

Assemble(e, r, imm, rm) ==
  LET f == e.func
      At(operand, k, lo) == IF Has(f, operand) THEN BitsOf(r[k], lo) ELSE {}
      f7 == CASE e.op = 47 -> BitsOf(e.f7, 27)
              [] f \in {"slli", "srli", "srai"} -> BitsOf(e.f7, 26)
              [] OTHER -> BitsOf(e.f7, 25)
  IN Written(f, IF f = "cmo" THEN LineOps[e.imm12 + 1] ELSE f, r, Signed(f, ImmBits(f, TRUE), imm), rm,
             BitsOf(e.op, 0) \cup f7 \cup BitsOf(e.imm12, 20) \cup BitsOf(e.cvt, 20)
               \cup BitsOf(IF Has(f, "rm") THEN rm ELSE e.f3, 12)
               \cup At("rd", 1, 7) \cup At("rs1", 2, 15) \cup At("rs2", 3, 20) \cup At("rs3", 4, 27)
               \cup PlaceImm(e.fmt, imm))

-----------------------------------------------------------------------------
(* Compressed instructions.  A register is a three-bit field <<"c", lo>>, a five-bit field       *)
(* <<"f", lo>> or a fixed register <<"x", n>>; bit lo + k - 1 of the immediate is bit at[k] of    *)
(* the word.                                                                                     *)

CF(name, base, quadrant, f3, fixed, rd, rs1, rs2, lo, at) ==
  [name |-> name, func |-> base, bits |-> BitsOf(quadrant, 0) \cup BitsOf(f3, 13) \cup fixed,
   reg |-> <<rd, rs1, rs2>>, lo |-> lo, at |-> at]

X(n) == <<"x", n>>
C2 == <<"c", 2>>
C7 == <<"c", 7>>
F2 == <<"f", 2>>
F7 == <<"f", 7>>
ByDouble == <<10, 11, 12, 5, 6>>
ByWord == <<6, 10, 11, 12, 5>>
Low6 == <<2, 3, 4, 5, 6, 12>>
Jump == <<3, 4, 5, 11, 2, 7, 6, 9, 10, 8, 12>>
Branch == <<3, 4, 10, 11, 2, 5, 6, 12>>

CForms ==
  {CF("c.addi4spn", "addi", 0, 0, {}, C2, X(2), X(0), 2, <<6, 5, 11, 12, 7, 8, 9, 10>>),
   CF("c.fld", "fld", 0, 1, {}, C2, C7, X(0), 3, ByDouble),
   CF("c.lw", "lw", 0, 2, {}, C2, C7, X(0), 2, ByWord),
   CF("c.fsd", "fsd", 0, 5, {}, X(0), C7, C2, 3, ByDouble),
   CF("c.sw", "sw", 0, 6, {}, X(0), C7, C2, 2, ByWord),
   CF("c.addi", "addi", 1, 0, {}, F7, F7, X(0), 0, Low6),
   CF("c.li", "addi", 1, 2, {}, F7, X(0), X(0), 0, Low6),
   CF("c.addi16sp", "addi", 1, 3, {8}, X(2), X(2), X(0), 4, <<6, 2, 5, 3, 4, 12>>),
   CF("c.lui", "lui", 1, 3, {}, F7, X(0), X(0), 12, Low6),
   CF("c.srli", "srli", 1, 4, {}, C7, C7, X(0), 0, Low6),
   CF("c.srai", "srai", 1, 4, {10}, C7, C7, X(0), 0, Low6),
   CF("c.andi", "andi", 1, 4, {11}, C7, C7, X(0), 0, Low6),
   CF("c.sub", "sub", 1, 4, {10, 11}, C7, C7, C2, 0, <<>>),
   CF("c.xor", "f_xor", 1, 4, {10, 11, 5}, C7, C7, C2, 0, <<>>),
   CF("c.or", "f_or", 1, 4, {10, 11, 6}, C7, C7, C2, 0, <<>>),
   CF("c.and", "f_and", 1, 4, {10, 11, 5, 6}, C7, C7, C2, 0, <<>>),
   CF("c.j", "jal", 1, 5, {}, X(0), X(0), X(0), 1, Jump),
   CF("c.beqz", "beq", 1, 6, {}, X(0), C7, X(0), 1, Branch),
   CF("c.bnez", "bne", 1, 7, {}, X(0), C7, X(0), 1, Branch),
   CF("c.slli", "slli", 2, 0, {}, F7, F7, X(0), 0, Low6),
   CF("c.fldsp", "fld", 2, 1, {}, F7, X(2), X(0), 3, <<5, 6, 12, 2, 3, 4>>),
   CF("c.lwsp", "lw", 2, 2, {}, F7, X(2), X(0), 2, <<4, 5, 6, 12, 2, 3>>),
   CF("c.jr", "jalr", 2, 4, {}, X(0), F7, X(0), 0, <<>>),
   CF("c.mv", "add", 2, 4, {}, F7, X(0), F2, 0, <<>>),
   CF("c.ebreak", "ebreak", 2, 4, {12}, X(0), X(0), X(0), 0, <<>>),
   CF("c.jalr", "jalr", 2, 4, {12}, X(1), F7, X(0), 0, <<>>),
   CF("c.add", "add", 2, 4, {12}, F7, F7, F2, 0, <<>>),
   CF("c.fsdsp", "fsd", 2, 5, {}, X(0), X(2), F2, 3, <<10, 11, 12, 7, 8, 9>>),
   CF("c.swsp", "sw", 2, 6, {}, X(0), X(2), F2, 2, <<9, 10, 11, 12, 7, 8>>)}

CForms64 ==
  {CF("c.ld", "ld", 0, 3, {}, C2, C7, X(0), 3, ByDouble),
   CF("c.sd", "sd", 0, 7, {}, X(0), C7, C2, 3, ByDouble),
   CF("c.addiw", "addiw", 1, 1, {}, F7, F7, X(0), 0, Low6),
   CF("c.subw", "subw", 1, 4, {10, 11, 12}, C7, C7, C2, 0, <<>>),
   CF("c.addw", "addw", 1, 4, {10, 11, 12, 5}, C7, C7, C2, 0, <<>>),
   CF("c.ldsp", "ld", 2, 3, {}, F7, X(2), X(0), 3, <<5, 6, 12, 2, 3, 4>>),
   CF("c.sdsp", "sd", 2, 7, {}, X(0), X(2), F2, 3, <<10, 11, 12, 7, 8, 9>>)}

CForms32 == {CF("c.jal", "jal", 1, 1, {}, X(1), X(0), X(0), 1, Jump)}

CForms32F ==
  {CF("c.flw", "flw", 0, 3, {}, C2, C7, X(0), 2, ByWord),
   CF("c.fsw", "fsw", 0, 7, {}, X(0), C7, C2, 2, ByWord),
   CF("c.flwsp", "flw", 2, 3, {}, F7, X(2), X(0), 2, <<4, 5, 6, 12, 2, 3>>),
   CF("c.fswsp", "fsw", 2, 7, {}, X(0), X(2), F2, 2, <<9, 10, 11, 12, 7, 8>>)}

\* c.addi4spn and the immediates of the stack-relative loads and stores are not signed.
CSigned == {"c.addi", "c.li", "c.lui", "c.addi16sp", "c.andi", "c.addiw", "c.j", "c.jal", "c.beqz",
            "c.bnez"}

\* r gives the registers of the five-bit fields; a three-bit field takes 8..15 from it.
AssembleC(c, r, imm) ==
  LET Real(k) == CASE c.reg[k][1] = "x" -> c.reg[k][2]
                   [] c.reg[k][1] = "f" -> r[c.reg[k][2]]
                   [] c.reg[k][1] = "c" -> 8 + (r[c.reg[k][2]] % 8)
      Code(k) == CASE c.reg[k][1] = "x" -> {}
                   [] c.reg[k][1] = "f" -> BitsOf(Real(k), c.reg[k][2])
                   [] c.reg[k][1] = "c" -> BitsOf(Real(k) - 8, c.reg[k][2])
      top == c.lo + Len(c.at)
  IN Written(c.name, c.func, <<Real(1), Real(2), Real(3), 0>>,
             IF c.name \in CSigned THEN SignExt(imm, top) ELSE imm, 0,
             c.bits \cup Code(1) \cup Code(2) \cup Code(3)
               \cup {c.at[k] : k \in {j \in DOMAIN c.at : c.lo + j - 1 \in imm}})
=============================================================================
