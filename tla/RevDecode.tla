----------------------------- MODULE RevDecode -----------------------------
(***************************************************************************)
(* The instruction decoder of RevProc (DecodeInst, DecodeCompressed and    *)
(* the decoders of the formats), RevExt::Execute, and the functions that   *)
(* stand for the compressed instructions and call the function of the      *)
(* instruction they abbreviate.                                            *)
(*                                                                         *)
(* An instruction word is the set of the positions of its one bits, and so *)
(* is an immediate: w & mask is an intersection, | a union and a shift a   *)
(* shift of positions.  Only the low 32 bits of an immediate are kept; the *)
(* functions read no others.  Register numbers and the fields of an        *)
(* encoding are numbers.                                                   *)
(***************************************************************************)
EXTENDS RevInstTables, FiniteSetsExt, TLC

Pow == [i \in 0..30 |-> 2^i]
Num(s) == MapThenSumSet(LAMBDA i : Pow[i], s)
BitsOf(n, lo) == {lo + i : i \in {j \in 0..11 : (n \div Pow[j]) % 2 = 1}}

\* (w >> lo) & ((1 << n) - 1)
Field(w, lo, n) == {i - lo : i \in w \cap (lo..(lo + n - 1))}
\* (w & mask) << k for the mask of bits lo..hi; k < 0 shifts right
Move(w, lo, hi, k) == {i + k : i \in w \cap (lo..hi)}

SignExt(imm, bits) ==
  (imm \cap (0..(bits - 1))) \cup (IF bits - 1 \in imm THEN bits..31 ELSE {})

DECODE_RD(w) == Num(Field(w, 7, 5))
DECODE_RS1(w) == Num(Field(w, 15, 5))
DECODE_RS2(w) == Num(Field(w, 20, 5))
DECODE_RS3(w) == Num(Field(w, 27, 5))
DECODE_LOWER_CRS2(w) == Field(w, 2, 5)
CRegIdx(x) == x + 8

\* A RevInst before its decoder fills it in; ~0 is -1, and rm 9 is FRMode::None.
NoReg == -1
RevInst == [rd |-> NoReg, rs1 |-> NoReg, rs2 |-> NoReg, rs3 |-> NoReg, imm |-> {}, rm |-> 9,
            offset |-> {}, jumpTarget |-> {}, instSize |-> 4, compressed |-> FALSE]

-----------------------------------------------------------------------------
(* The 32-bit formats.  A register whose class is unknown decodes as 0. *)

IsFloat(e) == \E k \in 1..4 : e.cls[k] = "F"
DECODE_RM(e, w) == IF IsFloat(e) THEN Num(Field(w, 12, 3)) ELSE 9
Reg(e, k, r) == IF e.cls[k] = "x" THEN 0 ELSE r

DecodeRInst(w, e) ==
  [RevInst EXCEPT !.rd = Reg(e, 1, DECODE_RD(w)), !.rs1 = Reg(e, 2, DECODE_RS1(w)),
                  !.rs2 = Reg(e, 3, DECODE_RS2(w)), !.rs3 = 0, !.rm = DECODE_RM(e, w)]

DecodeIInst(w, e) ==
  [RevInst EXCEPT !.rd = Reg(e, 1, DECODE_RD(w)), !.rs1 = Reg(e, 2, DECODE_RS1(w)),
                  !.rs2 = 0, !.rs3 = 0, !.imm = Field(w, 20, 12), !.rm = DECODE_RM(e, w)]

DecodeSInst(w, e) ==
  [RevInst EXCEPT !.rd = 0, !.rs1 = Reg(e, 2, DECODE_RS1(w)), !.rs2 = Reg(e, 3, DECODE_RS2(w)),
                  !.rs3 = 0, !.imm = Field(w, 7, 5) \cup Move(w, 25, 31, -20),
                  !.rm = DECODE_RM(e, w)]

DecodeUInst(w, e) ==
  [RevInst EXCEPT !.rd = Reg(e, 1, DECODE_RD(w)), !.rs1 = 0, !.rs2 = 0, !.rs3 = 0,
                  !.imm = Field(w, 12, 20)]

DecodeBInst(w, e) ==
  [RevInst EXCEPT !.rd = 0, !.rs1 = Reg(e, 2, DECODE_RS1(w)), !.rs2 = Reg(e, 3, DECODE_RS2(w)),
                  !.rs3 = 0,
                  !.imm = Move(w, 31, 31, -19) \cup Move(w, 7, 7, 4)
                            \cup Move(w, 25, 30, -20) \cup Move(w, 8, 11, -7)]

DecodeJInst(w, e) ==
  [RevInst EXCEPT !.rd = Reg(e, 1, DECODE_RD(w)), !.rs1 = 0, !.rs2 = 0, !.rs3 = 0,
                  !.imm = Move(w, 31, 31, -11) \cup Move(w, 12, 19, 0)
                            \cup Move(w, 20, 20, -9) \cup Move(w, 21, 30, -20)]

\* The R4 decoder reads no rounding mode.
DecodeR4Inst(w, e) ==
  [RevInst EXCEPT !.rd = Reg(e, 1, DECODE_RD(w)), !.rs1 = Reg(e, 2, DECODE_RS1(w)),
                  !.rs2 = Reg(e, 3, DECODE_RS2(w)), !.rs3 = Reg(e, 4, DECODE_RS3(w))]

-----------------------------------------------------------------------------
(* The compressed formats. *)

CInst == [RevInst EXCEPT !.instSize = 2, !.compressed = TRUE]

DecodeCRInst(w, e) ==
  LET rd == DECODE_RD(w)
      rs2 == Num(DECODE_LOWER_CRS2(w))
  IN [CInst EXCEPT !.rd = rd, !.rs2 = rs2,
                   !.rs1 = IF e.op = 2 /\ e.f4 = 8 /\ rs2 # 0 THEN 0 ELSE rd]

\* Immediates of a load relative to the stack pointer.  The word form masks bits 7:6 with the
\* decimal number 1100, whose bits are 2, 3, 6 and 10.
SpDouble(w) == Move(w, 5, 6, -2) \cup Move(w, 12, 12, -7) \cup Move(w, 2, 4, 4)
SpWord(w) == Move(w, 4, 6, -2) \cup Move(w, 12, 12, -7) \cup {i + 4 : i \in w \cap {2, 3, 6, 10}}

DecodeCIInst(w, e, rv64) ==
  LET rd == DECODE_RD(w)
      low == DECODE_LOWER_CRS2(w) \cup Move(w, 12, 12, -7)
      From(bit, imm) == IF bit \in imm THEN imm \cup (bit..31) ELSE imm
      sp16 == Move(w, 6, 6, -2) \cup Move(w, 2, 2, 3) \cup Move(w, 5, 5, 1)
                \cup Move(w, 3, 4, 4) \cup Move(w, 12, 12, -3)
      up == From(17, Move(w, 2, 6, 10) \cup Move(w, 12, 12, 5))
      sp == e.op = 2 /\ e.f3 \in 1..3
  IN [CInst EXCEPT
        !.rd = rd,
        !.rs1 = IF sp \/ (e.op = 1 /\ e.f3 = 3 /\ rd = 2) THEN 2
                ELSE IF e.op = 1 /\ e.f3 = 2 /\ rd # 0 THEN 0 ELSE rd,
        !.imm = CASE sp /\ e.f3 = 1 -> SpDouble(w)
                  [] sp /\ e.f3 = 2 -> SpWord(w)
                  [] sp /\ e.f3 = 3 -> IF rv64 THEN SpDouble(w) ELSE SpWord(w)
                  [] e.op = 1 /\ e.f3 = 3 /\ rd = 2 -> From(9, sp16)
                  [] e.op = 1 /\ e.f3 = 3 /\ rd \notin {0, 2} -> {i - 12 : i \in up}
                  [] OTHER -> From(5, low)]

DecodeCSSInst(w, e, rv64) ==
  [CInst EXCEPT
     !.rs2 = Num(DECODE_LOWER_CRS2(w)), !.rs1 = 2,
     !.imm = IF e.f3 = 5 \/ (e.f3 = 7 /\ rv64)
             THEN Move(w, 10, 12, -7) \cup Move(w, 7, 9, -1)
             ELSE Move(w, 9, 12, -7) \cup Move(w, 7, 8, -1)]

\* Swizzle(w, from): bit k - 1 of the result is bit from[k] of w.
Swizzle(w, from) == {k - 1 : k \in {j \in DOMAIN from : from[j] \in w}}

DecodeCIWInst(w, e) ==
  [CInst EXCEPT !.rd = CRegIdx(Num(Field(w, 2, 3))), !.rs1 = 2,
                !.imm = Swizzle(Field(w, 5, 8), <<1, 0, 6, 7, 2, 3, 4, 5>>)]

DecodeCLInst(w, e, rv64) ==
  [CInst EXCEPT
     !.rd = CRegIdx(Num(Field(w, 2, 3))), !.rs1 = CRegIdx(Num(Field(w, 7, 3))),
     !.imm = IF e.f3 = 1 \/ (e.f3 = 3 /\ rv64)
             THEN Move(w, 5, 6, 1) \cup Move(w, 10, 12, -7)
             ELSE Move(w, 5, 5, 1) \cup Move(w, 6, 6, -4) \cup Move(w, 10, 12, -7)]

DecodeCSInst(w, e, rv64) ==
  [CInst EXCEPT
     !.rs2 = CRegIdx(Num(Field(w, 2, 3))), !.rs1 = CRegIdx(Num(Field(w, 7, 3))),
     !.imm = IF e.f3 = 6
             THEN Move(w, 5, 5, 1) \cup Move(w, 10, 12, -6) \cup Move(w, 6, 6, -4)
             ELSE IF rv64 THEN Move(w, 5, 6, 1) \cup Move(w, 10, 12, -7)
                          ELSE Move(w, 6, 6, 4) \cup Move(w, 10, 12, -7)]

DecodeCAInst(w, e) ==
  LET rd == CRegIdx(Num(Field(w, 7, 3)))
  IN [CInst EXCEPT !.rs2 = CRegIdx(Num(Field(w, 2, 3))), !.rd = rd, !.rs1 = rd]

\* rd keeps the unscaled number for the branches, which do not write it.
DecodeCBInst(w, e) ==
  LET o == Field(w, 2, 5) \cup Move(w, 10, 12, -5)
      branch == e.op = 1 /\ e.f3 >= 6
      rs1 == CRegIdx(Num(Field(w, 7, 3)))
  IN [CInst EXCEPT !.rs1 = rs1, !.rd = IF branch THEN rs1 - 8 ELSE rs1,
                   !.rs2 = IF branch THEN 0 ELSE NoReg,
                   !.offset = IF branch
                              THEN {i + 1 : i \in Swizzle(o, <<1, 2, 5, 6, 0, 3, 4, 7>>)} ELSE {},
                   !.imm = Move(w, 2, 6, -2) \cup Move(w, 12, 12, -7)]

DecodeCJInst(w, e) ==
  [CInst EXCEPT
     !.jumpTarget = {i + 1 : i \in Swizzle(Field(w, 2, 11), <<1, 2, 3, 9, 0, 5, 4, 7, 8, 6, 10>>)},
     !.rd = IF e.op = 1 /\ e.f3 = 1 THEN 1 ELSE NoReg]

-----------------------------------------------------------------------------
(* Finding the entry.  core is the loaded table of a core; coproc says whether a co-processor  *)
(* takes the words the table does not have.  A fatal error of the simulator ends as Fatal.     *)

Fatal == "fatal"

\* The encoding DecodeInst looks up for a 32-bit word.
EncodingNoTrim(w) ==
  <<Num(Field(w, 0, 7)), Num(Field(w, 12, 3)), Num(Field(w, 25, 7)), 0, 0>>

Encoding(w) ==
  LET Opcode == Num(Field(w, 0, 7))
      inst42 == Num(Field(w, 2, 3))
      inst65 == Num(Field(w, 5, 2))
      Funct3 == IF <<inst65, inst42>> \in {<<3, 3>>, <<0, 5>>, <<1, 5>>} THEN 0
                ELSE Num(Field(w, 12, 3))
      Funct7 == Num(Field(w, 25, 7))
      Funct2or7 ==
        CASE inst65 = 1 /\ inst42 \in {3, 4, 6} -> IF Opcode = 47 THEN Num(Field(w, 27, 5)) ELSE Funct7
          [] inst65 = 2 /\ inst42 < 4 -> Num(Field(w, 25, 2))
          [] inst65 = 2 /\ inst42 = 4 -> Funct7
          [] inst65 = 0 /\ inst42 = 6 /\ Funct3 # 0 -> Funct7
          [] inst65 = 0 /\ inst42 = 4 /\ Funct3 = 5 -> Num(Field(w, 26, 6))
          [] OTHER -> 0
      fcvtOp == IF Opcode = 83 /\ Funct2or7 \in {96, 104, 32, 33, 97, 105}
                THEN Num(Field(w, 20, 2)) ELSE 0
      Imm12 == IF inst42 = 4 /\ inst65 = 3 /\ Funct3 = 0 THEN Num(Field(w, 19, 12)) ELSE 0
  IN <<Opcode, Funct3, Funct2or7, Imm12, fcvtOp>>

\* A floating-point word that is not found is looked up again with funct3, its rounding mode,
\* cleared.
Lookup(Map, enc, rne, inst65) ==
  CASE enc \in DOMAIN Map -> Map[enc]
    [] enc \notin DOMAIN Map /\ inst65 = 2 /\ enc[2] \notin {5, 6} /\ rne \in DOMAIN Map -> Map[rne]
    [] OTHER -> 0

FindEntry(Map, enc, w) == Lookup(Map, enc, [enc EXCEPT ![2] = 0], Num(Field(w, 5, 2)))

CEncoding(w) ==
  LET opc == Num(Field(w, 0, 2))
      l3 == Num(Field(w, 13, 3))
      opSelect == Num(Field(w, 10, 2))
  IN CASE opc = 1 /\ l3 = 4 /\ opSelect = 3 -> <<opc, Num(Field(w, 5, 2)), 0, 0, Num(Field(w, 10, 6))>>
       [] opc = 1 /\ l3 = 4 /\ opSelect # 3 -> <<opc, opSelect, l3, 0, 0>>
       [] opc = 2 /\ l3 = 4 -> <<opc, 0, 0, Num(Field(w, 12, 4)), 0>>
       [] OTHER -> <<opc, 0, l3, 0, 0>>

Formatted(w, e, rv64) ==
  CASE e.fmt = "R" -> DecodeRInst(w, e)     [] e.fmt = "I" -> DecodeIInst(w, e)
    [] e.fmt = "S" -> DecodeSInst(w, e)     [] e.fmt = "U" -> DecodeUInst(w, e)
    [] e.fmt = "B" -> DecodeBInst(w, e)     [] e.fmt = "J" -> DecodeJInst(w, e)
    [] e.fmt = "R4" -> DecodeR4Inst(w, e)   [] e.fmt = "CR" -> DecodeCRInst(w, e)
    [] e.fmt = "CI" -> DecodeCIInst(w, e, rv64)   [] e.fmt = "CSS" -> DecodeCSSInst(w, e, rv64)
    [] e.fmt = "CIW" -> DecodeCIWInst(w, e)       [] e.fmt = "CL" -> DecodeCLInst(w, e, rv64)
    [] e.fmt = "CS" -> DecodeCSInst(w, e, rv64)   [] e.fmt = "CA" -> DecodeCAInst(w, e)
    [] e.fmt = "CB" -> DecodeCBInst(w, e)         [] e.fmt = "CJ" -> DecodeCJInst(w, e)

Decoded(entry, co, inst) == [entry |-> entry, isCoProcInst |-> co, inst |-> inst]
Undecoded == Decoded(0, FALSE, RevInst)

Fill(core, entry, co, w, rv64) ==
  Decoded(entry, co, Formatted(w, core.InstTable[entry], rv64))

\* A word taken by the co-processor becomes the entry of c.addi; the word itself is decoded.
DecodeCompressed(core, w, enc, rv64, hasC, coproc) ==
  LET known == enc \in DOMAIN core.CEncToEntry
      entry == core.CEncToEntry[IF known THEN enc ELSE <<1, 0, 0, 0, 0>>]
  IN IF hasC /\ (known \/ coproc) THEN Fill(core, entry, ~known, w, rv64) ELSE Undecoded

\* A word taken by the co-processor becomes addi x0, x0, 0.
DecodeFull(core, w, found, rv64, coproc) ==
  LET nop == core.EncToEntry[<<19, 0, 0, 0, 0>>]
  IN IF found # 0 \/ coproc
     THEN Fill(core, IF found # 0 THEN found ELSE nop, found = 0, IF found # 0 THEN w ELSE {}, rv64)
     ELSE Undecoded

DecodeInst(core, word, rv64, hasC, coproc) ==
  IF {0, 1} \subseteq word
  THEN DecodeFull(core, word, FindEntry(core.EncToEntry, Encoding(word), word), rv64, coproc)
  ELSE DecodeCompressed(core, word \cap (0..15), CEncoding(word), rv64, hasC, coproc)

-----------------------------------------------------------------------------
(* Running it.  Execute looks the function up in the extension of the entry and rounds as the   *)
(* instruction says.                                                                           *)

\* The rounding mode Execute sets the host to: the one of the instruction, that of fcsr (which
\* nothing writes) when it says dynamic, the current one when it has none.  4 is an error.
SetFPEnv(rm) == CASE rm \in 0..3 -> rm [] rm \in {7, 9} -> 0 [] OTHER -> 4

Execute(core, d) ==
  LET at == core.EntryToExt[d.entry]
      ext == core.Extensions[at[1]]
      table == IF d.inst.compressed THEN ext.ctable ELSE ext.table
  IN IF d.entry # 0 /\ at[2] \in DOMAIN table /\ SetFPEnv(d.inst.rm) # 4
     THEN table[at[2]].func ELSE Fatal

\* Compressed functions that keep the low n bits of the immediate and call another function,
\* that extend the sign of a six-bit immediate, or that only call another function.
Masked32 == [clwsp |-> <<"lw", 8>>, cswsp |-> <<"sw", 8>>, clw |-> <<"lw", 7>>, csw |-> <<"sw", 7>>]
Masked64 == [cldsp |-> <<"ld", 9>>, csdsp |-> <<"sd", 10>>, cld |-> <<"ld", 8>>, csd |-> <<"sd", 8>>]
Masked == Masked32 @@ Masked64
Extended == [cli |-> "addi", caddi |-> "addi", candi |-> "andi", caddiw |-> "addiw"]
Renamed32 == [cslli |-> "slli", csrai |-> "srai", cand |-> "f_and", cor |-> "f_or",
              cxor |-> "f_xor", csub |-> "sub"]
Renamed64 == [caddw |-> "addw", csubw |-> "subw"]
RenamedF == [cflwsp |-> "flw", cfswsp |-> "fsw", cflw |-> "flw", cfsw |-> "fsw"]
RenamedD == [cfldsp |-> "fld", cfsdsp |-> "fsd", cfld |-> "fld", cfsd |-> "fsd"]
Renamed == Renamed32 @@ Renamed64 @@ RenamedF @@ RenamedD

\* The functions that reach the floating-point registers, by the operands they take from there.
OneFloatF == [rd |-> {"flw", "fcvtsw", "fcvtswu", "fmvwx"},
              rs1 |-> {"fcvtws", "fcvtwus", "fmvxw", "fclasss"}, rs2 |-> {"fsw"}]
OneFloatD == [rd |-> {"fld", "fcvtdw", "fcvtdwu"}, rs1 |-> {"fcvtwd", "fcvtwud", "fclassd"},
              rs2 |-> {"fsd"}]
OneFloat64 == [rd |-> {"fcvtsl", "fcvtslu", "fcvtdl", "fcvtdlu", "fmvdx"},
               rs1 |-> {"fcvtls", "fcvtlus", "fcvtld", "fcvtlud", "fmvxd"}, rs2 |-> {}]
Compares == {"feqs", "flts", "fles", "feqd", "fltd", "fled"}
AllFloatF == {"fadds", "fsubs", "fmuls", "fdivs", "fsqrts", "fmins", "fmaxs", "fsgnjs", "fsgnjns",
              "fsgnjxs", "fmadds", "fmsubs", "fnmsubs", "fnmadds"}
AllFloatD == {"faddd", "fsubd", "fmuld", "fdivd", "fsqrtd", "fmind", "fmaxd", "fsgnjd", "fsgnjnd",
              "fsgnjxd", "fcvtsd", "fcvtds", "fmaddd", "fmsubd", "fnmsubd", "fnmaddd"}

FloatOperands(f) ==
  {o \in {"rd", "rs1", "rs2", "rs3"} :
     \/ f \in AllFloatF \cup AllFloatD
     \/ f \in Compares /\ o # "rd"
     \/ o # "rs3" /\ f \in OneFloatF[o] \cup OneFloatD[o] \cup OneFloat64[o]}

Call(func, inst) == [func |-> func, inst |-> inst]

\* Functions that stand for two instructions each.
CRFUNC_1000(i) == IF i.rs2 # 0 THEN Call("add", i) ELSE Call("jalr", [i EXCEPT !.rs2 = 0])
CRFUNC_1001(i) ==
  CASE i.rs1 = 0 /\ i.rd = 0 -> Call("ebreak", i)
    [] i.rs2 = 0 /\ i.rd # 0 -> Call("jalr", [i EXCEPT !.rd = 1])
    [] OTHER -> Call("add", i)
CIFUNC(i) == IF i.rd = 2 THEN Call("addi", [i EXCEPT !.imm = SignExt(@, 10)])
             ELSE Call("lui", [i EXCEPT !.imm = SignExt(@, 17)])
caddi4spn(i) == IF i.imm = {} THEN Call("nop", i)
                ELSE Call("addi", [i EXCEPT !.imm = {b + 2 : b \in @ \cap (0..7)}])
cj(i) == Call("jal", [i EXCEPT !.rd = 0, !.imm = SignExt(i.jumpTarget, 12)])
cjal(i) == Call("jal", [i EXCEPT !.imm = i.jumpTarget])
cbeqz(i) == Call("beq", [i EXCEPT !.rs2 = 0, !.imm = SignExt(i.offset, 9)])
cbnez(i) == Call("bne", [i EXCEPT !.imm = SignExt(i.offset, 9)])
cmo(i) == Call(CASE i.imm = {} -> "InvLine" [] i.imm = {0} -> "FlushLine"
                 [] i.imm = {1} -> "CleanLine" [] OTHER -> Fatal, i)

\* The call a function makes in place of a compressed instruction, and the operation on a cache
\* line a cbo instruction stands for; any other function is its own.
Expand(func, i) ==
  CASE func \in DOMAIN Masked ->
         Call(Masked[func][1], [i EXCEPT !.imm = @ \cap (0..(Masked[func][2] - 1))])
    [] func \in DOMAIN Extended -> Call(Extended[func], [i EXCEPT !.imm = SignExt(@, 6)])
    [] func \in DOMAIN Renamed -> Call(Renamed[func], i)
    [] func = "csrli" -> Call("srli", [i EXCEPT !.rs1 = i.rd])
    [] func = "CRFUNC_1000" -> CRFUNC_1000(i)   [] func = "CRFUNC_1001" -> CRFUNC_1001(i)
    [] func = "CIFUNC" -> CIFUNC(i)             [] func = "caddi4spn" -> caddi4spn(i)
    [] func = "cj" -> cj(i)                     [] func = "cjal" -> cjal(i)
    [] func = "cbeqz" -> cbeqz(i)               [] func = "cbnez" -> cbnez(i)
    [] func = "cmo" -> cmo(i)                   [] OTHER -> Call(func, i)
=============================================================================
