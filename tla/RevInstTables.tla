--------------------------- MODULE RevInstTables ---------------------------
(***************************************************************************)
(* The instruction set of a Rev core: the machine model string a core is   *)
(* configured with (RevFeature), the instruction tables of the extensions  *)
(* (include/insns), and how RevProc loads the tables of the extensions the *)
(* string enables and indexes them by encoding.                            *)
(*                                                                         *)
(* An entry keeps what decoding and execution read of a RevInstEntry: the  *)
(* implementing function, the encoding fields, the format and the classes  *)
(* of rd, rs1, rs2, rs3 ("G" general, "F" floating point, "I" immediate,   *)
(* "x" none).  A field that a row leaves out is 0, as in RevInstDefaults.  *)
(***************************************************************************)
EXTENDS Integers, Sequences, SequencesExt

Default(row, k) == IF k <= Len(row) THEN row[k] ELSE 0

\* Rows <<func, funct3, funct2or7, imm12, fpcvtOp>> that share an opcode.
Group(op, fmt, cls, rows) ==
  [k \in DOMAIN rows |->
     [func |-> rows[k][1], op |-> op, f3 |-> Default(rows[k], 2), f7 |-> Default(rows[k], 3),
      imm12 |-> Default(rows[k], 4), cvt |-> Default(rows[k], 5), f2 |-> 0, f4 |-> 0, f6 |-> 0,
      fmt |-> fmt, cls |-> cls, compressed |-> FALSE]]

\* Compressed rows <<func, funct3, funct2, funct4, funct6>>.
CGroup(op, fmt, cls, rows) ==
  [k \in DOMAIN rows |->
     [func |-> rows[k][1], op |-> op, f3 |-> Default(rows[k], 2), f7 |-> 0,
      imm12 |-> 0, cvt |-> 0, f2 |-> Default(rows[k], 3), f4 |-> Default(rows[k], 4),
      f6 |-> Default(rows[k], 5), fmt |-> fmt, cls |-> cls, compressed |-> TRUE]]

Gxxx == <<"G", "x", "x", "x">>
GGxx == <<"G", "G", "x", "x">>
GGGx == <<"G", "G", "G", "x">>
IGGx == <<"I", "G", "G", "x">>
xxxx == <<"x", "x", "x", "x">>
xGxx == <<"x", "G", "x", "x">>
FGxx == <<"F", "G", "x", "x">>
FGGx == <<"F", "G", "G", "x">>
FFxx == <<"F", "F", "x", "x">>
FFFx == <<"F", "F", "F", "x">>
FFFF == <<"F", "F", "F", "F">>
GFxx == <<"G", "F", "x", "x">>
GFFx == <<"G", "F", "F", "x">>
GGFx == <<"G", "G", "F", "x">>
IGFx == <<"I", "G", "F", "x">>
IFFx == <<"I", "F", "F", "x">>

RV32ITable ==
  Group(55, "U", Gxxx, <<<<"lui">>>>) \o Group(23, "U", Gxxx, <<<<"auipc">>>>) \o
  Group(111, "J", Gxxx, <<<<"jal">>>>) \o Group(103, "I", GGxx, <<<<"jalr">>>>) \o
  Group(99, "B", IGGx, <<<<"beq">>, <<"bne", 1>>, <<"blt", 4>>, <<"bge", 5>>, <<"bltu", 6>>,
      <<"bgeu", 7>>>>) \o
  Group(3, "I", GGxx, <<<<"lb">>, <<"lh", 1>>, <<"lw", 2>>, <<"lbu", 4>>, <<"lhu", 5>>>>) \o
  Group(35, "S", IGGx, <<<<"sb">>, <<"sh", 1>>, <<"sw", 2>>>>) \o
  Group(19, "I", GGxx, <<<<"addi">>, <<"slti", 2>>, <<"sltiu", 3>>, <<"xori", 4>>, <<"ori", 6>>,
      <<"andi", 7>>, <<"slli", 1>>, <<"srli", 5>>, <<"srai", 5, 16>>>>) \o
  Group(51, "R", GGGx, <<<<"add">>, <<"sub", 0, 32>>, <<"sll", 1>>, <<"slt", 2>>, <<"sltu", 3>>,
      <<"f_xor", 4>>, <<"srl", 5>>, <<"sra", 5, 32>>, <<"f_or", 6>>, <<"f_and", 7>>>>) \o
  Group(15, "I", xxxx, <<<<"fence">>, <<"fencei", 1>>>>) \o
  Group(115, "I", xxxx, <<<<"ecall">>, <<"ebreak", 0, 0, 1>>>>) \o
  Group(115, "U", GGxx, <<<<"csrrw", 1>>, <<"csrrs", 2>>, <<"csrrc", 3>>, <<"csrrwi", 5>>,
      <<"csrrsi", 6>>, <<"csrrci", 7>>>>)

RV32ICTable ==
  CGroup(0, "CIW", GGGx, <<<<"caddi4spn">>>>) \o CGroup(2, "CI", GGGx, <<<<"clwsp", 2>>>>) \o
  CGroup(2, "CSS", GGGx, <<<<"cswsp", 6>>>>) \o CGroup(0, "CL", GGGx, <<<<"clw", 2>>>>) \o
  CGroup(0, "CS", GGGx, <<<<"csw", 6>>>>) \o CGroup(1, "CJ", GGGx, <<<<"cj", 5>>>>) \o
  CGroup(2, "CR", GGGx, <<<<"CRFUNC_1000", 0, 0, 8>>, <<"CRFUNC_1001", 0, 0, 9>>>>) \o
  CGroup(1, "CB", GGGx, <<<<"cbeqz", 6>>, <<"cbnez", 7>>>>) \o
  CGroup(1, "CI", GGGx, <<<<"cli", 2>>, <<"CIFUNC", 3>>, <<"caddi">>>>) \o
  CGroup(2, "CI", GGGx, <<<<"cslli">>>>) \o
  CGroup(1, "CB", GGGx, <<<<"csrli", 4>>, <<"csrai", 4, 1>>, <<"candi", 4, 2>>>>) \o
  CGroup(1, "CA", GGGx, <<<<"cand", 0, 3, 0, 35>>, <<"cor", 0, 2, 0, 35>>,
      <<"cxor", 0, 1, 0, 35>>, <<"csub", 0, 0, 0, 35>>>>)

RV32ICOTable ==
  CGroup(1, "CJ", GGGx, <<<<"cjal", 1>>>>)

RV64ITable ==
  Group(3, "I", GGxx, <<<<"lwu", 6>>, <<"ld", 3>>>>) \o Group(35, "S", IGGx, <<<<"sd", 3>>>>) \o
  Group(27, "I", GGxx, <<<<"addiw">>, <<"slliw", 1>>, <<"srliw", 5>>, <<"sraiw", 5, 32>>>>) \o
  Group(59, "R", GGGx, <<<<"addw">>, <<"subw", 0, 32>>, <<"sllw", 1>>, <<"srlw", 5>>,
      <<"sraw", 5, 32>>>>)

RV64ICTable ==
  CGroup(2, "CI", GGGx, <<<<"cldsp", 3>>>>) \o CGroup(2, "CSS", GGGx, <<<<"csdsp", 7>>>>) \o
  CGroup(0, "CL", GGGx, <<<<"cld", 3>>>>) \o CGroup(0, "CS", GGGx, <<<<"csd", 7>>>>) \o
  CGroup(1, "CI", GGGx, <<<<"caddiw", 1>>>>) \o
  CGroup(1, "CA", GGGx, <<<<"caddw", 0, 1, 0, 39>>, <<"csubw", 0, 0, 0, 39>>>>)

RV32MTable ==
  Group(51, "R", GGGx, <<<<"mul", 0, 1>>, <<"mulh", 1, 1>>, <<"mulhsu", 2, 1>>, <<"mulhu", 3, 1>>,
      <<"div", 4, 1>>, <<"divu", 5, 1>>, <<"rem", 6, 1>>, <<"remu", 7, 1>>>>)

RV64MTable ==
  Group(59, "R", GGGx, <<<<"mulw", 0, 1>>, <<"divw", 4, 1>>, <<"divuw", 5, 1>>, <<"remw", 6, 1>>,
      <<"remuw", 7, 1>>>>)

RV32ATableNoSource ==
  Group(47, "R", GGxx, <<<<"lrw", 2, 2>>, <<"scw", 2, 3>>>>) \o
  Group(47, "R", GGGx, <<<<"amoswapw", 2, 1>>, <<"amoaddw", 2>>,
      <<"amoxorw", 2, 4>>, <<"amoandw", 2, 12>>, <<"amoorw", 2, 8>>, <<"amominw", 2, 16>>,
      <<"amomaxw", 2, 20>>, <<"amominuw", 2, 24>>, <<"amomaxuw", 2, 28>>>>)

RV32ATable ==
  Group(47, "R", GGxx, <<<<"lrw", 2, 2>>>>) \o
  Group(47, "R", GGGx, <<<<"scw", 2, 3>>, <<"amoswapw", 2, 1>>, <<"amoaddw", 2>>,
      <<"amoxorw", 2, 4>>, <<"amoandw", 2, 12>>, <<"amoorw", 2, 8>>, <<"amominw", 2, 16>>,
      <<"amomaxw", 2, 20>>, <<"amominuw", 2, 24>>, <<"amomaxuw", 2, 28>>>>)

RV64ATable ==
  Group(47, "R", GGxx, <<<<"lrd", 3, 2>>, <<"scd", 3, 3>>>>) \o
  Group(47, "R", GGGx, <<<<"amoswapd", 3, 1>>, <<"amoaddd", 3>>, <<"amoxord", 3, 4>>,
      <<"amoandd", 3, 12>>, <<"amoord", 3, 8>>, <<"amomind", 3, 16>>, <<"amomaxd", 3, 20>>,
      <<"amominud", 3, 24>>, <<"amomaxud", 3, 28>>>>)

RV32FTable ==
  Group(7, "I", FGxx, <<<<"flw", 2>>>>) \o Group(39, "S", IGFx, <<<<"fsw", 2>>>>) \o
  Group(67, "R4", FFFF, <<<<"fmadds">>>>) \o Group(71, "R4", FFFF, <<<<"fmsubs">>>>) \o
  Group(75, "R4", FFFF, <<<<"fnmsubs">>>>) \o Group(79, "R4", FFFF, <<<<"fnmadds">>>>) \o
  Group(83, "R", FFFx, <<<<"fadds">>, <<"fsubs", 0, 4>>, <<"fmuls", 0, 8>>,
      <<"fdivs", 0, 12>>>>) \o
  Group(83, "R", FFxx, <<<<"fsqrts", 0, 44>>>>) \o
  Group(83, "R", FFFx, <<<<"fmins", 0, 20>>, <<"fmaxs", 1, 20>>, <<"fsgnjs", 0, 16>>,
      <<"fsgnjns", 1, 16>>, <<"fsgnjxs", 2, 16>>>>) \o
  Group(83, "R", GFxx, <<<<"fcvtws", 0, 96>>, <<"fcvtwus", 0, 96, 0, 1>>,
      <<"fmvxw", 0, 112>>>>) \o
  Group(83, "R", GFFx, <<<<"feqs", 2, 80>>, <<"flts", 1, 80>>, <<"fles", 0, 80>>>>) \o
  Group(83, "R", GFxx, <<<<"fclasss", 1, 112>>>>) \o
  Group(83, "R", FGxx, <<<<"fcvtsw", 0, 104>>, <<"fcvtswu", 0, 104, 0, 1>>, <<"fmvwx", 0, 120>>>>)

RV32FCOTable ==
  CGroup(2, "CI", FGGx, <<<<"cflwsp", 3>>>>) \o CGroup(2, "CSS", GGFx, <<<<"cfswsp", 7>>>>) \o
  CGroup(0, "CL", FGGx, <<<<"cflw", 3>>>>) \o CGroup(0, "CS", GGFx, <<<<"cfsw", 7>>>>)

RV64FTable ==
  Group(83, "R", GFxx, <<<<"fcvtls", 0, 96, 0, 2>>, <<"fcvtlus", 0, 96, 0, 3>>>>) \o
  Group(83, "R", FGxx, <<<<"fcvtsl", 0, 104, 0, 2>>, <<"fcvtslu", 0, 104, 0, 3>>>>)

RV32DTable ==
  Group(7, "I", FGGx, <<<<"fld", 3>>>>) \o Group(39, "S", IFFx, <<<<"fsd", 3>>>>) \o
  Group(67, "R4", FFFF, <<<<"fmaddd", 0, 1>>>>) \o
  Group(71, "R4", FFFF, <<<<"fmsubd", 0, 1>>>>) \o
  Group(75, "R4", FFFF, <<<<"fnmsubd", 0, 1>>>>) \o
  Group(79, "R4", FFFF, <<<<"fnmaddd", 0, 1>>>>) \o
  Group(83, "R", FFFx, <<<<"faddd", 0, 1>>, <<"fsubd", 0, 5>>, <<"fmuld", 0, 9>>,
      <<"fdivd", 0, 13>>>>) \o
  Group(83, "R", FFxx, <<<<"fsqrtd", 0, 45>>>>) \o
  Group(83, "R", FFFx, <<<<"fmind", 0, 21>>, <<"fmaxd", 1, 21>>, <<"fsgnjd", 0, 17>>,
      <<"fsgnjnd", 1, 17>>, <<"fsgnjxd", 2, 17>>>>) \o
  Group(83, "R", FFxx, <<<<"fcvtsd", 0, 32, 0, 1>>, <<"fcvtds", 0, 33>>>>) \o
  Group(83, "R", GFFx, <<<<"feqd", 2, 81>>, <<"fltd", 1, 81>>, <<"fled", 0, 81>>>>) \o
  Group(83, "R", GFxx, <<<<"fclassd", 1, 113>>, <<"fcvtwd", 0, 97>>,
      <<"fcvtwud", 0, 97, 0, 1>>>>) \o
  Group(83, "R", FGxx, <<<<"fcvtdw", 0, 105>>, <<"fcvtdwu", 0, 105, 0, 1>>>>)

RV32DCTable ==
  CGroup(2, "CI", FGGx, <<<<"cfldsp", 1>>>>) \o CGroup(2, "CSS", GGFx, <<<<"cfsdsp", 5>>>>) \o
  CGroup(0, "CL", FGGx, <<<<"cfld", 1>>>>) \o CGroup(0, "CS", GGGx, <<<<"cfsd", 5>>>>)

RV64DTable ==
  Group(83, "R", GFxx, <<<<"fcvtld", 0, 97, 0, 2>>, <<"fcvtlud", 0, 97, 0, 3>>>>) \o
  Group(83, "R", FGxx, <<<<"fcvtdl", 0, 105, 0, 2>>, <<"fcvtdlu", 0, 105, 0, 3>>>>) \o
  Group(83, "R", GFxx, <<<<"fmvxd", 0, 113>>>>) \o Group(83, "R", FGxx, <<<<"fmvdx", 0, 121>>>>)

ZicbomTable ==
  Group(15, "I", xGxx, <<<<"cmo", 2, 0, 1>>, <<"cmo", 2, 0, 2>>, <<"cmo", 2>>>>)

-----------------------------------------------------------------------------
(* The extensions: an instruction table, a compressed one and an optional one. *)

Ext(table, ctable, otable) == [table |-> table, ctable |-> ctable, otable |-> otable]

RV32I == Ext(RV32ITable, RV32ICTable, RV32ICOTable)
RV64I == Ext(RV64ITable, RV64ICTable, <<>>)
RV32M == Ext(RV32MTable, <<>>, <<>>)
RV64M == Ext(RV64MTable, <<>>, <<>>)
RV32A == Ext(RV32ATable, <<>>, <<>>)
RV64A == Ext(RV64ATable, <<>>, <<>>)
RV32F == Ext(RV32FTable, <<>>, RV32FCOTable)
RV64F == Ext(RV64FTable, <<>>, <<>>)
RV32D == Ext(RV32DTable, RV32DCTable, <<>>)
RV64D == Ext(RV64DTable, <<>>, <<>>)
Zicbom == Ext(ZicbomTable, <<>>, <<>>)

(* The machine model string is its XLEN and a sequence of extension names. *)

\* The table of extension names, in canonical order, and the features each one sets.
ExtensionNames ==
  << <<"E", {"E"}>>, <<"I", {"I"}>>, <<"M", {"M"}>>, <<"A", {"A"}>>,
     <<"F", {"F", "Zicsr"}>>, <<"D", {"D", "F", "Zicsr"}>>,
     <<"G", {"I", "M", "A", "F", "D", "Zicsr", "Zifencei"}>>, <<"Q", {"Q", "D", "F", "Zicsr"}>>,
     <<"L", {"L"}>>, <<"C", {"C"}>>, <<"B", {"B"}>>, <<"J", {"J"}>>, <<"T", {"T"}>>,
     <<"P", {"P"}>>, <<"V", {"V", "D", "F", "Zicsr"}>>, <<"N", {"N"}>>,
     <<"Zicsr", {"Zicsr"}>>, <<"Zifencei", {"Zifencei"}>>, <<"Zam", {"Zam", "A"}>>,
     <<"Ztso", {"Ztso"}>>, <<"Zfa", {"Zfa", "F", "Zicsr"}>>, <<"Zicbom", {"Zicbom"}>> >>

\* One walk over the table: an entry whose name is next in the string is consumed.  The
\* string is accepted when nothing of it is left after a match.
ParseMachineModel(names) ==
  LET Step(acc, e) ==
        IF acc.mac # <<>> /\ Head(acc.mac) = e[1]
        THEN [mac |-> Tail(acc.mac), features |-> acc.features \cup e[2]]
        ELSE acc
      end == FoldLeft(Step, [mac |-> names, features |-> {}], ExtensionNames)
  IN [ok |-> names # <<>> /\ end.mac = <<>>, features |-> end.features]

\* The EnableExt calls of SeedInstTable: an extension, and whether its optional compressed
\* instructions are loaded too.
SeedInstTable(rv64, features) ==
  LET On(f, calls) == IF f \in features THEN calls ELSE <<>>
      Also64(e32, e64) == IF rv64 THEN << <<e32, FALSE>>, <<e64, FALSE>> >> ELSE << <<e32, FALSE>> >>
  IN On("I", IF rv64 THEN << <<RV32I, FALSE>>, <<RV64I, FALSE>> >> ELSE << <<RV32I, TRUE>> >>)
     \o On("M", Also64(RV32M, RV64M))
     \o On("A", Also64(RV32A, RV64A))
     \o On("F", IF "D" \notin features /\ ~rv64
                THEN << <<RV32F, TRUE>> >> ELSE << <<RV32F, FALSE>>, <<RV64F, FALSE>> >>)
     \o On("D", Also64(RV32D, RV64D))
     \o On("Zicbom", << <<Zicbom, FALSE>> >>)

\* EnableExt appends the tables of an extension to InstTable and records, for every entry,
\* the extension and the position in the table the entry was read from.
EnableExt(core, ext, opt, hasC) ==
  LET loaded == <<ext.table>> \o (IF hasC THEN <<ext.ctable>> ELSE <<>>)
                              \o (IF hasC /\ opt THEN <<ext.otable>> ELSE <<>>)
      n == Len(core.Extensions) + 1
  IN [Extensions |-> Append(core.Extensions, ext),
      InstTable  |-> core.InstTable \o FlattenSeq(loaded),
      EntryToExt |-> core.EntryToExt
                       \o FlattenSeq([k \in DOMAIN loaded |-> [i \in DOMAIN loaded[k] |-> <<n, i>>]])]

CompressCEncoding(e) == <<e.op, e.f2, e.f3, e.f4, e.f6>>
CompressEncoding(e) == <<e.op, e.f3, e.f7, e.imm12, e.cvt>>

\* The maps keep the first entry inserted under an encoding.
Index(table, compressed, Enc(_)) ==
  LET of == {i \in DOMAIN table : table[i].compressed = compressed}
  IN [k \in {Enc(table[i]) : i \in of} |->
        CHOOSE i \in of : Enc(table[i]) = k /\ \A j \in of : Enc(table[j]) = k => i <= j]

LoadInstructionTable(rv64, features) ==
  LET Enable(core, call) == EnableExt(core, call[1], call[2], "C" \in features)
      core == FoldLeft(Enable, [Extensions |-> <<>>, InstTable |-> <<>>, EntryToExt |-> <<>>],
                       SeedInstTable(rv64, features))
  IN [Extensions |-> core.Extensions, InstTable |-> core.InstTable,
      EntryToExt |-> core.EntryToExt,
      EncToEntry |-> Index(core.InstTable, FALSE, CompressEncoding),
      CEncToEntry |-> Index(core.InstTable, TRUE, CompressCEncoding)]
=============================================================================
