------------------------------ MODULE RevInsns ------------------------------
(***************************************************************************)
(* The functions that implement the integer instructions: the templates of *)
(* RevInstHelpers.h as the extensions instantiate them, on registers of a  *)
(* scaled width.  W stands for the 32 bits of a word and 2 * W for the 64  *)
(* bits of a double word; a register holds a number below 2^XLEN.  The C++ *)
(* integer type of an operand is its width and whether it is signed.       *)
(***************************************************************************)
EXTENDS Integers, Bitwise

CONSTANTS W

Bits(rv64) == IF rv64 THEN 2 * W ELSE W
Unsigned(v, n) == v % 2^n
AsSigned(v, n) == IF v % 2^n >= 2^(n - 1) THEN (v % 2^n) - 2^n ELSE v % 2^n
As(v, n, signed) == IF signed THEN AsSigned(v, n) ELSE Unsigned(v, n)

\* GetX reads a register as an n-bit integer; SetX stores the bits of a value.
GetX(v, n, signed) == As(v, n, signed)
SetX(rv64, v) == Unsigned(v, Bits(rv64))

\* The functors, on operands of an n-bit type; the result is brought back to n bits.
Functor(op, a, b, n) ==
  CASE op = "plus" -> a + b
    [] op = "minus" -> a - b
    [] op = "multiplies" -> a * b
    [] op = "bit_and" -> Unsigned(a, n) & Unsigned(b, n)
    [] op = "bit_or" -> Unsigned(a, n) | Unsigned(b, n)
    [] op = "bit_xor" -> Unsigned(a, n) ^^ Unsigned(b, n)
    [] op = "less" -> IF a < b THEN 1 ELSE 0
    [] op = "ShiftLeft" -> a * 2^(b % n)
    [] op = "ShiftRight" -> a \div 2^(b % n)

Instance(op, kind, signed, wmode) == [op |-> op, kind |-> kind, signed |-> signed, W |-> wmode]

Oper ==
  [add   |-> Instance("plus", "Reg", TRUE, FALSE),       addi  |-> Instance("plus", "Imm", TRUE, FALSE),
   sub   |-> Instance("minus", "Reg", TRUE, FALSE),      mul   |-> Instance("multiplies", "Reg", TRUE, FALSE),
   f_xor |-> Instance("bit_xor", "Reg", TRUE, FALSE),    xori  |-> Instance("bit_xor", "Imm", TRUE, FALSE),
   f_or  |-> Instance("bit_or", "Reg", TRUE, FALSE),     ori   |-> Instance("bit_or", "Imm", TRUE, FALSE),
   f_and |-> Instance("bit_and", "Reg", TRUE, FALSE),    andi  |-> Instance("bit_and", "Imm", TRUE, FALSE),
   slt   |-> Instance("less", "Reg", TRUE, FALSE),       slti  |-> Instance("less", "Imm", TRUE, FALSE),
   sltu  |-> Instance("less", "Reg", FALSE, FALSE),      sltiu |-> Instance("less", "Imm", FALSE, FALSE),
   sll   |-> Instance("ShiftLeft", "Reg", FALSE, FALSE), slli  |-> Instance("ShiftLeft", "Imm", FALSE, FALSE),
   srl   |-> Instance("ShiftRight", "Reg", FALSE, FALSE), srli |-> Instance("ShiftRight", "Imm", FALSE, FALSE),
   sra   |-> Instance("ShiftRight", "Reg", TRUE, FALSE), srai  |-> Instance("ShiftRight", "Imm", TRUE, FALSE)]

OperW ==
  [addw  |-> Instance("plus", "Reg", TRUE, TRUE),        addiw |-> Instance("plus", "Imm", TRUE, TRUE),
   subw  |-> Instance("minus", "Reg", TRUE, TRUE),       mulw  |-> Instance("multiplies", "Reg", FALSE, TRUE),
   sllw  |-> Instance("ShiftLeft", "Reg", FALSE, TRUE),  slliw |-> Instance("ShiftLeft", "Imm", FALSE, TRUE),
   srlw  |-> Instance("ShiftRight", "Reg", FALSE, TRUE), srliw |-> Instance("ShiftRight", "Imm", FALSE, TRUE),
   sraw  |-> Instance("ShiftRight", "Reg", TRUE, TRUE),  sraiw |-> Instance("ShiftRight", "Imm", TRUE, TRUE)]

\* oper: x is the value of rs1, y that of rs2 or the immediate.
oper(rv64, t, x, y) ==
  LET n == IF t.W THEN W ELSE Bits(rv64)
      res == Functor(t.op, GetX(x, n, t.signed), As(y, n, t.signed), n)
  IN SetX(rv64, As(res, n, t.signed \/ t.W))

\* uppermul: the unsigned product, corrected for each operand that is signed and negative.
Upper == [mulh |-> <<TRUE, TRUE>>, mulhu |-> <<FALSE, FALSE>>, mulhsu |-> <<TRUE, FALSE>>]

uppermul(rv64, t, x, y) ==
  LET n == Bits(rv64)
      mul == (x * y) \div 2^n
      top(v) == v >= 2^(n - 1)
  IN SetX(rv64, mul - (IF t[1] /\ top(x) THEN y ELSE 0) - (IF t[2] /\ top(y) THEN x ELSE 0))

\* divrem: C++ division, which truncates, with the two cases C++ leaves undefined.
DivRem ==
  [div  |-> Instance("Div", "Reg", TRUE, FALSE), divu  |-> Instance("Div", "Reg", FALSE, FALSE),
   rem  |-> Instance("Rem", "Reg", TRUE, FALSE), remu  |-> Instance("Rem", "Reg", FALSE, FALSE),
   divw |-> Instance("Div", "Reg", TRUE, TRUE),  divuw |-> Instance("Div", "Reg", FALSE, TRUE),
   remw |-> Instance("Rem", "Reg", TRUE, TRUE),  remuw |-> Instance("Rem", "Reg", FALSE, TRUE)]

Magnitude(v) == IF v < 0 THEN -v ELSE v
Quotient(a, b) ==
  LET q == Magnitude(a) \div Magnitude(b) IN IF (a < 0) = (b < 0) THEN q ELSE -q

divremFloor(rv64, t, x, y) ==
  LET n == IF t.W THEN W ELSE Bits(rv64)
      a == GetX(x, n, t.signed)
      b == GetX(y, n, t.signed)
      res == IF t.op = "Div" THEN IF b # 0 THEN IF b > 0 THEN a \div b ELSE (-a) \div (-b) ELSE -1
             ELSE IF b # 0 THEN a % Magnitude(b) ELSE a
  IN SetX(rv64, As(res, n, t.signed \/ t.W))

divrem(rv64, t, x, y) ==
  LET n == IF t.W THEN W ELSE Bits(rv64)
      a == GetX(x, n, t.signed)
      b == GetX(y, n, t.signed)
      overflow == t.signed /\ a = -(2^(n - 1)) /\ b = -1
      res == IF t.op = "Div"
             THEN IF overflow THEN a ELSE IF b # 0 THEN Quotient(a, b) ELSE -1
             ELSE IF overflow THEN 0 ELSE IF b # 0 THEN a - b * Quotient(a, b) ELSE a
  IN SetX(rv64, As(res, n, t.signed \/ t.W))

\* bcond: does the branch compare true?
Conditions ==
  [beq  |-> <<"equal", FALSE>>, bne  |-> <<"not_equal", FALSE>>, blt  |-> <<"less", TRUE>>,
   bltu |-> <<"less", FALSE>>,  bge  |-> <<"greater_equal", TRUE>>,
   bgeu |-> <<"greater_equal", FALSE>>]

bcond(rv64, t, x, y) ==
  LET a == GetX(x, Bits(rv64), t[2])
      b == GetX(y, Bits(rv64), t[2])
  IN CASE t[1] = "equal" -> a = b [] t[1] = "not_equal" -> a # b
       [] t[1] = "less" -> a < b  [] t[1] = "greater_equal" -> a >= b

\* Jumps at pc: the new pc and the link in rd.  jalr reads rs1 before it writes rd.
jal(rv64, pc, imm, size) ==
  [pc |-> SetX(rv64, pc + AsSigned(imm, Bits(rv64))), rd |-> SetX(rv64, pc + size)]
jalr(rv64, pc, x, imm, size) ==
  LET target == x + imm
  IN [pc |-> SetX(rv64, target - (target % 2)), rd |-> SetX(rv64, pc + size)]

\* The register value an integer function computes.
Result(rv64, f, x, y) ==
  CASE f \in DOMAIN Oper -> oper(rv64, Oper[f], x, y)
    [] f \in DOMAIN OperW -> oper(rv64, OperW[f], x, y)
    [] f \in DOMAIN Upper -> uppermul(rv64, Upper[f], x, y)
    [] f \in DOMAIN DivRem -> divrem(rv64, DivRem[f], x, y)
=============================================================================
