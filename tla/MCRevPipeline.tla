--------------------------- MODULE MCRevPipeline ---------------------------
(* Model checking RevPipeline: two harts, the registers x0, x1 and f0.     *)
EXTENDS RevPipeline, FiniteSetsExt

MCRegs == {<<"GPR", 0>>, <<"GPR", 1>>, <<"FLOAT", 0>>}
MCValues == {0, 1}

x0 == <<"GPR", 0>>
x1 == <<"GPR", 1>>
f0 == <<"FLOAT", 0>>

I(op, srcs, rd, cost) == [op |-> op, srcs |-> srcs, rd |-> rd, cost |-> cost]

\* A cost other than 1 comes from an instruction table given by the user.
MCInsts ==
  { I("alu", {}, x1, 1), I("load", {x0}, x1, 1), I("load", {x1}, f0, 1),
    I("load", {x1}, x0, 1), I("store", {x0, f0}, NoReg, 1),
    I("load", {x0}, x1, 0), I("alu", {x1}, NoReg, 2) }

MCALU(i, f) == (1 + MapThenSumSet(LAMBDA r : f[r], DOMAIN f)) % 2
MCData == [a \in MCValues |-> 1 - a]
MCMemCosts == {1}

============================================================================
