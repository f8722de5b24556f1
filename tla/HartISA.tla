------------------------------ MODULE HartISA ------------------------------
(***************************************************************************)
(* What a core promises a program: every hart executes the instructions    *)
(* of its thread one at a time and in order, each on the register values   *)
(* its predecessors left, a load having its data at once.  RevPipeline,    *)
(* where data arrives any number of cycles later, implements this.         *)
(***************************************************************************)
EXTENDS Integers

CONSTANTS
  Harts,      \* the harts of the core
  Regs,       \* the registers of a hart
  Zero,       \* x0
  NoReg,      \* the destination of an instruction that writes no register
  Insts,      \* the instructions: [op, srcs, rd, cost]
  NoInst,     \* what is at address 0
  Values,     \* the contents of a register
  ALU(_, _),  \* what an instruction computes from its operands
  Data        \* what a load reads at an address

VARIABLES
  inst,  \* the instruction at the PC of each hart
  regs,  \* the registers of each hart
  sent   \* the last value each hart has stored to memory

vars == <<inst, regs, sent>>

Cleared == [r \in Regs |-> 0]

Init ==
  /\ inst = [h \in Harts |-> NoInst]
  /\ regs = [h \in Harts |-> Cleared]
  /\ sent = [h \in Harts |-> 0]

\* A new thread starts with clear registers.
Start(h) ==
  /\ inst[h] = NoInst
  /\ \E i \in Insts : inst' = [inst EXCEPT ![h] = i]
  /\ regs' = [regs EXCEPT ![h] = Cleared]
  /\ UNCHANGED sent

\* An instruction sees the registers it names.
Operands(i, f) == [r \in i.srcs |-> f[r]]

\* The value the instruction produces: its result, or the data it loads.
Produces(i, f) ==
  LET v == ALU(i, Operands(i, f)) IN IF i.op = "load" THEN Data[v] ELSE v

Execute(h) ==
  /\ inst[h] # NoInst
  /\ \E i \in Insts \cup {NoInst} : inst' = [inst EXCEPT ![h] = i]
  /\ regs' = [regs EXCEPT ![h] =
                [r \in Regs |-> IF r = inst[h].rd /\ r # Zero
                                  THEN Produces(inst[h], regs[h])
                                  ELSE regs[h][r]]]
  /\ sent' = IF inst[h].op = "store"
               THEN [sent EXCEPT ![h] = Produces(inst[h], regs[h])]
               ELSE sent

Next == \E h \in Harts : Start(h) \/ Execute(h)

Spec == Init /\ [][Next]_vars

============================================================================
