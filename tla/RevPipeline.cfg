\* Two harts and two threads of at most two instructions, one stall of a
\* hart by the coprocessor.
CONSTANTS
  NumHarts = 2
  Regs <- MCRegs
  NoReg = NoReg
  Insts <- MCInsts
  NoInst = NoInst
  Values <- MCValues
  ALU <- MCALU
  Data <- MCData
  MemCosts <- MCMemCosts
  MaxInst = 2
  MaxThread = 2
  MaxStall = 1
SPECIFICATION FairSpec
INVARIANTS
  ScoreboardExact
  RegFilesAlive
PROPERTIES
  ImplementsISA
  ThreadsEnd
CHECK_DEADLOCK FALSE
