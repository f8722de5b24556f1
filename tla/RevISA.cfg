SPECIFICATION Spec
CONSTANTS
  W = 4
  Machines <- MCMachines
  RegSets <- MCRegSets
  Operands <- MCOperands
  Floats <- MCFloats
  FewFloats <- MCFewFloats
  PF = 2
  PD = 6
INVARIANTS
  RunsAsWritten
  SourcesChecked
  IntegerLaws
  FloatLaws
CHECK_DEADLOCK FALSE
