SPECIFICATION Spec
CONSTANTS
  H = 2
  Width = 2
  Pc = 0
  Regs = {r0, r1}
  Sources = {r0, r1}
  Table <- MCTable
  Keys <- AllKeys
  MaxPc = 3
  Vector = 2
  Psrs <- MCPsrs
  MaxSteps = 5
SYMMETRY Symmetry
INVARIANTS DecoderInv FlagsTold
PROPERTY SvcComesBack
CHECK_DEADLOCK FALSE
