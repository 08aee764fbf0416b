CONSTANTS
  Width = 5
  Jobs <- MCFloatPipeline
  Operands <- MCOperands
SPECIFICATION Spec
INVARIANT BelowOnePasses
