CONSTANTS
  Width = 5
  Jobs <- MCJobs
  Operands <- MCOperands
SPECIFICATION Spec
INVARIANTS  CoresSmooth VaisnavReportedError VaisnavReflects MatchesEvaluation ExactAboveTruncation
INVARIANTS GatesLegal OperandsKept ArithmeticRight FloatRight  F6FloatRight CyclesAsDocumented
