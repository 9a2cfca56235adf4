SPECIFICATION Spec
CONSTANTS
  Width <- MCWidth
  Precision <- MCPrecision
  Names <- MCNames
  Exprs <- MCExprs
  Expected <- MCExpected
INVARIANTS
  WellTypedCode
  MeaningPreserved
  PromotionsLossless
