SPECIFICATION Spec
CONSTANTS
  MaxWords = 8
  Names = {n1, n2}
  Tags = {g1, g2}
  Kinds = {k1, k2}
  Rulesets = {0, 1}
  MaxRules = 2
  MaxCalls = 3
SYMMETRY Symmetry
INVARIANTS DecidesAsMeant CompilerSound RulesDecide KindsKnown
CHECK_DEADLOCK FALSE
