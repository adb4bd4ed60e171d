SPECIFICATION Spec
CONSTANTS
  MAXINDEXRK = 3
  LFIELDS_PER_FLUSH = 2
  MAXARG_C = 3
  StackSize = 30
  Atoms = {"true", "false", "a"}
  Ops = {"and", "or"}
  Parser <- LuaParser
  Evaluator <- LuaMeaning
  Programs <- DecidedConditions
INVARIANT AsMeant
