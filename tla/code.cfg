SPECIFICATION Spec
CONSTANTS
  MAXINDEXRK = 3
  LFIELDS_PER_FLUSH = 2
  MAXARG_C = 3
  StackSize = 30
  Atoms = {"a", "not a", "a==b", "true", "false"}
  Ops = {"and", "or"}
  Parser <- LuaParser
  Evaluator <- LuaMeaning
  Programs <- AllPrograms
INVARIANT CodeChecked
INVARIANT TopAtLimit
INVARIANT OpenUpvaluesLive
INVARIANT AsMeant
