SPECIFICATION Spec
CONSTANTS
  Chars = {0, 1, 2, 3}
  UCHAR_MAX = 3
  MAXOFF = 2
  MAXBACK = 6
  Compiler <- LpegCompiler
  CapturesOf <- LpegCaptures
  Evaluator <- PegMeaning
  Cases <- AllCases
INVARIANT AsGrammarSays
INVARIANT AssertsHold
INVARIANT CapturesInOrder
 
