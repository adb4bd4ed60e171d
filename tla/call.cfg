SPECIFICATION Spec
CONSTANTS
  co1 = co1 co2 = co2 u1 = u1 u2 = u2
  Coroutines = {co1}
  MainThread = MainThread
  Udatas = {u1}
  MAXCCALLS = 3
  MAXCALLS = 5
  BASIC_CI_SIZE = 2
  Uses = {"hooks", "handlers", "wrap"}
INVARIANT DepthCounted
 
INVARIANT ErrorJmpLive
INVARIANT ErrfuncLive
INVARIANT HooksGuarded
INVARIANT CallInfoInBounds
INVARIANT SuspendedClean
INVARIANT StatusTrue
INVARIANT FinalizedOnce
INVARIANT FramesAgree
