SPECIFICATION FairSpec
CONSTANTS
  t0 = t0 t1 = t1 u1 = u1 u2 = u2
  lc1 = lc1 lc2 = lc2 cc1 = cc1 uv1 = uv1 uv2 = uv2 th1 = th1 str1 = str1
  MainThread = MainThread Registry = t0 Plain = Plain Nil = Nil
  Tables = {t0}
  Udatas = {u1, u2}
  LClosures = {}
  CClosures = {}
  UpVals = {}
  Coroutines = {}
  Strings = {}
  Slots = {1}
  WeakKey = {}
  WeakValue = {t0}
  HasGC = {t0}
  MetaTables = {t0}
  KeySet = {Plain}
  Uses = {"fullgc"}
INVARIANT CycleInv
PROPERTY FullGCPrecise
PROPERTY IsHeap
 
