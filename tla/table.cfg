SPECIFICATION Spec
CONSTANTS
  o1 = o1 s1 = s1 v1 = v1 Nil = Nil Off = Off Invalid = Invalid
  Ints = {1, 2, 3}
  Strings = {s1}
  Objects = {o1}
  Values = {v1}
  Hashes <- MCHashes
  Sizes = {0, 3}
INVARIANT HoldsFields
INVARIANT NextFindsKey
INVARIANT LengthIsBorder
INVARIANT RehashMakesRoom
INVARIANT OncePerKey
PROPERTY IsDictionary
