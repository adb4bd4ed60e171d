------------------------------ MODULE LpegInst ------------------------------
(***************************************************************************)
(* The instructions of lpeg.c, on which its compiler and its matching      *)
(* machine agree, and what a pattern is and match returns.                 *)
(***************************************************************************)
EXTENDS Integers, Sequences, FiniteSets, SequencesExt, FiniteSetsExt

CONSTANTS
  Chars,
  UCHAR_MAX,  \* the most characters of one IAny, and the largest size of a capture
  MAXOFF,     \* how far a capture can be moved
  MAXBACK     \* pending calls and choices

NUL == 0

ASSUME LpegAssumption ==
  /\ NUL \in Chars /\ Chars \subseteq Nat
  /\ UCHAR_MAX \in Nat /\ MAXOFF \in 1..UCHAR_MAX - 1 /\ MAXBACK \in Nat \ {0}

-----------------------------------------------------------------------------
(* Instructions.                                                           *)

Tested == [IAny |-> "ITestAny", IChar |-> "ITestChar", ISet |-> "ITestSet", IZSet |-> "ITestZSet"]
Checks == DOMAIN Tested
Tests  == {Tested[op] : op \in Checks}
MovableCaptures == {"IEmptyCapture", "IOpenCapture", "ICloseCapture"}
Captures == MovableCaptures \cup {"IFullCapture"}
Jumps  == Tests \cup {"IChoice", "IJmp", "ICall", "ICommit", "IPartialCommit", "IBackCommit"}
NoFail == Tests \cup Captures \cup {"ISpan", "ISpanZ", "IJmp"}
EnvOff == Captures \cup {"IOpenCall", "ILFunc"}
HasCharset == {"ISet", "IZSet", "ITestSet", "ITestZSet", "ISpan", "ISpanZ"}

Inst(op, off, aux) == [op |-> op, off |-> off, aux |-> aux, n |-> 0, set |-> {}]
Char(c)  == [Inst("IChar", 0, 0) EXCEPT !.set = {c}]
Capture(op, idx, kind, n) == [Inst(op, idx, kind) EXCEPT !.n = n]
Slot(set) == [Inst("IData", 0, 0) EXCEPT !.set = set]

\* correctset: a set with NUL also needs a test for the end.
Charset(op, zop, set) == <<Inst(IF NUL \in set THEN zop ELSE op, 0, 0), Slot(set)>>

sizei(i)    == IF i.op \in HasCharset THEN 2 ELSE 1
op_step(i)  == IF i.op = "IAny" THEN i.aux ELSE 1
ischeck(i)  == i.op \in Checks
dest(code, i) == i + code[i].off

\* The set an instruction tests.
SetOf(code, i) == IF code[i].op \in HasCharset THEN code[i + 1].set ELSE code[i].set

-----------------------------------------------------------------------------
(* Patterns that were refused, and what match returns.                     *)

Bad(why) == [ok |-> FALSE, why |-> why, code |-> <<>>, env |-> <<>>]
Nil == <<"nil">>
Values(vs)   == [k |-> "values", vs |-> vs]
Refused(why) == [k |-> "error", vs |-> <<why>>]
=============================================================================
