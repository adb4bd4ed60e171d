------------------------------ MODULE LpegMatch ------------------------------
(***************************************************************************)
(* lpeg.match: the matching machine of lpeg.c.  One action is one          *)
(* instruction.                                                            *)
(*                                                                         *)
(* A pattern is given as a tree, which Compiler turns into code.           *)
(*                                                                         *)
(* A definition marked "fault" is what a slip in the code would make of    *)
(* the definition below it.                                                *)
(***************************************************************************)
EXTENDS LpegInst

CONSTANTS
  Cases,       \* what is matched: a tree, a subject and the position argument
  Compiler(_), \* the pattern of a tree
  CapturesOf(_, _, _, _)  \* what match returns: getcaptures of Lpeg

VARIABLES
  case,     \* what is matched
  patt,     \* the pattern
  p,        \* the next instruction, 0 for the one that gives up
  s,        \* the current position, from 1
  stack,    \* pending calls (s is NULL) and choices
  capture,  \* the captures so far
  status,   \* "new", "match", "matched", "done", "assertion"
  result    \* what match returns

vars == <<case, patt, p, s, stack, capture, status, result>>

subj == case.subj
e    == Len(subj) + 1
NULL == 0
byte(i) == IF i < e THEN subj[i] ELSE NUL

\* Entries of the list of captures.
isclosecap(c) == c.kind = "Cclose"
isfullcap(c)  == c.siz # 0
closeaddr(c)  == c.s + c.siz - 1

-----------------------------------------------------------------------------
(* The machine.                                                            *)

Init ==
  /\ case \in Cases
  /\ patt = Bad("") /\ p = 1 /\ s = 1 /\ stack = <<>> /\ capture = <<>>
  /\ status = "new" /\ result = Values(<<>>)

\* The position argument counts from the end when it is not positive.
matchl ==
  /\ status = "new"
  /\ patt' = Compiler(case.tree)
  /\ LET l == Len(subj)
         i == case.init
     IN  s' = 1 + (IF i > 0 THEN (IF i <= l THEN i - 1 ELSE l)
                   ELSE IF l + i >= 0 THEN l + i ELSE 0)
  /\ stack' = <<[s |-> s', p |-> 0, caplevel |-> 0]>>
  /\ status' = IF patt'.ok THEN "match" ELSE "done"
  /\ result' = IF patt'.ok THEN result ELSE Refused(patt'.why)
  /\ UNCHANGED <<case, p, capture>>

I == IF p = 0 THEN Inst("IGiveup", 0, 0) ELSE patt.code[p]
Executes(ops)    == status = "match" /\ I.op \in ops
assert(b)  == status' = IF b THEN status ELSE "assertion"
Pending(b) == stack # <<>> /\ ((Last(stack).s # NULL) = b)

\* The machine goes on at to, with the position at.
Goto(to, at) == p' = to /\ s' = at /\ UNCHANGED <<case, patt, result>>
Next_(n, at) == Goto(p + n, at) /\ UNCHANGED <<stack, capture, status>>

\* Pending calls are removed, and the last choice is taken.
ChoiceEntries(st) == {i \in DOMAIN st : st[i].s # NULL}
Fail(st) ==
  LET i == Max(ChoiceEntries(st))
  IN  IF ChoiceEntries(st) = {} THEN assert(FALSE) /\ UNCHANGED <<case, patt, p, s, stack, capture, result>>
      ELSE /\ Goto(st[i].p, st[i].s)
           /\ stack' = SubSeq(st, 1, i - 1)
           /\ capture' = SubSeq(capture, 1, st[i].caplevel)
           /\ UNCHANGED status

Returns(r) ==
  /\ result' = r
  /\ status' = "done"
  /\ UNCHANGED <<case, patt, p, s, stack, capture>>

IEnd ==
  /\ Executes({"IEnd"})
  /\ IF Len(stack) = 1
     THEN /\ status' = "matched"
          /\ capture' = Append(capture, [s |-> NULL, idx |-> 0, kind |-> "Cclose", siz |-> 0])
          /\ UNCHANGED <<case, patt, p, s, stack, result>>
     ELSE assert(FALSE) /\ UNCHANGED <<case, patt, p, s, stack, capture, result>>
IGiveup ==
  /\ Executes({"IGiveup"})
  /\ Returns(Values(<<Nil>>))

IRet ==
  /\ Executes({"IRet"}) /\ stack # <<>>
  /\ assert(Pending(FALSE))
  /\ Goto(Last(stack).p, s)
  /\ stack' = Front(stack)
  /\ UNCHANGED capture

\* Whether the test at p holds, and the slots and characters it takes.
Holds ==
  CASE I.op \in {"IAny", "ITestAny"} -> I.aux <= e - s
    [] I.op \in {"ISet", "ITestSet"} -> byte(s) \in SetOf(patt.code, p)
    [] I.op \in {"IChar", "ITestChar", "IZSet", "ITestZSet"} -> byte(s) \in SetOf(patt.code, p) /\ s < e
Taken == IF I.op \in {"IAny", "ITestAny"} THEN I.aux ELSE 1

Check == Executes(Checks) /\ IF Holds THEN Next_(sizei(I), s + Taken) ELSE Fail(stack)
Test  == Executes(Tests)  /\ IF Holds THEN Next_(sizei(I), s + Taken) ELSE Next_(I.off, s)

\* A set without NUL stops at the end of the subject.
EndNotSeen(set, atend) == Min({i \in s..e : byte(i) \notin set} \cup {e + 1})  \* fault
SpanEnd(set, atend) == Min({i \in s..e : byte(i) \notin set \/ (atend /\ i = e)} \cup {e + 1})
ISpan == /\ Executes({"ISpan", "ISpanZ"})
         /\ Next_(sizei(I), SpanEnd(SetOf(patt.code, p), I.op = "ISpanZ"))
IFunc == Executes({"IFunc"}) /\ Next_(sizei(I), SpanEnd(I.set \ {NUL}, FALSE))

\* The functions of the patterns: what lua_tointeger makes of their result.
Called(f, i) == CASE f = "here" -> i [] f = "skip" -> i + 1 [] f = "back" -> i - 1 [] f = "nil" -> 0
ILFunc ==
  /\ Executes({"ILFunc"})
  /\ LET res == Called(patt.env[I.off][2], s)
     IN  IF res \in s..e THEN Next_(1, res) ELSE Fail(stack)

IJmp == Executes({"IJmp"}) /\ Next_(I.off, s)

Push(entry, to) ==
  IF Len(stack) >= MAXBACK THEN Returns(Refused("too many pending calls/choices"))
  ELSE Goto(to, s) /\ stack' = Append(stack, entry) /\ UNCHANGED <<capture, status>>
IChoice ==
  Executes({"IChoice"}) /\ Push([s |-> s - I.aux, p |-> p + I.off, caplevel |-> Len(capture)], p + 1)
ICall == Executes({"ICall"}) /\ Push([s |-> NULL, p |-> p + 1, caplevel |-> 0], p + I.off)

ChoiceStays ==  \* fault
  /\ Executes({"ICommit"}) /\ stack # <<>>
  /\ assert(Pending(TRUE))
  /\ Goto(p + I.off, s)
  /\ UNCHANGED <<stack, capture>>
ICommit ==
  /\ Executes({"ICommit"}) /\ stack # <<>>
  /\ assert(Pending(TRUE))
  /\ Goto(p + I.off, s)
  /\ stack' = Front(stack)
  /\ UNCHANGED capture
IPartialCommit ==
  /\ Executes({"IPartialCommit"}) /\ stack # <<>>
  /\ assert(Pending(TRUE))
  /\ Goto(p + I.off, s)
  /\ stack' = [stack EXCEPT ![Len(stack)].s = s, ![Len(stack)].caplevel = Len(capture)]
  /\ UNCHANGED capture
IBackCommit ==
  /\ Executes({"IBackCommit"}) /\ stack # <<>>
  /\ assert(Pending(TRUE))
  /\ Goto(p + I.off, Last(stack).s)
  /\ stack' = Front(stack)
  /\ capture' = SubSeq(capture, 1, Last(stack).caplevel)

IFail      == Executes({"IFail"}) /\ Fail(stack)
IFailTwice == Executes({"IFailTwice"}) /\ stack # <<>> /\ Fail(Front(stack))

\* A capture that was moved began I.n characters ago.
Captured(siz) ==
  /\ capture' = Append(capture, [s |-> s - I.n, idx |-> I.off, kind |-> I.aux, siz |-> siz])
  /\ Goto(p + 1, s) /\ UNCHANGED <<stack, status>>
IOpenCapture  == Executes({"IOpenCapture"}) /\ Captured(0)
IEmptyCapture == Executes({"IEmptyCapture"}) /\ Captured(1)
IFullCapture  == Executes({"IFullCapture"}) /\ Captured(I.n + 1)

\* A capture with none in it, and short enough, is closed in its own entry.
ICloseCapture ==
  /\ Executes({"ICloseCapture"})
  /\ LET s1   == s - I.n
         last == Last(capture)
     IN  CASE capture = <<>> -> assert(FALSE) /\ UNCHANGED <<case, patt, p, s, stack, capture, result>>
           [] capture # <<>> /\ last.siz = 0 /\ s1 - last.s < UCHAR_MAX ->
                /\ capture' = [capture EXCEPT ![Len(capture)].siz = s1 - last.s + 1]
                /\ Goto(p + 1, s) /\ UNCHANGED <<stack, status>>
           [] OTHER -> Captured(1)

IOpenCall == Executes({"IOpenCall"}) /\ Returns(Refused("reference to unknown rule"))

\* The values of a match that succeeded.
PushValues ==
  /\ status = "matched"
  /\ Returns(CapturesOf(subj, patt.env, capture, s))

Ended == status \in {"done", "assertion"} /\ UNCHANGED vars

Instruction ==
  \/ IEnd \/ IGiveup \/ IRet \/ Check \/ Test \/ ISpan \/ IFunc \/ ILFunc \/ IJmp
  \/ IChoice \/ ICall \/ ICommit \/ IPartialCommit \/ IBackCommit \/ IFail \/ IFailTwice
  \/ IOpenCapture \/ IEmptyCapture \/ IFullCapture \/ ICloseCapture \/ IOpenCall
Next == matchl \/ Instruction \/ PushValues \/ Ended

\* The machine runs until it returns.
Spec == Init /\ [][Next]_vars /\ WF_vars(Instruction)

-----------------------------------------------------------------------------
(* Properties.                                                            *)

\* The assertions of match: a return finds a call, a commit a choice, a close
\* something to close, and at the end nothing is pending (lpeg.c:386).
AssertsHold == status # "assertion"

\* The machine reads nothing beyond the end of the subject, and captures are in
\* the order of the places where they begin, none ending beyond the position.
CapturesInOrder ==
  status = "match" =>
    /\ s \in 1..e
    /\ \A i \in DOMAIN capture : capture[i].s \in 1..s /\ closeaddr(capture[i]) <= s
    /\ \A i \in DOMAIN capture : i > 1 => capture[i - 1].s <= capture[i].s
    /\ \A i \in DOMAIN capture :
         Cardinality({j \in 1..i : isclosecap(capture[j])}) <=
         Cardinality({j \in 1..i : capture[j].siz = 0})
=============================================================================
