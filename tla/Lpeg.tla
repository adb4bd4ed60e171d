-------------------------------- MODULE Lpeg --------------------------------
(***************************************************************************)
(* What lpeg.match returns: the values of a list of captures.              *)
(*                                                                         *)
(* Values are <<"nil">>, <<"num", n>>, <<"str", s>> with s a sequence of   *)
(* characters, <<"tab", vs>> and <<"app", f, vs>>: what the function f     *)
(* makes of the arguments vs.  Labels of captures are <<"fun", f>>,        *)
(* <<"table", h>> and <<"format", pieces>>.                                *)
(***************************************************************************)
EXTENDS LpegCode, LpegMatch

TextOf(sub, from, to) == <<"str", SubSeq(sub, from, to - 1)>>

-----------------------------------------------------------------------------
(* The values of the captures: cs has the index cap of the current         *)
(* capture, the value in the substitution cache, the values vs and the     *)
(* error, "" if there is none.                                             *)

pushluaval(cs, idx)  == IF idx = 0 THEN Nil ELSE cs.ktable[idx]
updatecache(cs, idx) == [cs EXCEPT !.cache = cs.ktable[idx]]
Error(cs, why) == [cs EXCEPT !.err = IF @ = "" THEN why ELSE @]

\* What a function returns.
Results(f, vs) ==
  CASE f = "none" -> <<>> [] f = "one" -> <<<<"app", f, vs>>>>
    [] f = "two"  -> <<<<"app", f, vs>>, Last(vs)>>
Digits(n) == <<48 + n>>
isstring(v) == v[1] \in {"num", "str"}
ToText(v)   == IF v[1] = "num" THEN Digits(v[2]) ELSE v[2]

RECURSIVE pushcapture(_, _), PushNested(_, _), Accumulated(_, _), Substituted(_, _, _), getstrcaps(_, _, _)

PushNested(caps, cs) ==
  IF cs.err # "" \/ isclosecap(caps[cs.cap]) THEN cs ELSE PushNested(caps, pushcapture(caps, cs))

\* With the whole match as an extra value, if asked for or if there is no other.
pushallcaptures(caps, cs, addextra) ==
  LET co == caps[cs.cap]
      in == PushNested(caps, [cs EXCEPT !.cap = @ + 1, !.vs = <<>>])
  IN  IF isfullcap(co) THEN [cs EXCEPT !.cap = @ + 1, !.vs = <<TextOf(cs.s, co.s, closeaddr(co))>>]
      ELSE [in EXCEPT !.cap = @ + 1,
                      !.vs = IF addextra \/ @ = <<>> THEN Append(@, TextOf(cs.s, co.s, caps[in.cap].s)) ELSE @]

simplecap(caps, cs) ==
  LET all == pushallcaptures(caps, cs, TRUE) IN [all EXCEPT !.vs = <<Last(@)>> \o Front(@)]

tablecap(caps, cs) ==
  LET in == PushNested(caps, [cs EXCEPT !.cap = @ + 1, !.vs = <<>>])
  IN  IF isfullcap(caps[cs.cap]) THEN [cs EXCEPT !.cap = @ + 1, !.vs = <<<<"tab", <<>>>>>>]
      ELSE [in EXCEPT !.cap = @ + 1, !.vs = <<<<"tab", @>>>>]

querycap(caps, cs) ==
  \* The nested captures may have put another value in the cache.
  LET all == updatecache(pushallcaptures(caps, cs, FALSE), caps[cs.cap].idx)
      key == Head(all.vs)
      h   == all.cache[2]
  IN  [all EXCEPT !.vs = IF key \in DOMAIN h THEN <<h[key]>> ELSE <<>>]

functioncap(caps, cs) ==
  LET all == pushallcaptures(caps, cs, FALSE)
  IN  [all EXCEPT !.vs = Results(pushluaval(cs, caps[cs.cap].idx)[2], @)]

\* cs.vs is the accumulator.
Accumulated(caps, cs) ==
  LET c   == caps[cs.cap]
      all == pushallcaptures(caps, cs, FALSE)
      new == Results(pushluaval(cs, c.idx)[2], cs.vs \o all.vs)
  IN  CASE cs.err # "" \/ isclosecap(c) -> [cs EXCEPT !.cap = @ + 1]
        [] cs.err = "" /\ ~isclosecap(c) /\ c.kind # "Cfunction" ->
             Error(cs, "invalid (non function) capture to accumulate")
        [] OTHER -> Accumulated(caps, [all EXCEPT !.vs = IF new = <<>> THEN <<Nil>> ELSE <<new[1]>>])
accumcap(caps, cs) ==
  LET first == pushcapture(caps, [cs EXCEPT !.cap = @ + 1, !.vs = <<>>])
      none  == isfullcap(caps[cs.cap]) \/ isclosecap(caps[cs.cap + 1])
  IN  CASE none -> Error(cs, "no initial value for accumulator capture")
        [] ~none /\ first.err # "" -> first
        [] ~none /\ first.err = "" ->
             IF Len(first.vs) # 1 THEN Error(cs, "no initial value for accumulator capture")
             ELSE Accumulated(caps, first)

\* cs.vs: the texts of the capture and of the ones in it.
getstrcaps(caps, cs, open) ==
  LET c == caps[cs.cap]
  IN  CASE cs.err # "" -> cs
        [] cs.err = "" /\ open # <<>> /\ isclosecap(c) ->
             IF Len(open) = 1
             THEN [cs EXCEPT !.cap = @ + 1, !.vs[Last(open)] = TextOf(cs.s, @, closeaddr(c))]
             ELSE getstrcaps(caps, [cs EXCEPT !.cap = @ + 1, !.vs[Last(open)] = TextOf(cs.s, @, closeaddr(c))],
                             Front(open))
        [] cs.err = "" /\ open # <<>> /\ ~isclosecap(c) /\ c.kind # "Csimple" ->
             Error(cs, "invalid capture in replacement pattern")
        [] OTHER ->
             IF isfullcap(c)
             THEN LET next == [cs EXCEPT !.cap = @ + 1, !.vs = Append(@, TextOf(cs.s, c.s, closeaddr(c)))]
                  IN  IF open = <<>> THEN next ELSE getstrcaps(caps, next, open)
             ELSE getstrcaps(caps, [cs EXCEPT !.cap = @ + 1, !.vs = Append(@, c.s)],
                             Append(open, Len(cs.vs) + 1))

stringcap(caps, cs) ==
  LET at     == updatecache(cs, caps[cs.cap].idx)
      parts  == getstrcaps(caps, [at EXCEPT !.vs = <<>>], <<>>)
      format == at.cache[2]
      Piece(q) == IF q[1] = "chr" THEN <<q[2]>> ELSE parts.vs[q[2] + 1][2]
  IN  IF parts.err # "" THEN parts
      ELSE IF \E i \in DOMAIN format : format[i][1] = "cap" /\ format[i][2] >= Len(parts.vs)
      THEN Error(parts, "invalid capture index")
      ELSE [parts EXCEPT !.vs = <<<<"str", FlattenSeq([i \in DOMAIN format |-> Piece(format[i])])>>>>]

\* The text so far and the place curr from where the subject is copied.
Substituted(caps, cs, curr) ==
  LET next == caps[cs.cap].s
      text == cs.vs[1][2] \o TextOf(cs.s, curr, next)[2]
      in   == IF caps[cs.cap].kind = "Cstring" THEN stringcap(caps, cs)
              ELSE pushcapture(caps, [cs EXCEPT !.vs = <<>>])
      With(t) == [in EXCEPT !.vs = <<<<"str", t>>>>]
  IN  CASE cs.err # "" -> cs
        [] cs.err = "" /\ isclosecap(caps[cs.cap]) -> [cs EXCEPT !.cap = @ + 1, !.vs = <<<<"str", text>>>>]
        [] OTHER ->
             IF in.err # "" THEN in
             ELSE IF in.vs = <<>> THEN Substituted(caps, With(text), next)
             ELSE IF ~isstring(in.vs[1]) THEN Error(in, "invalid replacement value")
             ELSE Substituted(caps, With(text \o ToText(in.vs[1])), closeaddr(caps[in.cap - 1]))
substcap(caps, cs) ==
  LET c == caps[cs.cap]
  IN  IF isfullcap(c) THEN [cs EXCEPT !.cap = @ + 1, !.vs = <<TextOf(cs.s, c.s, closeaddr(c))>>]
      ELSE Substituted(caps, [cs EXCEPT !.cap = @ + 1, !.vs = <<<<"str", <<>>>>>>], c.s)

pushcapture(caps, cs) ==
  LET c == caps[cs.cap]
      One(v) == [cs EXCEPT !.cap = @ + 1, !.vs = <<v>>]
      r == CASE c.kind = "Cposition" -> One(<<"num", c.s>>)
             [] c.kind = "Cconst"    -> One(pushluaval(cs, c.idx))
             [] c.kind = "Csimple"   ->
                  IF isfullcap(c) THEN One(TextOf(cs.s, c.s, closeaddr(c))) ELSE simplecap(caps, cs)
             [] c.kind = "Cstring"   -> stringcap(caps, cs)
             [] c.kind = "Csubst"    -> substcap(caps, cs)
             [] c.kind = "Ctable"    -> tablecap(caps, cs)
             [] c.kind = "Cfunction" -> functioncap(caps, cs)
             [] c.kind = "Cquery"    -> querycap(caps, cs)
             [] c.kind = "Caccum"    -> accumcap(caps, cs)
  IN  [r EXCEPT !.vs = cs.vs \o @]

getcaptures(sub, env, caps, end) ==
  LET all == PushNested(caps, [cap |-> 1, cache |-> Nil, vs |-> <<>>, err |-> "", s |-> sub, ktable |-> env])
  IN  IF all.err # "" THEN Refused(all.err)
      ELSE Values(IF all.vs = <<>> THEN <<<<"num", end>>>> ELSE all.vs)
=============================================================================
