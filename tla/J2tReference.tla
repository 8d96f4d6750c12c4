---------------------------- MODULE J2tReference ----------------------------
(***************************************************************************)
(* The grammar of JSON by recursion, with which the one of J2t is          *)
(* compared, and the decoding of a string that is the whole document, both *)
(* defined on the whole input and without the parser.                      *)
(***************************************************************************)
EXTENDS J2t

IsMatch(open, close) == open \in Openers /\ close = Closer(open)

\* The containers of w that are open at its end, the inner one first.
Unclosed(w) ==
  FoldLeft(LAMBDA acc, t : IF t \in Openers THEN <<t>> \o acc
                           ELSE IF t \in {"rbrace", "rbracket"} /\ acc # <<>> THEN Tail(acc)
                           ELSE acc,
           <<>>, w)

RECURSIVE IsValue(_), IsList(_, _)
IsValue(w) ==
  \/ Len(w) = 1 /\ w[1] \in Words
  \/ /\ Len(w) >= 2 /\ IsMatch(w[1], Last(w))
     /\ LET inner == Front(Tail(w)) IN inner = <<>> \/ IsList(inner, w[1])

\* Members of a container, separated by commas.
IsList(w, open) ==
  LET IsMember(v) == IF open = "lbracket" THEN IsValue(v)
                     ELSE /\ Len(v) > 2 /\ v[1] = "str" /\ v[2] = "colon"
                          /\ IsValue(SubSeq(v, 3, Len(v)))
  IN  \/ IsMember(w)
      \/ \E i \in 2..(Len(w) - 1) :
           /\ w[i] = "comma" /\ IsMember(SubSeq(w, 1, i - 1))
           /\ IsList(SubSeq(w, i + 1, Len(w)), open)

\* The characters of a string after its quote: decoded, with how it ends and what follows.
RECURSIVE Decoded(_, _)
Decoded(s, l) ==
  LET From(k) == SubSeq(s, k, Len(s))
      IsLow(k) == Len(s) >= k + 2 /\ s[k] = "backslash" /\ s[k + 1] = "u" /\ s[k + 2] = "L"
  IN  CASE s \in {<<>>, <<"backslash">>, <<"backslash", "u">>} ->
             [end |-> "open", line |-> l, rest |-> <<>>]
        [] s[1] = "quote" -> [end |-> "closed", line |-> l, rest |-> Tail(s)]
        [] s[1] # "backslash" -> Decoded(Tail(s), Append(l, s[1]))
        [] s[2] = "n" -> Decoded(From(3), Spaced(l))
        [] s[2] # "u" -> Decoded(From(3), Append(l, s[2]))
        [] s[3] = "B" -> Decoded(From(4), Append(l, "B"))
        [] s[3] = "L" -> Decoded(From(4), l)
        [] s[3] = "H" /\ IsLow(4) -> Decoded(From(7), Append(l, "HL"))
        [] s[3] = "H" /\ ~IsLow(4) -> Decoded(From(4), l)
        [] OTHER -> [end |-> "bad", line |-> l, rest |-> <<>>]

Lexemes(s) == SelectSeq(s, LAMBDA t : t # "blank")

\* s can be continued to JSON: by the shortest end of what is open.
IsViable(s) ==
  LET w == Lexemes(s)
      open == Unclosed(w)
      closers == [i \in DOMAIN open |-> Closer(open[i])]
  IN  \E missing \in {<<>>, <<"0">>, <<"colon", "0">>, <<"str", "colon", "0">>} :
        IsValue(w \o missing \o closers)

\* The grammar of J2t, which has no recursion, is the same one.
ASSUME GrammarsAgree ==
  \A n \in 0..5 : \A s \in [1..n -> Marks \union Words]
        : (Json(s) <=> IsValue(Lexemes(s))) /\ (Begins(s) <=> IsViable(s))

\* It ends a string where the decoding of what follows its quote does, and its characters are
\* the decoded ones.
ASSUME StringsAgree ==
  LET Signs == Chars \union Escapes \union Units
  IN  \A n \in 0..5 : \A t \in [1..n -> Signs] :
        \A s \in {t, <<"backslash", "u", "H">> \o t} :
          LET d == Decoded(s, <<>>)
              q == <<"quote">> \o s
              text == Stripped(d.line)
          IN  /\ IsString(q) <=> d.end = "closed" /\ d.rest = <<>>
              /\ BeginsString(q) <=> d.end # "bad" /\ d.rest = <<>>
              /\ IsString(q) => Speech(q, IF text = <<>> THEN <<>> ELSE <<text>>)
=============================================================================
