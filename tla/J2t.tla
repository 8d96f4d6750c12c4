-------------------------------- MODULE J2t --------------------------------
(***************************************************************************)
(* j2t.c: the streaming JSON printer.  It reads single bytes, some of      *)
(* which it puts back, prints one line for each member of a container and  *)
(* recurses once for each container that is open.                          *)
(*                                                                         *)
(* Input is a sequence of tokens chosen as it is read.  A whole plain      *)
(* string is the token "str", a literal is "true", a maximal run of number *)
(* characters is "0" (the code does not look at its form).  An input that  *)
(* begins with a quote is read character by character instead, to show the *)
(* escapes and what is put back; the four digits of \uXXXX are one token,  *)
(* a high surrogate "H", a low one "L" or another code "B".                *)
(* How a line of more than MAX_LINE bytes is wrapped is in TextLine.       *)
(***************************************************************************)
EXTENDS Naturals, FiniteSets, Sequences, SequencesExt

CONSTANTS MAX_DEPTH,  \* deepest value of depth at which a container is read
          MaxIndent,  \* levels of indentation, MAX_LINE / 4 of the source
          RD_PB,      \* bytes that can be put back
          MaxTokens,  \* bound: tokens of a document
          MaxText     \* bound: characters of a document that is a string

ASSUME J2tAssumption ==
  /\ {MAX_DEPTH, MaxIndent, MaxTokens, MaxText} \subseteq Nat
  /\ RD_PB \in Nat

\* There is room for one escape of six bytes; the source has room for eight.
ASSUME PutBackAssumption == RD_PB >= 6

VARIABLES seen,   \* tokens read from the file, EOF last
          pb,     \* rd_pb: tokens put back, the next one last
          at,     \* where the parser is
          depth,  \* the argument of the parse_value that is due
          stack,  \* the calls of parse_object and parse_array
          page    \* the line being built and the lines printed

parserVars == <<seen, pb, at, depth, stack, page>>

Openers == {"lbrace", "lbracket"}
Words == {"true", "0", "str"}
Marks == Openers \union {"rbrace", "rbracket", "comma", "colon", "blank"}
Units == {"H", "L", "B"}
Chars == {"quote", "backslash", "x"}
Escapes == {"u", "n"}

Closer(t) == IF t = "lbrace" THEN "rbrace" ELSE "rbracket"

ParserInit ==
  /\ seen = <<>> /\ pb = <<>> /\ stack = <<>>
  /\ at = "value" /\ depth = 0
  /\ page = [line |-> <<>>, out |-> <<>>]

-----------------------------------------------------------------------------
(* One byte of input, and bytes put back *)

AtEnd == seen # <<>> /\ Last(seen) = "EOF"
IsText == seen # <<>> /\ seen[1] = "quote"

\* What the file may hold next; two numbers are never side by side.
Offered ==
  {"EOF"} \union
    IF IsText
    THEN IF Len(seen) >= MaxText THEN {}
         ELSE CASE at \in {"unit", "low"}     -> Units \union {"x"}
                [] at \in {"escape", "pairu"} -> Chars \union Escapes
                [] OTHER                      -> Chars
    ELSE IF Len(seen) >= MaxTokens THEN {}
         ELSE (Marks \union Words \union {t \in {"quote"} : seen = <<>>})
                \ {t \in {"0"} : seen # <<>> /\ Last(seen) = "0"}

\* fgetc in rd_get.  What it returned is kept in pb until the step that asked for it.
Fetch ==
  /\ at \notin {"ok", "error"} /\ pb = <<>> /\ ~AtEnd
  /\ \E t \in Offered :
       /\ seen' = Append(seen, t)
       /\ pb' = IF t = "EOF" THEN <<>> ELSE <<t>>
  /\ UNCHANGED <<at, depth, stack, page>>

Ready == pb # <<>> \/ AtEnd
Peek == IF pb = <<>> THEN "EOF" ELSE Last(pb)
Get == IF pb = <<>> THEN pb ELSE Front(pb)

\* The bytes of what is put back.
Held(p) == Len(p) + 3 * Cardinality({i \in DOMAIN p : p[i] \in Units})

\* rd_unget: a byte that does not fit is dropped.
Unget(p, t) == IF Held(Append(p, t)) <= RD_PB THEN Append(p, t) ELSE p

-----------------------------------------------------------------------------
(* The line *)

Blanks(n) == [i \in 1..n |-> "blank"]

Stripped(l) == SubSeq(l, 1, Max({0} \union {i \in DOMAIN l : l[i] # "blank"}))

FlushedPage(p) ==
  LET l == Stripped(p.line)
  IN  [line |-> <<>>, out |-> IF l = <<>> THEN p.out ELSE Append(p.out, l)]

Written(p, s) == [p EXCEPT !.line = @ \o s]

Spaced(l) == IF l # <<>> /\ Last(l) # "blank" THEN Append(l, "blank") ELSE l

Margin(d) == Blanks(2 * IF d < MaxIndent THEN d ELSE MaxIndent)

Indented(p, d) == Written(IF p.line = <<>> THEN p ELSE FlushedPage(p), Margin(d))

-----------------------------------------------------------------------------
(* The parser: each step looks at one token *)

Looks(where) == Ready /\ at = where
Take == pb' = Get
Keep == pb' = pb
Top == Last(stack)

Fail == at' = "error" /\ Keep /\ UNCHANGED <<seen, depth, stack, page>>

\* A value is complete: back in the container s, or in main.
ValueEnds(s, p) ==
  /\ stack' = s
  /\ at' = IF s = <<>> THEN "end" ELSE "next"
  /\ page' = IF s # <<>> /\ Last(s).flush THEN FlushedPage(p) ELSE p
  /\ UNCHANGED <<seen, depth>>

SkipBlank ==
  /\ Ready /\ Peek = "blank"
  /\ at \in {"value", "first", "key", "colon", "keyvalue", "next", "end"}
  /\ Take /\ UNCHANGED <<seen, at, depth, stack, page>>

\* Mutant of OpenAllowed: off by one.
OpenOneMore == depth <= MAX_DEPTH + 1

OpenAllowed == depth <= MAX_DEPTH

Open ==
  /\ Looks("value") /\ Peek \in Openers /\ OpenAllowed
  /\ Take /\ at' = "first"
  /\ stack' = Append(stack, [kind |-> Peek, depth |-> depth, flush |-> FALSE])
  /\ UNCHANGED <<seen, depth, page>>

TooDeep == Looks("value") /\ Peek \in Openers /\ ~OpenAllowed /\ Fail

Scalar ==
  /\ Looks("value") /\ Peek \in {"0", "str"}
  /\ Take /\ ValueEnds(stack, Written(page, <<Peek>>))

\* match_lit, in two steps: the word, then the byte that follows it.
Literal ==
  /\ Looks("value") /\ Peek = "true"
  /\ Take /\ at' = "literal" /\ UNCHANGED <<seen, depth, stack, page>>

LiteralEnds ==
  /\ Looks("literal")
  /\ IF Peek \in {"true", "0"} THEN Fail
     ELSE Keep /\ ValueEnds(stack, Written(page, <<"true">>))

NoValue ==
  Looks("value") /\ Peek \notin Openers \union Words \union {"blank", "quote"} /\ Fail

MemberStart == IF Top.kind = "lbrace" THEN "key" ELSE "element"

FirstMember ==
  /\ Looks("first") /\ Peek \notin {"blank", Closer(Top.kind)}
  /\ Keep /\ at' = MemberStart /\ UNCHANGED <<seen, depth, stack, page>>

Close ==
  /\ Ready /\ at \in {"first", "next"} /\ Peek = Closer(Top.kind)
  /\ Take /\ ValueEnds(Front(stack), page)

Key ==
  /\ Looks("key") /\ Peek = "str"
  /\ Take /\ at' = "colon"
  /\ page' = Written(Indented(page, Top.depth), <<"str">>)
  /\ UNCHANGED <<seen, depth, stack>>

Colon ==
  /\ Looks("colon") /\ Peek = "colon"
  /\ Take /\ at' = "keyvalue" /\ UNCHANGED <<seen, depth, stack, page>>

NoMember == \/ Looks("key") /\ Peek \notin {"blank", "str"} /\ Fail
            \/ Looks("colon") /\ Peek \notin {"blank", "colon"} /\ Fail

\* Mutant of StartMember: a container is no level deeper.
StartMemberFlat(p) ==
  LET container == Peek \in Openers
  IN  /\ page' = IF container THEN FlushedPage(p) ELSE p
      /\ depth' = Top.depth
      /\ stack' = [stack EXCEPT ![Len(stack)].flush = ~container]
      /\ at' = "value" /\ Keep /\ UNCHANGED seen

\* The line of a member has its head; a container starts on the next line, one level deeper.
StartMember(p) ==
  LET container == Peek \in Openers
  IN  /\ page' = IF container THEN FlushedPage(p) ELSE p
      /\ depth' = IF container THEN Top.depth + 1 ELSE Top.depth
      /\ stack' = [stack EXCEPT ![Len(stack)].flush = ~container]
      /\ at' = "value" /\ Keep /\ UNCHANGED seen

KeyValue ==
  Looks("keyvalue") /\ Peek # "blank" /\ StartMember(Written(page, <<"colon", "blank">>))

\* A blank before the element is not skipped, so what follows it is not seen.
Element ==
  Looks("element") /\ StartMember(Written(Indented(page, Top.depth), <<"-", "blank">>))

\* Mutant of Comma: the end of the container may follow.
CommaThenClose ==
  /\ Looks("next") /\ Peek = "comma"
  /\ Take /\ at' = "first" /\ UNCHANGED <<seen, depth, stack, page>>

Comma ==
  /\ Looks("next") /\ Peek = "comma"
  /\ Take /\ at' = MemberStart /\ UNCHANGED <<seen, depth, stack, page>>

NoComma == Looks("next") /\ Peek \notin {"blank", "comma", Closer(Top.kind)} /\ Fail

End ==
  /\ Looks("end") /\ Peek = "EOF"
  /\ Keep /\ at' = "ok" /\ page' = FlushedPage(page)
  /\ UNCHANGED <<seen, depth, stack>>

Trailing == Looks("end") /\ Peek \notin {"EOF", "blank"} /\ Fail

-----------------------------------------------------------------------------
(* A string, character by character: emit_json_string, parse_unicode_escape *)

Goes(where, p) == at' = where /\ page' = p /\ UNCHANGED <<seen, depth, stack>>

OpenString == Looks("value") /\ Peek = "quote" /\ Take /\ Goes("text", page)

Text ==
  /\ Looks("text") /\ Peek \notin {"quote", "EOF"}
  /\ Take
  /\ IF Peek = "backslash" THEN Goes("escape", page) ELSE Goes("text", Written(page, <<Peek>>))

CloseString == Looks("text") /\ Peek = "quote" /\ Take /\ ValueEnds(stack, page)

\* A line end becomes a blank, any other escaped character stands for itself.
Escape ==
  /\ Looks("escape") /\ Peek # "EOF"
  /\ Take
  /\ CASE Peek = "u" -> Goes("unit", page)
       [] Peek = "n" -> Goes("text", [page EXCEPT !.line = Spaced(@)])
       [] OTHER      -> Goes("text", Written(page, <<Peek>>))

\* A lone low surrogate is dropped.
Unit ==
  /\ Looks("unit") /\ Peek \in Units
  /\ Take
  /\ CASE Peek = "H" -> Goes("pair", page)
       [] Peek = "L" -> Goes("text", page)
       [] Peek = "B" -> Goes("text", Written(page, <<"B">>))

\* After a high surrogate: a backslash, then a u, else the surrogate is dropped.
Pair ==
  /\ Looks("pair")
  /\ IF Peek = "backslash" THEN Take /\ Goes("pairu", page) ELSE Keep /\ Goes("text", page)

PairU ==
  /\ Looks("pairu")
  /\ IF Peek = "u" THEN Take /\ Goes("low", page)
     ELSE pb' = Unget(pb, "backslash") /\ Goes("text", page)

\* Mutant of UnreadEscape: without the backslash.
UnreadDigits(u) == Unget(Unget(Get, u), "u")

UnreadEscape(u) == Unget(Unget(Unget(Get, u), "u"), "backslash")

\* A unit that is no low surrogate is put back, last byte first.
Low ==
  /\ Looks("low") /\ Peek \in Units
  /\ IF Peek = "L" THEN Take /\ Goes("text", Written(page, <<"HL">>))
     ELSE pb' = UnreadEscape(Peek) /\ Goes("text", page)

BadString ==
  \/ Ready /\ at \in {"text", "escape"} /\ Peek = "EOF" /\ Fail
  \/ Ready /\ at \in {"unit", "low"} /\ Peek \notin Units /\ Fail

Parse ==
  \/ SkipBlank \/ Open \/ TooDeep \/ Scalar \/ Literal \/ LiteralEnds \/ NoValue
  \/ FirstMember \/ Close \/ Key \/ Colon \/ NoMember \/ KeyValue \/ Element
  \/ Comma \/ NoComma \/ End \/ Trailing

Decode ==
  OpenString \/ Text \/ CloseString \/ Escape \/ Unit \/ Pair \/ PairU \/ Low \/ BadString

Stopped == at \in {"ok", "error"} /\ UNCHANGED parserVars

ParserNext == Fetch \/ Parse \/ Decode \/ Stopped

ParserSpec == ParserInit /\ [][ParserNext]_parserVars

-----------------------------------------------------------------------------
(* What JSON is, told by the pairs of brackets and by what each token may  *)
(* come after.                                                             *)

Input == IF AtEnd THEN Front(seen) ELSE seen

Closers == {"rbrace", "rbracket"}
Filled(s) == {i \in DOMAIN s : s[i] # "blank"}
Openings(s) == {i \in DOMAIN s : s[i] \in Openers}
Closings(s) == {i \in DOMAIN s : s[i] \in Closers}

\* h is the last place before i that is not blank.
Follows(s, h, i) ==
  h \in 1..(i - 1) /\ s[h] # "blank" /\ \A k \in (h + 1)..(i - 1) : s[k] = "blank"

\* The containers around place i, where close is the place at which one is closed, if it is.
Around(s, close, i) ==
  {j \in Openings(s) : j < i /\ (j \in DOMAIN close => i < close[j])}

\* The innermost one begins with t.
Within(s, close, i, t) ==
  \E j \in Around(s, close, i) : s[j] = t /\ \A l \in Around(s, close, i) : l <= j

\* A string at the head of a member of an object.
IsKey(s, close, i) ==
  /\ s[i] = "str" /\ Within(s, close, i, "lbrace")
  /\ \E h \in 1..(i - 1) : Follows(s, h, i) /\ s[h] \in {"lbrace", "comma"}

EndsValue(s, close, i) == s[i] \in Closers \/ (s[i] \in Words /\ ~IsKey(s, close, i))

\* The token at i may come after the one at h.
MayFollow(s, close, h, i) ==
  \/ /\ s[i] \in Openers \union Words
     /\ \/ Within(s, close, i, "lbracket") /\ s[h] \in {"lbracket", "comma"}
        \/ Within(s, close, i, "lbrace") /\ s[h] = "colon"
  \/ s[i] = "str" /\ Within(s, close, i, "lbrace") /\ s[h] \in {"lbrace", "comma"}
  \/ s[i] = "colon" /\ IsKey(s, close, h)
  \/ s[i] = "comma" /\ Around(s, close, i) # {} /\ EndsValue(s, close, h)
  \/ s[i] \in Closers /\ ((h \in DOMAIN close /\ close[h] = i) \/ EndsValue(s, close, h))

InPlace(s, close, i) ==
  \/ s[i] \in Openers \union Words /\ \A k \in 1..(i - 1) : s[k] = "blank"
  \/ \E h \in 1..(i - 1) : Follows(s, h, i) /\ MayFollow(s, close, h, i)

\* Brackets come in pairs of a kind, each closing one in a pair, and pairs do not cross.
Paired(s, close) ==
  /\ \A j \in DOMAIN close : j < close[j] /\ s[close[j]] = Closer(s[j])
  /\ \A i \in Closings(s) : \E j \in DOMAIN close : close[j] = i
  /\ \A j \in DOMAIN close, l \in Openings(s) :
       j < l /\ l < close[j] => l \in DOMAIN close /\ close[l] < close[j]

Grammatical(s, close) == Paired(s, close) /\ \A i \in Filled(s) : InPlace(s, close, i)

\* One value, and nothing else.
Json(s) == Filled(s) # {} /\ \E close \in [Openings(s) -> Closings(s)] : Grammatical(s, close)

\* What JSON can begin with: some containers may be open.
Begins(s) ==
  \E inner \in SUBSET Openings(s) : \E close \in [inner -> Closings(s)] : Grammatical(s, close)

NestedTooDeep(s) ==
  Cardinality(Openings(s)) > Cardinality(Closings(s)) + MAX_DEPTH + 1

-----------------------------------------------------------------------------
(* What a string is: a document that begins with a quote.  Where it ends   *)
(* is told by backslashes.  As in the code, any character may be escaped.  *)

\* An odd number of backslashes is before place i.
Escaped(s, i) ==
  \E h \in 1..(i - 1) :
    /\ s[h] # "backslash" /\ \A k \in (h + 1)..(i - 1) : s[k] = "backslash"
    /\ (i - h) % 2 = 0

\* Where the string ends, after the quote that begins it.
Endings(s) == {i \in 2..Len(s) : s[i] = "quote" /\ ~Escaped(s, i)}

\* A u that is escaped has its digits.
HasDigits(s) ==
  \A i \in 1..(Len(s) - 1) : s[i] = "u" /\ Escaped(s, i) => s[i + 1] \in Units

IsString(s) == Endings(s) = {Len(s)} /\ HasDigits(s)
BeginsString(s) == Endings(s) \subseteq {Len(s)} /\ HasDigits(s)

\* A document that begins with a quote is a string, any other one is a value in tokens.
IsQuoted(s) == s # <<>> /\ s[1] = "quote"
Valid(s) == IF IsQuoted(s) THEN IsString(s) ELSE Json(s)
Viable(s) == IF IsQuoted(s) THEN BeginsString(s) ELSE Begins(s)

\* What the parser accepts is one JSON value, and all of the input.  It stops with an error
\* only at input that no continuation makes JSON, or that is nested too deep, whatever had to
\* be put back on the way (parse_value and the functions it calls, rd_unget, main).
DecidesInput ==
  /\ at = "ok" => Valid(Input)
  /\ at = "error" => \/ NestedTooDeep(Input)
                     \/ IF AtEnd THEN ~Valid(Input) ELSE ~Viable(Input)

-----------------------------------------------------------------------------
(* How deep the recursion goes *)

\* Before place i of s there are blanks, and a comma before them.
AfterCommaAndBlank(s, i) ==
  \E j \in 1..(i - 2) : s[j] = "comma" /\ \A k \in (j + 1)..(i - 1) : s[k] = "blank"

\* Elements that are containers and come after a comma and a blank.
Slips(s) == {i \in DOMAIN s : s[i] \in Openers /\ AfterCommaAndBlank(s, i)}
Slipped(s) == Cardinality(Slips(s))

\* The recursion is bounded by the limit on depth, but for one more level for each container
\* after a comma and a blank, which is read at the depth of its array (parse_array).
NestingBounded ==
  Len(stack) <= MAX_DEPTH + 1 + Slipped(Input)

-----------------------------------------------------------------------------
(* What is printed of a value: a line for each member of a container       *)

\* A member begins after the bracket of its container or after a comma.
Heads(s) ==
  {i \in Filled(s) : /\ s[i] \notin Closers
                     /\ \E h \in 1..(i - 1) : Follows(s, h, i)
                                             /\ s[h] \in Openers \union {"comma"}}

\* The containers that are open at place i.
Level(s, i) ==
  Cardinality({j \in Openings(s) : j < i}) - Cardinality({j \in Closings(s) : j < i})

\* On its line, a value that is a container leaves nothing.
Said(t) == IF t \in Words THEN <<"blank", t>> ELSE <<>>

\* The line of the member that begins at i: with a key if a colon follows.
IsLineOf(s, i, l) ==
  \/ /\ \A c \in Filled(s) : Follows(s, i, c) => s[c] # "colon"
     /\ l = Margin(Level(s, i) - 1) \o <<"-">> \o Said(s[i])
  \/ \E c, v \in Filled(s) :
       /\ Follows(s, i, c) /\ s[c] = "colon" /\ Follows(s, c, v)
       /\ l = Margin(Level(s, i) - 1) \o <<"str", "colon">> \o Said(s[v])

\* The lines of the members in turn; of a value without members, the value.
Layout(s, lines) ==
  IF Openings(s) = {}
  THEN \E i \in Filled(s) : lines = <<<<s[i]>>>>
  ELSE \E f \in [DOMAIN lines -> Heads(s)] :
         /\ \A i \in Heads(s) : \E k \in DOMAIN lines : f[k] = i
         /\ \A k, l \in DOMAIN lines : k < l => f[k] < f[l]
         /\ \A k \in DOMAIN lines : IsLineOf(s, f[k], lines[k])

\* What is printed of a value is a line for each member, in order, indented by the containers
\* around it, with its key or a dash, and with its value but for a container (output_indent,
\* flush_line, parse_object, parse_array).  It is not so after a comma, a blank and a
\* container: that one keeps the depth of its array.
PrintsTheMembers ==
  at = "ok" /\ ~IsText /\ Slipped(Input) = 0 => Layout(Input, page.out)

-----------------------------------------------------------------------------
(* What is printed of a string: its characters                             *)

IsUnit(s, i) == s[i] = "u" /\ Escaped(s, i)
IsLineEnd(s, i) == s[i] = "n" /\ Escaped(s, i)

\* A low surrogate follows the high one of the escape at i.
Joined(s, i) ==
  i + 4 <= Len(s) /\ s[i + 2] = "backslash" /\ s[i + 3] = "u" /\ s[i + 4] = "L"

\* Where there is a character that is no line end: one that stands for itself, digits apart,
\* or an escape that is no surrogate or the first of a pair.
Solid(s) ==
  {i \in 2..Len(s) :
     \/ ~Escaped(s, i) /\ s[i] \notin {"quote", "backslash"} /\ ~IsUnit(s, i - 1)
     \/ Escaped(s, i) /\ s[i] \notin {"u", "n"}
     \/ IsUnit(s, i) /\ i < Len(s) /\ (s[i + 1] = "B" \/ (s[i + 1] = "H" /\ Joined(s, i)))}

\* Up to place i, a character came after the last line end.
Hanging(s, i) ==
  \E h \in Solid(s) : h <= i /\ \A k \in (h + 1)..i : ~IsLineEnd(s, k)

Gaps(s) == {i \in 2..Len(s) : IsLineEnd(s, i) /\ Hanging(s, i - 1)}

\* Line ends between two characters are one blank, others are not printed.
Spoken(s) == Solid(s) \union {i \in Gaps(s) : \E h \in Solid(s) : i < h}

Sign(s, i) ==
  CASE IsUnit(s, i)    -> IF s[i + 1] = "H" THEN "HL" ELSE "B"
    [] IsLineEnd(s, i) -> "blank"
    [] OTHER           -> s[i]

\* l has the characters at the places P, in order.
Spells(s, P, l) ==
  /\ Len(l) = Cardinality(P)
  /\ \A i \in P : l[Cardinality({j \in P : j <= i})] = Sign(s, i)

Speech(s, lines) ==
  IF Spoken(s) = {} THEN lines = <<>>
                    ELSE Len(lines) = 1 /\ Spells(s, Spoken(s), lines[1])

\* What is printed of a string are its characters, with escapes decoded, pairs of surrogates
\* joined and lone ones dropped, whatever had to be put back on the way (emit_json_string,
\* parse_unicode_escape, rd_unget, flush_line).
PrintsTheString == at = "ok" /\ IsText => Speech(Input, page.out)
=============================================================================
