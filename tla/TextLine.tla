------------------------------ MODULE TextLine ------------------------------
(***************************************************************************)
(* The line that h2t and j2t gather their output in: h2t.c and j2t.c have  *)
(* the same functions for it.  A line that is full is wrapped at its last  *)
(* space; a word that fills the line alone is broken.  The bytes of a      *)
(* character are stored together after one test, bytes outside of any      *)
(* character without one, so that the line may grow beyond MAX_LINE.       *)
(*                                                                         *)
(* A byte has the number under which it came; bytes of one whole character *)
(* share the number of the first.  The scanner of h2t and the parser of    *)
(* j2t are represented by the calls they make, in any order.               *)
(***************************************************************************)
EXTENDS Integers, Sequences

CONSTANTS
  MAX_LINE,  \* the length from which a line is wrapped
  LINE_CAP,  \* the size of the buffer, which keeps one byte for a NUL
  MaxLevel,  \* the deepest level indented, MAX_DEPTH in j2t.c
  MaxBytes   \* bound on the bytes of a behaviour

ASSUME SizesAssumption ==
  /\ MAX_LINE \in Nat /\ LINE_CAP \in Nat /\ MaxLevel \in Nat /\ MaxBytes \in Nat
  /\ 4 <= MAX_LINE /\ MAX_LINE + 4 < LINE_CAP

VARIABLES
  line,      \* line[0 .. line_len - 1]
  out,       \* history: the lines printed
  truncated, \* a byte was dropped
  eof,       \* the input ended inside a character
  count,     \* history: how many bytes came
  given,     \* history: those of them that are not spaces
  stray      \* history: one of them was stored without a test

vars == <<line, out, truncated, eof, count, given, stray>>

Byte == [k : Nat, sp : BOOLEAN, ch : Nat]

-----------------------------------------------------------------------------
Smaller(a, b) == IF a < b THEN a ELSE b
BytesOf(s) == {s[i] : i \in DOMAIN s}
Spaces(s) == {i \in DOMAIN s : s[i].sp}

Room(l) == LINE_CAP - 1 - Len(l)

(* Mutant of Put: the test of the capacity leaves no byte for the NUL.     *)
PutNoNul(l, xs) == l \o SubSeq(xs, 1, Smaller(Len(xs), Room(l) + 1))

(* append_byte_nc for each byte of xs.                                     *)
Put(l, xs) == l \o SubSeq(xs, 1, Smaller(Len(xs), Room(l)))

(* Mutant of LastSpace: only in the second half of the line.               *)
LastSpaceHalf(l) ==
  LET found == {i \in Spaces(l) : 2 * i > Len(l)}
  IN IF found = {} THEN 0 ELSE CHOOSE i \in found : \A j \in found : j <= i

(* The position of the last space, 0 if there is none.                     *)
LastSpace(l) ==
  IF Spaces(l) = {} THEN 0
  ELSE CHOOSE i \in Spaces(l) : \A j \in Spaces(l) : j <= i

(* The length of l without the spaces at its end.                          *)
Trimmed(l) ==
  CHOOSE n \in 0 .. Len(l) : /\ \A i \in n + 1 .. Len(l) : l[i].sp
                             /\ n = 0 \/ ~l[n].sp

(* wrap_line: what is printed, and what stays.                             *)
Cut(l) ==
  IF LastSpace(l) = 0 THEN l
  ELSE SubSeq(l, 1, Trimmed(SubSeq(l, 1, LastSpace(l))))

(* Mutant of Rest: one byte more than the space is skipped.                *)
RestShort(l) ==
  IF LastSpace(l) = 0 THEN <<>> ELSE SubSeq(l, LastSpace(l) + 2, Len(l))

Rest(l) ==
  IF LastSpace(l) = 0 THEN <<>> ELSE SubSeq(l, LastSpace(l) + 1, Len(l))

-----------------------------------------------------------------------------
Came(xs) ==
  /\ count' = count + Len(xs) /\ count' <= MaxBytes
  /\ given' = given \cup {x \in BytesOf(xs) : ~x.sp}

(* Store the bytes xs, after wrap_line if the line is full.                *)
Store(full, xs) ==
  LET l == IF full THEN Rest(line) ELSE line IN
  /\ ~eof
  /\ out' = IF full THEN Append(out, Cut(line)) ELSE out
  /\ line' = Put(l, xs)
  /\ truncated' = (truncated \/ Len(xs) > Room(l))
  /\ Came(xs)

One(isSpace) == <<[k |-> count + 1, sp |-> isSpace, ch |-> 0]>>

(* append_byte.                                                            *)
AppendByte(isSpace) ==
  /\ Store(Len(line) >= MAX_LINE, One(isSpace))
  /\ UNCHANGED <<eof, stray>>

(* append_space: spaces are folded.                                        *)
AppendSpace ==
  /\ line # <<>> /\ ~line[Len(line)].sp
  /\ AppendByte(TRUE)

(* A first byte that announces n bytes, and the got - 1 bytes read after   *)
(* it, whatever they are; blank says which of them are spaces.             *)
CharBytes(got, n, blank) ==
  [i \in 1 .. got |->
     [k |-> count + i, sp |-> i \in blank,
      ch |-> IF blank = {} /\ got = n THEN count + 1 ELSE 0]]

(* Mutant of AppendChar: the test comes after the first byte.              *)
AppendCharLate(n, got, blank) ==
  LET xs   == CharBytes(got, n, blank)
      full == Len(line) + n > MAX_LINE
      l    == Put(line, <<xs[1]>>)
  IN
  /\ ~eof
  /\ out' = IF full THEN Append(out, Cut(l)) ELSE out
  /\ line' = Put(IF full THEN Rest(l) ELSE l, Tail(xs))
  /\ Came(xs)
  /\ eof' = (got < n) /\ UNCHANGED <<stray, truncated>>

(* Mutant of AppendChar: without the test.                                 *)
AppendCharUntested(n, got, blank) ==
  /\ Store(FALSE, CharBytes(got, n, blank))
  /\ eof' = (got < n) /\ UNCHANGED stray

(* append_text_byte on a first byte, append_utf8, the characters of        *)
(* append_str and of a JSON string.                                        *)
AppendChar(n, got, blank) ==
  /\ Store(Len(line) + n > MAX_LINE, CharBytes(got, n, blank))
  /\ eof' = (got < n)
  /\ UNCHANGED stray

(* append_text_byte on a byte that does not begin a character.             *)
AppendStray ==
  /\ Store(FALSE, One(FALSE))
  /\ stray' = TRUE
  /\ UNCHANGED eof

(* What flush_line prints.                                                 *)
Flushed(l) == IF Trimmed(l) = 0 THEN <<>> ELSE <<SubSeq(l, 1, Trimmed(l))>>

Flush ==
  /\ line # <<>>
  /\ out' = out \o Flushed(line)
  /\ line' = <<>>
  /\ Came(One(TRUE))
  /\ UNCHANGED <<truncated, eof, stray>>

(* output_indent of j2t.                                                   *)
OutputIndent(depth) ==
  LET n == Smaller(2 * depth, MAX_LINE \div 2)
      indent == [i \in 1 .. n |-> [k |-> count + i, sp |-> TRUE, ch |-> 0]]
  IN
  /\ ~eof
  /\ out' = out \o Flushed(line)
  /\ line' = Put(<<>>, indent)
  /\ Came(indent)
  /\ UNCHANGED <<truncated, eof, stray>>

-----------------------------------------------------------------------------
Init ==
  /\ line = <<>> /\ out = <<>>
  /\ truncated = FALSE /\ eof = FALSE /\ stray = FALSE
  /\ count = 0 /\ given = {}

Next ==
  \/ \E isSpace \in BOOLEAN : AppendByte(isSpace)
  \/ AppendSpace
  \/ \E n \in 2 .. 4 : \E got \in 1 .. n : \E blank \in SUBSET (2 .. got) :
       AppendChar(n, got, blank)
  \/ AppendStray
  \/ Flush
  \/ \E depth \in 1 .. MaxLevel : OutputIndent(depth)

Spec == Init /\ [][Next]_vars

-----------------------------------------------------------------------------
TypeOK ==
  /\ line \in Seq(Byte) /\ Len(line) < LINE_CAP
  /\ out \in Seq(Seq(Byte))
  /\ truncated \in BOOLEAN /\ eof \in BOOLEAN /\ stray \in BOOLEAN
  /\ count \in Nat
  /\ given \subseteq Byte

(* The lines on the screen, and the one to come.                           *)
Lines == Append(out, line)

(* Whatever is wrapped, flushed or indented, every byte that is not a      *)
(* space is printed or still in the line, unless the program says that its *)
(* output was truncated.                                                   *)
NothingLost ==
  ~truncated =>
    \A b \in given : \E i \in 1 .. Len(Lines) : b \in BytesOf(Lines[i])

(* Bytes keep the order in which they came, over all lines, and none       *)
(* occurs twice.                                                           *)
InOrder ==
  \A i, j \in 1 .. Len(Lines) :
    \A x \in 1 .. Len(Lines[i]), y \in 1 .. Len(Lines[j]) :
      (i < j \/ (i = j /\ x < y)) => Lines[i][x].k < Lines[j][y].k

(* What the line buffer is given is what is printed.                       *)
PrintsItsInput == NothingLost /\ InOrder

(* Characters are stored whole so that wrapping cannot break one           *)
(* (h2t.c:141): the bytes of a character are all on one line, even where   *)
(* the line was full.                                                      *)
CharsWhole ==
  \A i, j \in 1 .. Len(Lines) : i # j =>
    \A b \in BytesOf(Lines[i]), c \in BytesOf(Lines[j]) : b.ch = c.ch => b.ch = 0

(* Lines are wrapped between words (h2t.c:7): two bytes of a word that     *)
(* came one after the other are on different lines only if the first line  *)
(* has no space, and the next character would not have fitted.             *)
WordsWhole ==
  \A i \in 1 .. Len(out) :
    LET a == out[i]
        b == Lines[i + 1]
    IN (/\ a # <<>> /\ b # <<>>
        /\ ~a[Len(a)].sp /\ ~b[1].sp /\ b[1].k = a[Len(a)].k + 1)
       => Spaces(a) = {} /\ Len(a) > MAX_LINE - 4

(* As long as every byte belongs to a character, a line outgrows MAX_LINE  *)
(* by three bytes at most, and nothing is ever dropped.                    *)
LinesFit ==
  ~stray => /\ \A i \in 1 .. Len(Lines) : Len(Lines[i]) <= MAX_LINE + 3
            /\ ~truncated
==============================================================================
