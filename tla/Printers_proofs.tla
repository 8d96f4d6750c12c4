-------------------------- MODULE Printers_proofs --------------------------
(***************************************************************************)
(* The printers h2t and j2t.  First the line buffer they share, for every  *)
(* size of the line and of its buffer.  Then the parser of j2t, for every  *)
(* limit on depth and documents of any length: what it accepts, and what   *)
(* it prints of that.  No theorem is about both.                           *)
(***************************************************************************)
EXTENDS TextLine, J2t, FiniteSetTheorems, SequenceTheorems, WellFoundedInduction, TLAPS

-----------------------------------------------------------------------------
(* The line buffer                                                         *)

LEMMA Greatest ==
  ASSUME NEW n \in Nat, NEW S \in SUBSET (1 .. n), S # {}
  PROVE  \E i \in S : \A j \in S : j <= i
<1> DEFINE T == {n - i : i \in S}
<1>1. T \subseteq Nat /\ T # {}
  <2>1. \A i \in S : i \in Nat /\ n - i \in Nat
    OBVIOUS
  <2>2. PICK i \in S : TRUE
    OBVIOUS
  <2>3. n - i \in T
    OBVIOUS
  <2> QED BY <2>1, <2>3
<1>2. PICK x \in T : \A y \in T : ~(<<y, x>> \in OpToRel(<, Nat))
  <2> HIDE DEF T
  <2> QED BY <1>1, NatLessThanWellFounded, WFMin
<1>3. \A y \in T : ~(y < x)
  BY <1>1, <1>2 DEF OpToRel
<1>4. PICK i \in S : x = n - i
  OBVIOUS
<1>5. ASSUME NEW j \in S PROVE j <= i
  <2>1. n - j \in T
    OBVIOUS
  <2>2. ~(n - j < x)
    BY <2>1, <1>3
  <2> QED BY <2>2, <1>4
<1> QED BY <1>5

-----------------------------------------------------------------------------
(* What the helpers return.                                                *)

LEMMA LastSpaceIs ==
  ASSUME NEW l \in Seq(Byte), Spaces(l) # {}
  PROVE  LastSpace(l) \in Spaces(l) /\ \A j \in Spaces(l) : j <= LastSpace(l)
<1>1. Len(l) \in Nat /\ Spaces(l) \in SUBSET (1 .. Len(l))
  BY LenProperties DEF Spaces
<1>2. \E i \in Spaces(l) : \A j \in Spaces(l) : j <= i
  BY <1>1, Greatest
<1> QED BY <1>2 DEF LastSpace

LEMMA TrimmedIs ==
  ASSUME NEW l \in Seq(Byte)
  PROVE  /\ Trimmed(l) \in 0 .. Len(l)
         /\ \A i \in Trimmed(l) + 1 .. Len(l) : l[i].sp
         /\ Trimmed(l) = 0 \/ ~l[Trimmed(l)].sp
<1> DEFINE T == {i \in 1 .. Len(l) : ~l[i].sp}
           Ends(n) == /\ \A i \in n + 1 .. Len(l) : l[i].sp
                      /\ n = 0 \/ ~l[n].sp
<1>1. Len(l) \in Nat
  BY LenProperties
<1>2. \E n \in 0 .. Len(l) : Ends(n)
  <2>1. CASE T = {}
    <3>1. Ends(0)
      BY <2>1
    <3> QED BY <1>1, <3>1
  <2>2. CASE T # {}
    <3>1. PICK n \in T : \A j \in T : j <= n
      BY <1>1, <2>2, Greatest
    <3>2. Ends(n)
      BY <1>1, <3>1
    <3>3. n \in 0 .. Len(l)
      BY <1>1
    <3> QED BY <3>2, <3>3
  <2> QED BY <2>1, <2>2
<1>3. Trimmed(l) = CHOOSE n \in 0 .. Len(l) : Ends(n)
  BY DEF Trimmed
<1>4. Trimmed(l) \in 0 .. Len(l) /\ Ends(Trimmed(l))
  <2> HIDE DEF Ends
  <2> QED BY <1>2, <1>3
<1> QED BY <1>4

(* A line is cut at its last space, or not at all.                         *)
LEMMA CutAndRest ==
  ASSUME NEW l \in Seq(Byte)
  PROVE  \E c, r \in 0 .. Len(l) :
           /\ c <= r
           /\ Cut(l) = SubSeq(l, 1, c) /\ Rest(l) = SubSeq(l, r + 1, Len(l))
           /\ \A i \in c + 1 .. r : l[i].sp
           /\ IF Spaces(l) = {} THEN c = Len(l) /\ r = Len(l)
              ELSE c < r /\ r = LastSpace(l) /\ l[r].sp
<1>1. Len(l) \in Nat
  BY LenProperties
<1>2. CASE Spaces(l) = {}
  <2>1. Cut(l) = SubSeq(l, 1, Len(l)) /\ Rest(l) = SubSeq(l, Len(l) + 1, Len(l))
    <3>1. LastSpace(l) = 0
      BY <1>2 DEF LastSpace
    <3>2. SubSeq(l, 1, Len(l)) = l /\ SubSeq(l, Len(l) + 1, Len(l)) = <<>>
      BY <1>1, SubSeqProperties
    <3> QED BY <3>1, <3>2 DEF Cut, Rest
  <2> QED BY <1>1, <1>2, <2>1
<1>3. CASE Spaces(l) # {}
  <2> DEFINE r == LastSpace(l)
             p == SubSeq(l, 1, r)
             c == Trimmed(p)
  <2>1. r \in 1 .. Len(l) /\ l[r].sp
    BY <1>1, <1>3, LastSpaceIs, LenProperties DEF Spaces
  <2>2. p \in Seq(Byte) /\ Len(p) = r /\ \A i \in 1 .. r : p[i] = l[i]
    BY <1>1, <2>1, SubSeqProperties
  <2>3. c \in 0 .. r /\ (\A i \in c + 1 .. r : p[i].sp) /\ (c = 0 \/ ~p[c].sp)
    BY <2>2, TrimmedIs
  <2>4. c < r /\ \A i \in c + 1 .. r : l[i].sp
    BY <2>1, <2>2, <2>3
  <2>5. Cut(l) = SubSeq(l, 1, c) /\ Rest(l) = SubSeq(l, r + 1, Len(l))
    <3>1. LastSpace(l) # 0
      BY <2>1
    <3>2. Cut(l) = SubSeq(l, 1, c)
      BY <3>1, Zenon DEF Cut
    <3>3. Rest(l) = SubSeq(l, r + 1, Len(l))
      BY <3>1, Zenon DEF Rest
    <3> QED BY <3>2, <3>3
  <2>6. r \in 0 .. Len(l) /\ c \in 0 .. Len(l)
    BY <1>1, <2>1, <2>3
  <2>7. r = LastSpace(l) /\ c <= r
    BY <2>1, <2>3
  <2> HIDE DEF c, p, r
  <2> QED BY <1>3, <2>1, <2>4, <2>5, <2>6, <2>7
<1> QED BY <1>2, <1>3

LEMMA PutAdds ==
  ASSUME NEW l \in Seq(Byte), Len(l) < LINE_CAP, NEW xs \in Seq(Byte)
  PROVE  \E X \in Seq(Byte) :
           /\ Put(l, xs) = l \o X
           /\ Len(X) = Smaller(Len(xs), Room(l))
           /\ \A i \in 1 .. Len(X) : X[i] = xs[i]
<1> DEFINE m == Smaller(Len(xs), Room(l))
           X == SubSeq(xs, 1, m)
<1>1. Len(l) \in Nat /\ Len(xs) \in Nat /\ LINE_CAP \in Nat
  BY LenProperties, SizesAssumption
<1>2. m \in 0 .. Len(xs)
  BY <1>1 DEF Smaller, Room
<1>3. X \in Seq(Byte) /\ Len(X) = m /\ \A i \in 1 .. m : X[i] = xs[i]
  BY <1>1, <1>2, SubSeqProperties
<1>4. Put(l, xs) = l \o X
  BY DEF Put
<1> HIDE DEF X, m
<1>5. Len(X) = m /\ \A i \in 1 .. Len(X) : X[i] = xs[i]
  BY <1>3
<1> QED BY <1>3, <1>4, <1>5 DEF m

-----------------------------------------------------------------------------
(* Every operation takes bytes xs, stores of them a prefix X, and keeps the*)
(* line, cuts it, or forgets it.                                           *)

Typed ==
  /\ line \in Seq(Byte) /\ Len(line) < LINE_CAP
  /\ out \in Seq(Seq(Byte))
  /\ count \in Nat /\ given \subseteq Byte

(* The bytes of a whole character, or bytes that belong to none.           *)
Numbered(xs) ==
  /\ xs \in Seq(Byte) /\ Len(xs) > 0
  /\ \A i \in 1 .. Len(xs) : xs[i].k = count + i
  /\ \/ \A i \in 1 .. Len(xs) : xs[i].ch = 0
     \/ \A i \in 1 .. Len(xs) : xs[i].ch = count + 1 /\ ~xs[i].sp

Added(X, xs) ==
  /\ Numbered(xs) /\ Came(xs)
  /\ X \in Seq(Byte) /\ Len(X) <= Len(xs)
  /\ \A i \in 1 .. Len(X) : X[i] = xs[i]
  /\ ~truncated' => ~truncated /\ \A i \in 1 .. Len(xs) : i <= Len(X) \/ xs[i].sp

Stays(X) == out' = out /\ line' = line \o X

Reason(X, c, r) ==
  \/ c < r /\ line[r].sp
  \/ c = Len(line) /\ r = Len(line) /\ Spaces(line) = {} /\ Len(line) > MAX_LINE - 4
  \/ r = Len(line) /\ (X = <<>> \/ X[1].sp)

Breaks(X, c, r) ==
  /\ c <= r /\ \A i \in c + 1 .. r : line[i].sp
  /\ Reason(X, c, r)
  /\ out' = Append(out, SubSeq(line, 1, c))
  /\ line' = SubSeq(line, r + 1, Len(line)) \o X

Clears(X) ==
  /\ \A i \in 1 .. Len(line) : line[i].sp
  /\ X = <<>> \/ X[1].sp
  /\ out' = out /\ line' = X

Step(X, xs) ==
  /\ Added(X, xs)
  /\ Len(line') < LINE_CAP
  /\ Stays(X) \/ (\E c, r \in 0 .. Len(line) : Breaks(X, c, r)) \/ Clears(X)

LEMMA Part ==
  ASSUME NEW l \in Seq(Byte), NEW a \in Nat, NEW b \in Nat,
         1 <= a, a <= b + 1, b <= Len(l)
  PROVE  /\ SubSeq(l, a, b) \in Seq(Byte)
         /\ Len(SubSeq(l, a, b)) = b - a + 1
         /\ \A i \in 1 .. b - a + 1 : SubSeq(l, a, b)[i] = l[a + i - 1]
<1>1. \A i \in a .. b : l[i] \in Byte
  BY ElementOfSeq, LenProperties
<1> QED BY <1>1, SubSeqProperties

LEMMA StoreSteps ==
  ASSUME Typed, NEW full \in BOOLEAN, NEW xs, Numbered(xs), Store(full, xs),
         full => Len(line) > MAX_LINE - 4
  PROVE  \E X : Step(X, xs)
<1> DEFINE l == IF full THEN Rest(line) ELSE line
<1>1. Len(line) \in Nat /\ Len(xs) \in Nat /\ LINE_CAP \in Nat
  BY LenProperties, SizesAssumption DEF Typed, Numbered
<1>2. PICK c \in 0 .. Len(line), r \in 0 .. Len(line) :
           /\ c <= r
           /\ Cut(line) = SubSeq(line, 1, c) /\ Rest(line) = SubSeq(line, r + 1, Len(line))
           /\ \A i \in c + 1 .. r : line[i].sp
           /\ IF Spaces(line) = {} THEN c = Len(line) /\ r = Len(line)
              ELSE c < r /\ r = LastSpace(line) /\ line[r].sp
  BY CutAndRest DEF Typed
<1>3. l \in Seq(Byte) /\ Len(l) < LINE_CAP
  <2>1. Rest(line) \in Seq(Byte) /\ Len(Rest(line)) = Len(line) - r
    BY <1>1, <1>2, Part DEF Typed
  <2> QED BY <1>1, <2>1 DEF Typed
<1>4. line' = Put(l, xs) /\ truncated' = (truncated \/ Len(xs) > Room(l)) /\ Came(xs)
  BY DEF Store
<1>5. out' = IF full THEN Append(out, Cut(line)) ELSE out
  BY DEF Store
<1>6. l = IF full THEN Rest(line) ELSE line
  OBVIOUS
<1> HIDE DEF l
<1>7. PICK X \in Seq(Byte) :
        /\ Put(l, xs) = l \o X
        /\ Len(X) = Smaller(Len(xs), Room(l))
        /\ \A i \in 1 .. Len(X) : X[i] = xs[i]
  BY <1>3, PutAdds DEF Numbered
<1>8. Len(l) \in Nat
  BY <1>3, LenProperties
<1>9. Len(X) <= Len(xs) /\ Len(X) <= Room(l)
      /\ (Len(xs) <= Room(l) => Len(X) = Len(xs))
  BY <1>1, <1>7, <1>8 DEF Smaller, Room
<1>10. Added(X, xs)
  <2>1. ~truncated' => ~truncated /\ ~(Len(xs) > Room(l))
    BY <1>4, Zenon
  <2>2. ~truncated' => ~truncated /\ Len(X) = Len(xs)
    BY <1>1, <1>8, <1>9, <2>1 DEF Room
  <2> QED BY <1>1, <1>4, <1>7, <1>9, <2>2 DEF Added
<1>11. Len(line') < LINE_CAP
  BY <1>1, <1>3, <1>4, <1>7, <1>8, <1>9, ConcatProperties DEF Room
<1>12. CASE full
  <2>1. Reason(X, c, r)
    BY <1>2, <1>12 DEF Reason
  <2>2. Breaks(X, c, r)
    BY <1>2, <1>4, <1>5, <1>6, <1>7, <1>12, <2>1 DEF Breaks
  <2> QED BY <1>10, <1>11, <2>2 DEF Step
<1>13. CASE ~full
  BY <1>4, <1>5, <1>6, <1>7, <1>10, <1>11, <1>13 DEF Step, Stays
<1> QED BY <1>12, <1>13

LEMMA OneIsNumbered ==
  ASSUME Typed, NEW isSpace \in BOOLEAN PROVE Numbered(One(isSpace))
BY DEF One, Numbered, Byte, Typed

LEMMA CharIsNumbered ==
  ASSUME Typed, NEW n \in 2 .. 4, NEW got \in 1 .. n, NEW blank \in SUBSET (2 .. got)
  PROVE  Numbered(CharBytes(got, n, blank)) /\ Len(CharBytes(got, n, blank)) = got
<1> DEFINE byte(i) == [k |-> count + i, sp |-> i \in blank,
                       ch |-> IF blank = {} /\ got = n THEN count + 1 ELSE 0]
           xs == CharBytes(got, n, blank)
<1>1. xs = [i \in 1 .. got |-> byte(i)]
  BY DEF CharBytes
<1>2. \A i \in 1 .. got : byte(i) \in Byte
  BY DEF Typed, Byte
<1>3. \A i \in 1 .. got : byte(i).k = count + i
  OBVIOUS
<1>4. \/ \A i \in 1 .. got : byte(i).ch = 0
      \/ \A i \in 1 .. got : byte(i).ch = count + 1 /\ ~byte(i).sp
  OBVIOUS
<1> HIDE DEF byte, xs
<1>5. xs \in Seq(Byte) /\ Len(xs) = got /\ \A i \in 1 .. got : xs[i] = byte(i)
  BY <1>1, <1>2
<1>6. Numbered(xs)
  BY <1>3, <1>4, <1>5 DEF Numbered
<1> QED BY <1>5, <1>6 DEF xs

LEMMA ByteSteps ==
  ASSUME Typed, NEW isSpace \in BOOLEAN, AppendByte(isSpace)
  PROVE  \E X, xs : Step(X, xs)
<1>1. Len(line) \in Nat
  BY LenProperties DEF Typed
<1> DEFINE full == Len(line) >= MAX_LINE
<1>2. full \in BOOLEAN /\ (full => Len(line) > MAX_LINE - 4)
  BY <1>1, SizesAssumption
<1>3. Store(full, One(isSpace))
  BY DEF AppendByte
<1> HIDE DEF full
<1> QED BY <1>2, <1>3, OneIsNumbered, StoreSteps

LEMMA CharSteps ==
  ASSUME Typed, NEW n \in 2 .. 4, NEW got \in 1 .. n, NEW blank \in SUBSET (2 .. got),
         AppendChar(n, got, blank)
  PROVE  \E X, xs : Step(X, xs)
<1>1. Len(line) \in Nat
  BY LenProperties DEF Typed
<1> DEFINE full == Len(line) + n > MAX_LINE
           xs   == CharBytes(got, n, blank)
<1>2. full \in BOOLEAN /\ (full => Len(line) > MAX_LINE - 4)
  BY <1>1, SizesAssumption
<1>3. Store(full, xs)
  BY DEF AppendChar
<1>4. Numbered(xs)
  BY CharIsNumbered
<1> HIDE DEF full, xs
<1> QED BY <1>2, <1>3, <1>4, StoreSteps

LEMMA StraySteps ==
  ASSUME Typed, AppendStray
  PROVE  \E X, xs : Step(X, xs)
BY OneIsNumbered, StoreSteps DEF AppendStray

(* flush_line, followed by bytes of which the first is a space.            *)
LEMMA FlushSteps ==
  ASSUME Typed, NEW X, NEW xs, Added(X, xs), X = <<>> \/ X[1].sp,
         out' = out \o Flushed(line), line' = X, Len(X) < LINE_CAP
  PROVE  Step(X, xs)
<1> DEFINE c == Trimmed(line)
           r == Len(line)
<1>1. /\ c \in 0 .. Len(line) /\ r \in 0 .. Len(line) /\ c <= r
      /\ \A i \in c + 1 .. Len(line) : line[i].sp
  BY TrimmedIs, LenProperties DEF Typed
<1>2. CASE c = 0
  <2>1. out' = out \o <<>> /\ out \in Seq(Seq(Byte))
    BY <1>2 DEF Flushed, Typed
  <2>2. out' = out
    BY <2>1
  <2> QED BY <1>1, <1>2, <2>2 DEF Step, Clears
<1>3. CASE c # 0
  <2>1. SubSeq(line, 1, c) \in Seq(Byte)
    BY <1>1, <1>3, Part DEF Typed
  <2>2. Flushed(line) = <<SubSeq(line, 1, c)>>
    BY <1>3 DEF Flushed
  <2>3. out' = Append(out, SubSeq(line, 1, c))
    BY <2>1, <2>2 DEF Typed
  <2>4. SubSeq(line, r + 1, Len(line)) = <<>>
    BY <1>1, LenProperties, SubSeqEmpty DEF Typed
  <2>5. line' = SubSeq(line, r + 1, Len(line)) \o X
    BY <2>4 DEF Added
  <2>6. Breaks(X, c, r)
    BY <1>1, <2>3, <2>5 DEF Breaks, Reason
  <2> HIDE DEF c, r
  <2> QED BY <1>1, <2>6 DEF Step
<1> QED BY <1>2, <1>3

LEMMA PlainFlushSteps ==
  ASSUME Typed, Flush
  PROVE  \E X, xs : Step(X, xs)
<1>1. Numbered(One(TRUE))
  BY OneIsNumbered
<1>2. Added(<<>>, One(TRUE))
  BY <1>1 DEF Added, Flush, One
<1>3. <<>> \in Seq(Byte) /\ Len(<<>>) < LINE_CAP
  BY SizesAssumption
<1> QED BY <1>2, <1>3, FlushSteps DEF Flush

LEMMA IndentSteps ==
  ASSUME Typed, NEW d \in 1 .. MaxLevel, OutputIndent(d)
  PROVE  /\ \E X, xs : Step(X, xs)
         /\ Len(line') <= MAX_LINE /\ \A i \in 1 .. Len(line') : line'[i].sp
<1> DEFINE n  == Smaller(2 * d, MAX_LINE \div 2)
           xs == [i \in 1 .. n |-> [k |-> count + i, sp |-> TRUE, ch |-> 0]]
<1>1. n \in Nat /\ 0 < n /\ n <= MAX_LINE
  BY SizesAssumption DEF Smaller
<1>2. /\ line' = Put(<<>>, xs) /\ Came(xs) /\ truncated' = truncated
      /\ out' = out \o Flushed(line)
  BY DEF OutputIndent
<1>3. \A i \in 1 .. n : [k |-> count + i, sp |-> TRUE, ch |-> 0] \in Byte
  BY <1>1 DEF Typed, Byte
<1> HIDE DEF n
<1>4. /\ xs \in Seq(Byte) /\ Len(xs) = n
      /\ \A i \in 1 .. n : xs[i] = [k |-> count + i, sp |-> TRUE, ch |-> 0]
  BY <1>1, <1>3
<1> HIDE DEF xs
<1>5. Numbered(xs)
  BY <1>1, <1>4 DEF Numbered
<1>6. Len(<<>>) = 0 /\ <<>> \in Seq(Byte) /\ Room(<<>>) = LINE_CAP - 1 /\ Len(<<>>) < LINE_CAP
  BY SizesAssumption DEF Room
<1>7. PICK X \in Seq(Byte) :
        /\ Put(<<>>, xs) = <<>> \o X
        /\ Len(X) = Smaller(Len(xs), Room(<<>>))
        /\ \A i \in 1 .. Len(X) : X[i] = xs[i]
  BY <1>4, <1>6, PutAdds
<1>8. line' = X /\ Len(X) = n
  BY <1>1, <1>2, <1>4, <1>6, <1>7, SizesAssumption DEF Smaller
<1>9. Added(X, xs)
  BY <1>2, <1>4, <1>5, <1>7, <1>8 DEF Added
<1>10. X[1].sp /\ Len(X) < LINE_CAP
  BY <1>1, <1>4, <1>7, <1>8, SizesAssumption
<1>11. Step(X, xs)
  BY <1>2, <1>8, <1>9, <1>10, FlushSteps
<1> QED BY <1>1, <1>4, <1>7, <1>8, <1>11

LEMMA NextSteps ==
  ASSUME Typed, Next
  PROVE  \E X, xs : Step(X, xs)
BY ByteSteps, CharSteps, StraySteps, PlainFlushSteps, IndentSteps DEF Next, AppendSpace

-----------------------------------------------------------------------------
(* Where the bytes of the lines come from.                                 *)

Laid ==
  /\ Len(out) \in Nat /\ Len(line) \in Nat /\ Len(Lines) = Len(out) + 1
  /\ \A i \in 1 .. Len(out) : Lines[i] = out[i] /\ out[i] \in Seq(Byte)
  /\ Lines[Len(out) + 1] = line
  /\ \A i \in 1 .. Len(Lines) : Lines[i] \in Seq(Byte) /\ Len(Lines[i]) \in Nat

LEMMA LinesAre == Typed => Laid
<1> SUFFICES ASSUME Typed PROVE Laid
  OBVIOUS
<1>1. Len(out) \in Nat /\ Len(line) \in Nat
  BY LenProperties DEF Typed
<1>2. /\ Len(Lines) = Len(out) + 1
      /\ \A i \in 1 .. Len(out) : Lines[i] = out[i]
      /\ Lines[Len(out) + 1] = line
  BY AppendProperties DEF Typed, Lines
<1>3. \A i \in 1 .. Len(out) : out[i] \in Seq(Byte)
  BY ElementOfSeq DEF Typed
<1>4. \A i \in 1 .. Len(Lines) : Lines[i] \in Seq(Byte)
  <2> SUFFICES ASSUME NEW i \in 1 .. Len(Lines) PROVE Lines[i] \in Seq(Byte)
    OBVIOUS
  <2>1. i \in 1 .. Len(out) \/ i = Len(out) + 1
    BY <1>1, <1>2
  <2> QED BY <1>2, <1>3, <2>1 DEF Typed
<1> QED BY <1>1, <1>2, <1>3, <1>4, LenProperties DEF Laid

(* The lines printed before are as they were; one may be added, a part of  *)
(* the line; of the line the bytes after off are kept, and X added.        *)
Moved(last, kept, off, X) ==
  /\ Len(Lines') = last /\ last \in {Len(out) + 1, Len(out) + 2}
  /\ \A i \in 1 .. Len(out) : Lines'[i] = Lines[i]
  /\ last = Len(out) + 2 =>
       /\ Len(Lines'[Len(out) + 1]) <= off
       /\ \A x \in 1 .. Len(Lines'[Len(out) + 1]) : Lines'[Len(out) + 1][x] = line[x]
       /\ kept = 0 \/ (off > 0 /\ line[off].sp)
  /\ kept + off = Len(line) /\ Len(Lines'[last]) = kept + Len(X)
  /\ \A x \in 1 .. kept : Lines'[last][x] = line[x + off]
  /\ \A x \in 1 .. Len(X) : Lines'[last][kept + x] = X[x]
  /\ last = Len(out) + 1 => off = 0 \/ kept = 0
  /\ \A x \in 1 .. off : \/ line[x].sp
                         \/ last = Len(out) + 2 /\ x <= Len(Lines'[Len(out) + 1])

LEMMA StepKeepsTypes ==
  ASSUME Typed, NEW X, NEW xs, Step(X, xs)
  PROVE  Typed'
<1>1. X \in Seq(Byte) /\ xs \in Seq(Byte)
  BY DEF Step, Added, Numbered
<1>2. count' \in Nat
  BY <1>1, LenProperties DEF Step, Added, Came, Typed
<1>3. given' \subseteq Byte
  <2>1. BytesOf(xs) \subseteq Byte
    BY <1>1, LenProperties, ElementOfSeq DEF BytesOf
  <2> QED BY <2>1 DEF Step, Added, Came, Typed
<1>4. line' \in Seq(Byte) /\ out' \in Seq(Seq(Byte))
  <2>1. CASE Stays(X)
    BY <1>1, <2>1, ConcatProperties DEF Stays, Typed
  <2>2. ASSUME NEW c \in 0 .. Len(line), NEW r \in 0 .. Len(line), Breaks(X, c, r)
        PROVE  line' \in Seq(Byte) /\ out' \in Seq(Seq(Byte))
    <3>1. Len(line) \in Nat
      BY LenProperties DEF Typed
    <3>2. SubSeq(line, 1, c) \in Seq(Byte) /\ SubSeq(line, r + 1, Len(line)) \in Seq(Byte)
      BY <3>1, Part DEF Typed
    <3> QED BY <1>1, <2>2, <3>2, ConcatProperties, AppendProperties DEF Breaks, Typed
  <2>3. CASE Clears(X)
    BY <1>1, <2>3 DEF Clears, Typed
  <2> QED BY <2>1, <2>2, <2>3 DEF Step
<1> QED BY <1>2, <1>3, <1>4 DEF Step, Typed

LEMMA StepMoves ==
  ASSUME Typed, NEW X, NEW xs, Step(X, xs)
  PROVE  \E last, kept, off \in Nat : Moved(last, kept, off, X)
<1>1. X \in Seq(Byte) /\ Len(X) \in Nat
  BY LenProperties DEF Step, Added
<1>2. /\ Len(out) \in Nat /\ Len(line) \in Nat /\ Len(Lines) = Len(out) + 1
      /\ \A i \in 1 .. Len(out) : Lines[i] = out[i]
  BY LinesAre DEF Laid
<1>3. /\ Len(Lines') = Len(out') + 1
      /\ \A i \in 1 .. Len(out') : Lines'[i] = out'[i]
      /\ Lines'[Len(out') + 1] = line'
  <2>1. Typed'
    BY StepKeepsTypes
  <2>2. (Typed => Laid)'
    BY LinesAre, PTL
  <2> QED BY <2>1, <2>2 DEF Laid
<1>4. CASE Stays(X)
  <2>1. out' = out /\ Len(line') = Len(line) + Len(X)
        /\ \A i \in 1 .. Len(line) + Len(X) :
              line'[i] = IF i <= Len(line) THEN line[i] ELSE X[i - Len(line)]
    BY <1>1, <1>4, ConcatProperties DEF Stays, Typed
  <2>2. /\ Len(Lines') = Len(out) + 1 /\ Lines'[Len(out) + 1] = line'
        /\ \A i \in 1 .. Len(out) : Lines'[i] = Lines[i]
    BY <1>2, <1>3, <2>1
  <2>3. /\ \A x \in 1 .. Len(line) : line'[x] = line[x + 0]
        /\ \A x \in 1 .. Len(X) : line'[Len(line) + x] = X[x]
    BY <1>1, <1>2, <2>1
  <2>4. Moved(Len(out) + 1, Len(line), 0, X)
    <3>1. Len(out) + 1 # Len(out) + 2 /\ Len(line) + 0 = Len(line) /\ 1 .. 0 = {}
      BY <1>2
    <3>2. Len(Lines'[Len(out) + 1]) = Len(line) + Len(X)
      BY <2>1, <2>2
    <3>3. Len(out) + 1 \in {Len(out) + 1, Len(out) + 2}
      OBVIOUS
    <3>4. \A x \in 1 .. 0 : line[x].sp \/ Len(out) + 1 = Len(out) + 2
      BY <3>1
    <3>5. \A x \in 1 .. Len(line) : Lines'[Len(out) + 1][x] = line[x + 0]
      BY <2>2, <2>3
    <3>6. \A x \in 1 .. Len(X) : Lines'[Len(out) + 1][Len(line) + x] = X[x]
      BY <2>2, <2>3
    <3> QED BY <2>2, <3>1, <3>2, <3>3, <3>4, <3>5, <3>6, SMT DEF Moved
  <2> QED BY <1>2, <2>4
<1>5. ASSUME NEW c \in 0 .. Len(line), NEW r \in 0 .. Len(line), Breaks(X, c, r)
      PROVE  Moved(Len(out) + 2, Len(line) - r, r, X)
  <2> DEFINE P == SubSeq(line, 1, c)
             Q == SubSeq(line, r + 1, Len(line))
  <2>1. /\ P \in Seq(Byte) /\ Len(P) = c /\ \A x \in 1 .. c : P[x] = line[x]
        /\ Q \in Seq(Byte) /\ Len(Q) = Len(line) - r
        /\ \A x \in 1 .. Len(line) - r : Q[x] = line[x + r]
    <3>1. /\ SubSeq(line, 1, c) \in Seq(Byte)
          /\ Len(SubSeq(line, 1, c)) = c - 1 + 1
          /\ \A x \in 1 .. c - 1 + 1 : SubSeq(line, 1, c)[x] = line[1 + x - 1]
      BY <1>2, Part DEF Typed
    <3>2. /\ SubSeq(line, r + 1, Len(line)) \in Seq(Byte)
          /\ Len(SubSeq(line, r + 1, Len(line))) = Len(line) - (r + 1) + 1
          /\ \A x \in 1 .. Len(line) - (r + 1) + 1 :
               SubSeq(line, r + 1, Len(line))[x] = line[(r + 1) + x - 1]
      BY <1>2, Part DEF Typed
    <3> QED BY <1>2, <3>1, <3>2
  <2>2. /\ out' = Append(out, P) /\ line' = Q \o X
        /\ c <= r /\ \A i \in c + 1 .. r : line[i].sp
    BY <1>5 DEF Breaks
  <2> HIDE DEF P, Q
  <2>3. /\ Len(out') = Len(out) + 1 /\ out'[Len(out) + 1] = P
        /\ \A i \in 1 .. Len(out) : out'[i] = out[i]
    BY <2>1, <2>2, AppendProperties DEF Typed
  <2>4. /\ Len(line') = Len(line) - r + Len(X)
        /\ \A i \in 1 .. Len(line) - r + Len(X) :
             line'[i] = IF i <= Len(line) - r THEN Q[i] ELSE X[i - (Len(line) - r)]
    <3>1. Q \o X \in Seq(Byte) /\ Len(Q \o X) = Len(Q) + Len(X)
          /\ \A i \in 1 .. Len(Q) + Len(X) :
               (Q \o X)[i] = IF i <= Len(Q) THEN Q[i] ELSE X[i - Len(Q)]
      BY <1>1, <2>1, ConcatProperties
    <3> QED BY <2>1, <2>2, <3>1
  <2>5. /\ Len(Lines') = Len(out) + 2
        /\ Lines'[Len(out) + 1] = P /\ Lines'[Len(out) + 2] = line'
        /\ \A i \in 1 .. Len(out) : Lines'[i] = Lines[i]
    BY <1>2, <1>3, <2>3
  <2>6. ASSUME NEW x \in 1 .. Len(line) - r PROVE line'[x] = line[x + r]
    <3>1. x \in 1 .. Len(line) - r + Len(X) /\ x <= Len(line) - r
      BY <1>1, <1>2
    <3>2. line'[x] = Q[x]
      BY <2>4, <3>1
    <3> QED BY <2>1, <3>2
  <2>7. \A x \in 1 .. Len(X) : line'[Len(line) - r + x] = X[x]
    BY <1>1, <1>2, <2>4
  <2>8. \A x \in 1 .. r : line[x].sp \/ x <= Len(P)
    BY <2>1, <2>2
  <2>9. Len(line) - r = 0 \/ (r > 0 /\ line[r].sp)
    BY <1>2, <1>5 DEF Breaks, Reason
  <2>10. Moved(Len(out) + 2, Len(line) - r, r, X)
    <3> DEFINE p == Len(out) + 2
               k == Len(line) - r
    <3>1. /\ p \in {Len(out) + 1, Len(out) + 2} /\ p # Len(out) + 1
          /\ p = Len(out) + 2 /\ k + r = Len(line)
      BY <1>2
    <3>2. Len(Lines'[Len(out) + 1]) = c /\ c <= r
      BY <2>1, <2>2, <2>5
    <3>3. \A x \in 1 .. Len(Lines'[Len(out) + 1]) : Lines'[Len(out) + 1][x] = line[x]
      BY <2>1, <2>5
    <3>4. Len(Lines'[p]) = k + Len(X)
      BY <2>4, <2>5
    <3>5. \A x \in 1 .. k : Lines'[p][x] = line[x + r]
      BY <2>5, <2>6
    <3>6. \A x \in 1 .. Len(X) : Lines'[p][k + x] = X[x]
      BY <2>5, <2>7
    <3>7. \A x \in 1 .. r : line[x].sp \/ x <= Len(Lines'[Len(out) + 1])
      BY <2>5, <2>8
    <3>8. k = 0 \/ (r > 0 /\ line[r].sp)
      BY <2>9
    <3>9. Len(Lines') = p /\ \A i \in 1 .. Len(out) : Lines'[i] = Lines[i]
      BY <2>5
    <3> HIDE DEF p, k
    <3>10. Moved(p, k, r, X)
      BY <3>1, <3>2, <3>3, <3>4, <3>5, <3>6, <3>7, <3>8, <3>9 DEF Moved
    <3> QED BY <3>10 DEF p, k
  <2> QED BY <2>10
<1>6. CASE Clears(X)
  <2>1. out' = out /\ line' = X /\ \A x \in 1 .. Len(line) : line[x].sp
    BY <1>6 DEF Clears
  <2>2. /\ Len(Lines') = Len(out) + 1 /\ Lines'[Len(out) + 1] = X
        /\ \A i \in 1 .. Len(out) : Lines'[i] = Lines[i]
    BY <1>2, <1>3, <2>1
  <2>3. /\ \A x \in 1 .. 0 : X[x] = line[x + Len(line)]
        /\ \A x \in 1 .. Len(X) : X[0 + x] = X[x]
    BY <1>1
  <2>4. Moved(Len(out) + 1, 0, Len(line), X)
    <3>1. Len(out) + 1 # Len(out) + 2 /\ 0 + Len(line) = Len(line) /\ 0 + Len(X) = Len(X)
      BY <1>1, <1>2
    <3>3. Len(out) + 1 \in {Len(out) + 1, Len(out) + 2}
      OBVIOUS
    <3>5. \A x \in 1 .. 0 : Lines'[Len(out) + 1][x] = line[x + Len(line)]
      BY <2>2, <2>3
    <3>6. \A x \in 1 .. Len(X) : Lines'[Len(out) + 1][0 + x] = X[x]
      BY <2>2, <2>3
    <3> QED BY <2>1, <2>2, <3>1, <3>3, <3>5, <3>6, SMT DEF Moved
  <2> QED BY <1>2, <2>4
<1>7. \A r \in 0 .. Len(line) : Len(out) + 2 \in Nat /\ Len(line) - r \in Nat /\ r \in Nat
  BY <1>2
<1> QED BY <1>4, <1>5, <1>6, <1>7 DEF Step

(* A byte of the lines was in one of them before, or is one of X.          *)
WasThere(last, kept, off, i, x, o, y) ==
  /\ o \in 1 .. Len(Lines) /\ y \in 1 .. Len(Lines[o])
  /\ Lines'[i][x] = Lines[o][y]
  /\ \/ i <= Len(out) /\ o = i /\ y = x
     \/ /\ o = Len(out) + 1 /\ i = Len(out) + 1 /\ last = Len(out) + 2
        /\ y = x /\ y <= off
     \/ o = Len(out) + 1 /\ i = last /\ y = x + off /\ x <= kept

IsNew(last, kept, X, i, x) ==
  /\ i = last /\ x - kept \in 1 .. Len(X)
  /\ Lines'[i][x] = X[x - kept]

LEMMA Origin ==
  ASSUME Typed, NEW X \in Seq(Byte), NEW last \in Nat, NEW kept \in Nat, NEW off \in Nat,
         Moved(last, kept, off, X),
         NEW i \in 1 .. last, NEW x \in 1 .. Len(Lines'[i])
  PROVE  (\E o, y \in Nat : WasThere(last, kept, off, i, x, o, y)) \/ IsNew(last, kept, X, i, x)
<1>1. /\ Len(out) \in Nat /\ Len(line) \in Nat /\ Len(Lines) = Len(out) + 1
      /\ Lines[Len(out) + 1] = line
  BY LinesAre DEF Laid
<1>2. CASE i <= Len(out)
  <2>1. Lines'[i] = Lines[i]
    BY <1>2 DEF Moved
  <2>2. WasThere(last, kept, off, i, x, i, x)
    BY <1>1, <1>2, <2>1 DEF WasThere
  <2>3. i \in Nat /\ x \in Nat
    OBVIOUS
  <2> QED BY <2>2, <2>3
<1>3. CASE i = Len(out) + 1 /\ last = Len(out) + 2
  <2>1. /\ Len(Lines'[i]) <= off /\ Lines'[i][x] = line[x] /\ off <= Len(line)
    BY <1>1, <1>3 DEF Moved
  <2>2. Len(Lines'[i]) \in Int \/ x \in 1 .. Len(line)
    BY <1>1, <2>1
  <2>3. x \in Nat /\ 1 <= x /\ x <= off
    BY <1>1, <2>1, <2>2
  <2>4. WasThere(last, kept, off, i, x, Len(out) + 1, x)
    BY <1>1, <1>3, <2>1, <2>3 DEF WasThere
  <2> QED BY <1>1, <2>3, <2>4
<1>4. CASE i = last
  <2>1. Len(Lines'[i]) = kept + Len(X) /\ Len(X) \in Nat /\ kept + off = Len(line)
    BY <1>4, LenProperties DEF Moved
  <2>2. CASE x <= kept
    <3>1. Lines'[i][x] = line[x + off] /\ x + off \in 1 .. Len(line) /\ x + off \in Nat
      BY <1>4, <2>1, <2>2 DEF Moved
    <3>2. WasThere(last, kept, off, i, x, Len(out) + 1, x + off)
      BY <1>1, <1>4, <2>2, <3>1 DEF WasThere
    <3> QED BY <1>1, <3>1, <3>2, SMTT(30)
  <2>3. CASE ~(x <= kept)
    <3>1. x - kept \in 1 .. Len(X) /\ kept + (x - kept) = x
      BY <2>1, <2>3
    <3>2. Lines'[last][kept + (x - kept)] = X[x - kept]
      BY <3>1 DEF Moved
    <3> QED BY <1>4, <3>1, <3>2 DEF IsNew
  <2> QED BY <2>2, <2>3
<1>5. i <= Len(out) \/ (i = Len(out) + 1 /\ last = Len(out) + 2) \/ i = last
  BY <1>1 DEF Moved
<1> QED BY <1>2, <1>3, <1>4, <1>5

-----------------------------------------------------------------------------
(* Order.                                                                  *)

BytesKnown ==
  \A i \in 1 .. Len(Lines) : \A x \in 1 .. Len(Lines[i]) :
    Lines[i][x].k <= count /\ Lines[i][x].ch <= count

LEMMA ByteNumbers ==
  ASSUME NEW l \in Seq(Byte), NEW x \in 1 .. Len(l)
  PROVE  l[x] \in Byte /\ l[x].k \in Nat /\ l[x].ch \in Nat
<1>1. l[x] \in Byte
  BY ElementOfSeq
<1> QED BY <1>1 DEF Byte

LEMMA KeepsBytesKnown ==
  ASSUME Typed, BytesKnown, NEW X, NEW xs, Added(X, xs),
         NEW last \in Nat, NEW kept \in Nat, NEW off \in Nat, Moved(last, kept, off, X)
  PROVE  BytesKnown'
<1> SUFFICES ASSUME NEW i \in 1 .. Len(Lines'), NEW x \in 1 .. Len(Lines'[i])
             PROVE  Lines'[i][x].k <= count' /\ Lines'[i][x].ch <= count'
  BY DEF BytesKnown
<1>1. X \in Seq(Byte) /\ xs \in Seq(Byte) /\ Len(X) \in Nat /\ Len(xs) \in Nat /\ Len(xs) > 0
  BY LenProperties DEF Added, Numbered
<1>2. count' = count + Len(xs) /\ count \in Nat /\ i \in 1 .. last
  BY DEF Added, Came, Typed, Moved
<1>3. ASSUME NEW o \in Nat, NEW y \in Nat, WasThere(last, kept, off, i, x, o, y)
      PROVE  Lines'[i][x].k <= count' /\ Lines'[i][x].ch <= count'
  <2>1. Lines[o] \in Seq(Byte) /\ y \in 1 .. Len(Lines[o]) /\ Lines'[i][x] = Lines[o][y]
        /\ o \in 1 .. Len(Lines)
    BY <1>3, LinesAre DEF WasThere, Laid
  <2>2. Lines[o][y].k \in Nat /\ Lines[o][y].ch \in Nat
    BY <2>1, ByteNumbers
  <2>3. Lines[o][y].k <= count /\ Lines[o][y].ch <= count
    BY <2>1 DEF BytesKnown
  <2>4. \A k \in Nat : k <= count => k <= count'
    BY <1>1, <1>2
  <2>5. Lines'[i][x].k = Lines[o][y].k /\ Lines'[i][x].ch = Lines[o][y].ch
    BY <2>1
  <2> QED BY <2>2, <2>3, <2>4, <2>5
<1>4. CASE IsNew(last, kept, X, i, x)
  <2> DEFINE z == x - kept
  <2>1. z \in 1 .. Len(xs) /\ Lines'[i][x] = xs[z]
    BY <1>1, <1>4 DEF IsNew, Added
  <2>2. xs[z].k = count + z /\ xs[z].ch \in {0, count + 1}
    BY <2>1 DEF Added, Numbered
  <2> HIDE DEF z
  <2> QED BY <1>1, <1>2, <2>1, <2>2
<1> QED BY <1>1, <1>2, <1>3, <1>4, Origin

LEMMA KeepsInOrder ==
  ASSUME Typed, BytesKnown, InOrder, NEW X, NEW xs, Added(X, xs),
         NEW last \in Nat, NEW kept \in Nat, NEW off \in Nat, Moved(last, kept, off, X)
  PROVE  InOrder'
<1> SUFFICES ASSUME NEW i \in 1 .. Len(Lines'), NEW j \in 1 .. Len(Lines'),
                    NEW x \in 1 .. Len(Lines'[i]), NEW y \in 1 .. Len(Lines'[j]),
                    i < j \/ (i = j /\ x < y)
             PROVE  Lines'[i][x].k < Lines'[j][y].k
  BY DEF InOrder
<1>1. X \in Seq(Byte) /\ xs \in Seq(Byte) /\ Len(X) \in Nat /\ Len(xs) \in Nat /\ count \in Nat
  BY LenProperties DEF Added, Numbered, Typed
<1>2. /\ Len(out) \in Nat /\ last \in {Len(out) + 1, Len(out) + 2}
      /\ Len(Lines) = Len(out) + 1 /\ i \in 1 .. last /\ j \in 1 .. last
      /\ kept + off = Len(line)
  BY LinesAre DEF Laid, Moved
<1>3. ASSUME NEW a \in Nat, NEW b \in Nat, IsNew(last, kept, X, a, b)
      PROVE  a = last /\ b > kept /\ Lines'[a][b].k = count + (b - kept)
  <2>1. b - kept \in 1 .. Len(xs) /\ Lines'[a][b] = xs[b - kept] /\ a = last
    BY <1>1, <1>3 DEF IsNew, Added
  <2> QED BY <2>1, SMTT(30) DEF Added, Numbered
<1>4. ASSUME NEW a, NEW b, NEW o \in Nat, NEW z \in Nat, WasThere(last, kept, off, a, b, o, z)
      PROVE  Lines'[a][b].k \in Nat /\ Lines'[a][b].k <= count
  <2>1. Lines[o] \in Seq(Byte) /\ z \in 1 .. Len(Lines[o]) /\ Lines'[a][b] = Lines[o][z]
        /\ o \in 1 .. Len(Lines)
    BY <1>4, LinesAre DEF WasThere, Laid
  <2> QED BY <2>1, ByteNumbers DEF BytesKnown
<1>5. CASE IsNew(last, kept, X, j, y)
  <2>1. j = last /\ y > kept /\ Lines'[j][y].k = count + (y - kept)
    <3>1. j \in Nat /\ y \in Nat
      BY <1>2
    <3> QED BY <1>3, <1>5, <3>1
  <2>2. CASE IsNew(last, kept, X, i, x)
    <3>1. i = last /\ Lines'[i][x].k = count + (x - kept)
      BY <1>2, <1>3, <2>2, SMTT(30)
    <3>2. i = j /\ ~(i < j)
      BY <1>2, <2>1, <3>1
    <3>3. x < y /\ x \in Int /\ y \in Int
      BY <3>2
    <3>4. \A a, b \in Int : a < b => count + (a - kept) < count + (b - kept)
      BY <1>1
    <3>5. count + (x - kept) < count + (y - kept)
      BY <3>3, <3>4
    <3> QED BY <2>1, <3>1, <3>5
  <2>3. CASE \E o, z \in Nat : WasThere(last, kept, off, i, x, o, z)
    <3>1. Lines'[i][x].k \in Nat /\ Lines'[i][x].k <= count
      BY <1>4, <2>3
    <3> QED BY <1>1, <2>1, <3>1
  <2> QED BY <1>1, <1>2, <2>2, <2>3, Origin
<1>6. ASSUME NEW p \in Nat, NEW w \in Nat, WasThere(last, kept, off, j, y, p, w)
      PROVE  Lines'[i][x].k < Lines'[j][y].k
  <2>1. CASE IsNew(last, kept, X, i, x)
    <3>1. i = last /\ x > kept
      BY <1>2, <1>3, <2>1
    <3>2. FALSE
      BY <1>2, <1>6, <3>1, SMTT(30) DEF WasThere
    <3> QED BY <3>2
  <2>2. ASSUME NEW o \in Nat, NEW z \in Nat, WasThere(last, kept, off, i, x, o, z)
        PROVE  Lines'[i][x].k < Lines'[j][y].k
    <3>1. x \in Int /\ y \in Int /\ i \in Int /\ j \in Int /\ 1 <= y
      OBVIOUS
    <3>2. i <= Len(out) => o = i /\ z = x
      BY <1>2, <2>2, <3>1, SMTT(30) DEF WasThere
    <3>3. (j <= Len(out) /\ p = j /\ w = y) \/ p = Len(out) + 1
      BY <1>6 DEF WasThere
    <3>4. o < p \/ (o = p /\ z < w)
      <4>1. CASE i <= Len(out)
        BY <1>2, <3>1, <3>2, <3>3, <4>1
      <4>2. CASE ~(i <= Len(out))
        <5>1. /\ o = Len(out) + 1
              /\ \/ i = Len(out) + 1 /\ last = Len(out) + 2 /\ z = x /\ z <= off
                 \/ i = last /\ z = x + off
          BY <1>2, <2>2, <3>1, <4>2 DEF WasThere
        <5>2. /\ p = Len(out) + 1
              /\ \/ j = Len(out) + 1 /\ last = Len(out) + 2 /\ w = y /\ w <= off
                 \/ j = last /\ w = y + off
          BY <1>2, <1>6, <3>1, <4>2, SMTT(30) DEF WasThere
        <5> QED BY <1>2, <3>1, <5>1, <5>2
      <4> QED BY <4>1, <4>2
    <3> QED BY <1>6, <2>2, <3>4 DEF InOrder, WasThere
  <2> QED BY <1>1, <1>2, <2>1, <2>2, Origin
<1> QED BY <1>1, <1>2, <1>5, <1>6, Origin

-----------------------------------------------------------------------------
(* Nothing is lost.                                                        *)

GivenBlack == \A b \in given : ~b.sp

LEMMA KeepsNothingLost ==
  ASSUME Typed, Typed', GivenBlack, NothingLost, NEW X, NEW xs, Added(X, xs),
         NEW last \in Nat, NEW kept \in Nat, NEW off \in Nat, Moved(last, kept, off, X)
  PROVE  NothingLost' /\ GivenBlack'
<1>1. given' = given \cup {x \in BytesOf(xs) : ~x.sp}
  BY DEF Added, Came
<1>2. GivenBlack'
  BY <1>1 DEF GivenBlack
<1>3. ASSUME NEW i \in 1 .. Len(Lines'), NEW x \in 1 .. Len(Lines'[i])
      PROVE  Lines'[i][x] \in BytesOf(Lines'[i])
  <2>1. (Typed => Laid)'
    BY LinesAre, PTL
  <2>2. Lines'[i] \in Seq(Byte)
    BY <2>1 DEF Laid
  <2> QED BY <2>2, LenProperties DEF BytesOf
<1>4. /\ Len(out) \in Nat /\ Len(Lines) = Len(out) + 1 /\ Lines[Len(out) + 1] = line
      /\ \A i \in 1 .. Len(Lines) : Lines[i] \in Seq(Byte)
      /\ Len(Lines') = last /\ last \in {Len(out) + 1, Len(out) + 2}
  BY LinesAre DEF Laid, Moved
<1>5. ASSUME ~truncated', NEW b \in given'
      PROVE  \E i \in 1 .. Len(Lines') : b \in BytesOf(Lines'[i])
  <2>1. CASE b \in given
    <3>1. ~truncated /\ ~b.sp
      BY <1>5, <2>1 DEF Added, GivenBlack
    <3>2. PICK i \in 1 .. Len(Lines) : b \in BytesOf(Lines[i])
      BY <2>1, <3>1 DEF NothingLost
    <3>3. PICK x \in 1 .. Len(Lines[i]) : b = Lines[i][x]
      BY <1>4, <3>2, LenProperties DEF BytesOf
    <3>4. CASE i <= Len(out)
      <4>1. Lines'[i] = Lines[i] /\ i \in 1 .. Len(Lines')
        BY <1>4, <3>4 DEF Moved
      <4> QED BY <3>2, <4>1
    <3>5. CASE i = Len(out) + 1
      <4>1. x \in 1 .. Len(line) /\ b = line[x] /\ kept + off = Len(line)
        BY <1>4, <3>3, <3>5 DEF Moved
      <4>2. CASE x <= off
        <5>1. last = Len(out) + 2 /\ x \in 1 .. Len(Lines'[Len(out) + 1])
          <6>1. last = Len(out) + 2 /\ x <= Len(Lines'[Len(out) + 1])
            BY <3>1, <4>1, <4>2 DEF Moved
          <6>2. (Typed => Laid)'
            BY LinesAre, PTL
          <6>3. Len(Lines'[Len(out) + 1]) \in Nat
            BY <1>4, <6>1, <6>2 DEF Laid
          <6> QED BY <4>1, <6>1, <6>3
        <5>2. Lines'[Len(out) + 1][x] = line[x] /\ Len(out) + 1 \in 1 .. Len(Lines')
          BY <1>4, <5>1 DEF Moved
        <5> QED BY <1>3, <4>1, <5>1, <5>2
      <4>3. CASE ~(x <= off)
        <5>1. x - off \in 1 .. kept /\ (x - off) + off = x
          BY <4>1, <4>3
        <5>2. Lines'[last][x - off] = line[x]
          BY <5>1 DEF Moved
        <5>3. last \in 1 .. Len(Lines') /\ x - off \in 1 .. Len(Lines'[last])
          <6>1. Len(Lines'[last]) = kept + Len(X) /\ Len(X) \in Nat
            BY LenProperties DEF Moved, Added
          <6> QED BY <1>4, <5>1, <6>1
        <5> QED BY <1>3, <4>1, <5>2, <5>3
      <4> QED BY <4>1, <4>2, <4>3
    <3> QED BY <1>4, <3>4, <3>5
  <2>2. CASE b \in BytesOf(xs) /\ ~b.sp
    <3>1. Len(X) \in Nat /\ Len(xs) \in Nat /\ xs \in Seq(Byte)
      BY LenProperties DEF Added, Numbered
    <3>2. PICK z \in 1 .. Len(xs) : b = xs[z]
      BY <2>2, <3>1, LenProperties DEF BytesOf
    <3>3. z \in 1 .. Len(X) /\ b = X[z]
      BY <1>5, <2>2, <3>1, <3>2 DEF Added
    <3>4. Lines'[last][kept + z] = b /\ kept + z \in 1 .. Len(Lines'[last])
      BY <3>1, <3>3 DEF Moved
    <3>5. last \in 1 .. Len(Lines')
      BY <1>4
    <3> QED BY <1>3, <3>4, <3>5
  <2> QED BY <1>1, <2>1, <2>2
<1> QED BY <1>2, <1>5 DEF NothingLost

-----------------------------------------------------------------------------
(* Characters.                                                             *)

(* Between the bytes of a character there is no space to cut the line at.  *)
CharTogether ==
  \A x, y \in 1 .. Len(line) :
    (x < y /\ line[x].ch = line[y].ch /\ line[x].ch # 0) =>
      \A z \in x .. y : ~line[z].sp

LEMMA KeepsCharTogether ==
  ASSUME Typed, Typed', BytesKnown, CharTogether, NEW X, NEW xs, Added(X, xs),
         NEW last \in Nat, NEW kept \in Nat, NEW off \in Nat, Moved(last, kept, off, X)
  PROVE  CharTogether'
<1> SUFFICES ASSUME NEW x \in 1 .. Len(line'), NEW y \in 1 .. Len(line'), NEW z \in x .. y,
                    x < y, line'[x].ch = line'[y].ch, line'[x].ch # 0
             PROVE  ~line'[z].sp
  BY DEF CharTogether
<1>1. X \in Seq(Byte) /\ Len(X) \in Nat /\ Len(line) \in Nat /\ count \in Nat
      /\ Len(X) <= Len(xs) /\ Len(xs) \in Nat
  BY LenProperties DEF Added, Typed, Numbered
<1>2. line' = Lines'[last]
  <2>1. (Typed => Laid)'
    BY LinesAre, PTL
  <2> QED BY <2>1 DEF Laid, Moved
<1>3. /\ Len(line') = kept + Len(X) /\ kept + off = Len(line)
      /\ \A v \in 1 .. kept : line'[v] = line[v + off]
      /\ \A v \in 1 .. Len(X) : line'[kept + v] = X[v]
  BY <1>2 DEF Moved
<1>4. /\ x \in Nat /\ y \in Nat /\ z \in Nat /\ x <= z /\ z <= y /\ 1 <= x
      /\ y <= kept + Len(X)
  BY <1>1, <1>3
<1>5. CASE y <= kept
  <2>1. /\ line'[x] = line[x + off] /\ line'[y] = line[y + off] /\ line'[z] = line[z + off]
        /\ x + off \in 1 .. Len(line) /\ y + off \in 1 .. Len(line)
        /\ z + off \in x + off .. y + off /\ x + off < y + off
    BY <1>1, <1>3, <1>4, <1>5
  <2> QED BY <2>1 DEF CharTogether
<1>6. CASE y > kept
  <2>1. ASSUME NEW v \in Nat, v > kept, v <= y
        PROVE  v - kept \in 1 .. Len(X) /\ line'[v] = xs[v - kept]
    <3>1. v - kept \in 1 .. Len(X) /\ kept + (v - kept) = v
      BY <1>1, <1>4, <2>1
    <3>2. line'[kept + (v - kept)] = X[v - kept]
      BY <1>3, <3>1
    <3> QED BY <3>1, <3>2 DEF Added
  <2>2. \A v \in 1 .. Len(xs) : xs[v].ch = count + 1 /\ ~xs[v].sp
    <3>0. y \in Nat /\ y <= y
      BY <1>4
    <3>2. y - kept \in 1 .. Len(X) /\ line'[y] = xs[y - kept]
      BY <1>6, <2>1, <3>0
    <3>1. line'[y] = xs[y - kept] /\ y - kept \in 1 .. Len(xs)
      BY <1>1, <3>2
    <3> QED BY <3>1 DEF Added, Numbered
  <2>3. line'[y].ch = count + 1
    <3>1. y \in Nat /\ y <= y
      BY <1>4
    <3>2. y - kept \in 1 .. Len(X) /\ line'[y] = xs[y - kept]
      BY <1>6, <2>1, <3>1
    <3>3. y - kept \in 1 .. Len(xs)
      BY <1>1, <3>2
    <3> QED BY <2>2, <3>2, <3>3
  <2>4. x > kept
    <3>1. SUFFICES ASSUME x <= kept PROVE FALSE
      BY <1>4
    <3>2. line'[x] = line[x + off] /\ x + off \in 1 .. Len(line)
      BY <1>1, <1>3, <1>4, <3>1
    <3>3. line[x + off].ch <= count
      <4>1. /\ Lines[Len(out) + 1] = line /\ Len(out) + 1 \in 1 .. Len(Lines)
        BY LinesAre DEF Laid
      <4> QED BY <3>2, <4>1 DEF BytesKnown
    <3>4. x + off \in DOMAIN line /\ line[x + off].ch = count + 1
      BY <2>3, <3>2
    <3> QED BY <1>1, <3>3, <3>4
  <2>5. z \in Nat /\ z > kept /\ z <= y
    BY <1>4, <2>4
  <2>6. z - kept \in 1 .. Len(X) /\ line'[z] = xs[z - kept]
    BY <2>1, <2>5
  <2>7. z - kept \in 1 .. Len(xs)
    BY <1>1, <2>6
  <2> QED BY <2>2, <2>6, <2>7
<1> QED BY <1>4, <1>5, <1>6

LEMMA KeepsCharsWhole ==
  ASSUME Typed, Typed', BytesKnown, CharTogether, CharsWhole, NEW X, NEW xs, Added(X, xs),
         NEW last \in Nat, NEW kept \in Nat, NEW off \in Nat, Moved(last, kept, off, X)
  PROVE  CharsWhole'
<1>1. /\ Len(out) \in Nat /\ last \in {Len(out) + 1, Len(out) + 2}
      /\ Len(Lines) = Len(out) + 1 /\ Lines[Len(out) + 1] = line /\ Len(Lines') = last
      /\ kept + off = Len(line)
      /\ \A i \in 1 .. Len(Lines) : Lines[i] \in Seq(Byte)
  BY LinesAre DEF Laid, Moved
<1>2. X \in Seq(Byte) /\ Len(X) \in Nat /\ count \in Nat /\ Len(X) <= Len(xs) /\ Len(xs) \in Nat
  BY LenProperties DEF Added, Numbered, Typed
<1>3. \A i \in 1 .. Len(Lines') : Lines'[i] \in Seq(Byte)
  <2>1. (Typed => Laid)'
    BY LinesAre, PTL
  <2> QED BY <2>1 DEF Laid
<1>4. ASSUME NEW i \in 1 .. last, NEW j \in 1 .. last, i # j,
             NEW x \in 1 .. Len(Lines'[i]), NEW y \in 1 .. Len(Lines'[j]),
             NEW o \in Nat, NEW v \in Nat, WasThere(last, kept, off, i, x, o, v),
             Lines'[i][x].ch = Lines'[j][y].ch
      PROVE  Lines'[i][x].ch = 0
  <2>1. /\ Lines'[i][x] = Lines[o][v]
        /\ o \in 1 .. Len(Lines) /\ v \in 1 .. Len(Lines[o])
    BY <1>4 DEF WasThere
  <2>2. ASSUME NEW p \in Nat, NEW w \in Nat, WasThere(last, kept, off, j, y, p, w)
        PROVE  Lines'[i][x].ch = 0
    <3>1. /\ Lines'[j][y] = Lines[p][w]
          /\ p \in 1 .. Len(Lines) /\ w \in 1 .. Len(Lines[p])
      BY <2>2 DEF WasThere
    <3>2. CASE o # p
      <4>1. Lines[o][v] \in BytesOf(Lines[o]) /\ Lines[p][w] \in BytesOf(Lines[p])
        BY <1>1, <2>1, <3>1, LenProperties DEF BytesOf
      <4> QED BY <1>4, <2>1, <3>1, <3>2, <4>1 DEF CharsWhole
    <3>3. CASE o = p
      <4>1. /\ o = Len(out) + 1 /\ last = Len(out) + 2
            /\ \/ v <= off /\ off < w
               \/ w <= off /\ off < v
        <5>1. x \in Int /\ y \in Int /\ i \in Int /\ j \in Int /\ 1 <= x /\ 1 <= y
          OBVIOUS
        <5>2. \/ i <= Len(out) /\ o = i
              \/ o = Len(out) + 1 /\ i = Len(out) + 1 /\ last = Len(out) + 2 /\ v <= off
              \/ o = Len(out) + 1 /\ i = last /\ v = x + off
          BY <1>4 DEF WasThere
        <5>3. \/ j <= Len(out) /\ p = j
              \/ p = Len(out) + 1 /\ j = Len(out) + 1 /\ last = Len(out) + 2 /\ w <= off
              \/ p = Len(out) + 1 /\ j = last /\ w = y + off
          BY <2>2 DEF WasThere
        <5> QED BY <1>1, <1>4, <3>3, <5>1, <5>2, <5>3
      <4>2. v \in 1 .. Len(line) /\ w \in 1 .. Len(line)
        BY <1>1, <2>1, <3>1, <3>3, <4>1
      <4>3. kept # 0
        BY <1>1, <4>1, <4>2, LenProperties, SMTT(30) DEF Typed
      <4>4. line[off].sp
        BY <4>1, <4>3 DEF Moved
      <4>5. line[v].ch = line[w].ch /\ Lines'[i][x].ch = line[v].ch
        BY <1>1, <1>4, <2>1, <3>1, <3>3, <4>1
      <4>6. (v < w /\ off \in v .. w) \/ (w < v /\ off \in w .. v)
        BY <4>1, <4>2
      <4> QED BY <4>2, <4>4, <4>5, <4>6 DEF CharTogether
    <3> QED BY <3>2, <3>3
  <2>3. CASE IsNew(last, kept, X, j, y)
    <3>1. y - kept \in 1 .. Len(xs) /\ Lines'[j][y] = xs[y - kept]
      BY <1>2, <2>3 DEF IsNew, Added
    <3>2. xs[y - kept].ch = 0 \/ xs[y - kept].ch = count + 1
      BY <3>1 DEF Added, Numbered
    <3>3. Lines[o][v].ch <= count /\ Lines[o][v].ch \in Nat
      BY <1>1, <2>1, ByteNumbers DEF BytesKnown
    <3>4. Lines[o][v].ch # count + 1
      BY <1>2, <3>3
    <3>5. Lines[o][v].ch = xs[y - kept].ch
      BY <1>4, <2>1, <3>1
    <3> QED BY <2>1, <3>2, <3>4, <3>5
  <2> QED BY <1>2, <2>2, <2>3, Origin
<1>5. ASSUME NEW i \in 1 .. last, NEW j \in 1 .. last, i # j,
             NEW x \in 1 .. Len(Lines'[i]), NEW y \in 1 .. Len(Lines'[j]),
             Lines'[i][x].ch = Lines'[j][y].ch
      PROVE  Lines'[i][x].ch = 0
  <2>1. CASE \E o, v \in Nat : WasThere(last, kept, off, i, x, o, v)
    BY <1>4, <1>5, <2>1
  <2>2. CASE \E p, w \in Nat : WasThere(last, kept, off, j, y, p, w)
    <3>1. PICK p \in Nat, w \in Nat : WasThere(last, kept, off, j, y, p, w)
      BY <2>2
    <3>2. Lines'[j][y].ch = 0
      BY <1>4, <1>5, <3>1
    <3> QED BY <1>5, <3>2
  <2>3. CASE IsNew(last, kept, X, i, x) /\ IsNew(last, kept, X, j, y)
    BY <1>5, <2>3 DEF IsNew
  <2> QED BY <1>2, <2>1, <2>2, <2>3, Origin
<1> SUFFICES ASSUME NEW i \in 1 .. Len(Lines'), NEW j \in 1 .. Len(Lines'), i # j,
                    NEW b \in BytesOf(Lines'[i]), NEW c \in BytesOf(Lines'[j]), b.ch = c.ch
             PROVE  b.ch = 0
  BY DEF CharsWhole
<1>6. PICK x \in 1 .. Len(Lines'[i]) : b = Lines'[i][x]
  BY <1>3, LenProperties DEF BytesOf
<1>7. PICK y \in 1 .. Len(Lines'[j]) : c = Lines'[j][y]
  BY <1>3, LenProperties DEF BytesOf
<1> QED BY <1>1, <1>5, <1>6, <1>7

-----------------------------------------------------------------------------
(* Words.                                                                  *)

(* Where a new line begins, something came after the last byte printed.    *)
EmptyAfter ==
  line = <<>> =>
    \A i \in 1 .. Len(out) : \A x \in 1 .. Len(out[i]) : out[i][x].k < count

Unbroken(a, b) ==
  (/\ a # <<>> /\ b # <<>>
   /\ ~a[Len(a)].sp /\ ~b[1].sp /\ b[1].k = a[Len(a)].k + 1)
  => Spaces(a) = {} /\ Len(a) > MAX_LINE - 4

LEMMA WordsAre ==
  WordsWhole <=> \A i \in 1 .. Len(out) : Unbroken(out[i], Lines[i + 1])
BY DEF WordsWhole, Unbroken

LEMMA FirstByte ==
  ASSUME NEW a \in Seq(Byte), NEW b \in Seq(Byte), NEW c \in Seq(Byte),
         Unbroken(a, b), b # <<>>, c # <<>> => c[1] = b[1]
  PROVE  Unbroken(a, c)
BY DEF Unbroken

LEMMA LastKnown ==
  ASSUME Typed, BytesKnown, NEW i \in 1 .. Len(out), out[i] # <<>>
  PROVE  /\ Len(out[i]) \in Nat /\ Len(out[i]) \in 1 .. Len(out[i])
         /\ out[i][Len(out[i])].k \in Nat /\ out[i][Len(out[i])].k <= count
<1>1. out[i] \in Seq(Byte) /\ out[i] = Lines[i] /\ i \in 1 .. Len(Lines) /\ Len(out[i]) \in Nat
  BY LinesAre DEF Laid
<1>2. Len(out[i]) > 0
  BY <1>1, EmptySeq
<1>3. Len(out[i]) \in 1 .. Len(out[i])
  BY <1>1, <1>2
<1> QED BY <1>1, <1>3, ByteNumbers DEF BytesKnown

LEMMA LineIncreases ==
  ASSUME Typed, InOrder, NEW x \in 1 .. Len(line), NEW y \in 1 .. Len(line), x < y
  PROVE  line[x].k < line[y].k
BY LinesAre DEF InOrder, Laid

LEMMA LineKnown ==
  ASSUME Typed, BytesKnown, NEW x \in 1 .. Len(line)
  PROVE  line[x].k \in Nat /\ line[x].k <= count
BY LinesAre, ByteNumbers DEF BytesKnown, Laid, Typed

LEMMA KeepsWords ==
  ASSUME Typed, Typed', BytesKnown, InOrder, WordsWhole, EmptyAfter,
         NEW X, NEW xs, Step(X, xs)
  PROVE  WordsWhole'
<1>1. /\ X \in Seq(Byte) /\ Len(X) \in Nat /\ count \in Nat
      /\ X # <<>> => X[1].k = count + 1
  <2>1. X \in Seq(Byte) /\ Len(X) \in Nat /\ count \in Nat
    BY LenProperties DEF Step, Added, Typed
  <2>2. ASSUME X # <<>> PROVE X[1].k = count + 1
    <3>1. 1 \in 1 .. Len(X)
      BY <2>1, <2>2, EmptySeq
    <3>2. X[1] = xs[1] /\ 1 \in 1 .. Len(xs)
      BY <2>1, <3>1, LenProperties DEF Step, Added, Numbered
    <3> QED BY <3>2 DEF Step, Added, Numbered
  <2> QED BY <2>1, <2>2
<1>2. /\ Len(out) \in Nat /\ Len(line) \in Nat
      /\ \A i \in 1 .. Len(out) : Lines[i] = out[i] /\ out[i] \in Seq(Byte)
      /\ Lines[Len(out) + 1] = line
  BY LinesAre DEF Laid
<1>3. /\ \A i \in 1 .. Len(out') : Lines'[i] = out'[i]
      /\ Lines'[Len(out') + 1] = line'
  <2>1. (Typed => Laid)'
    BY LinesAre, PTL
  <2> QED BY <2>1 DEF Laid
<1>4. \A i \in 1 .. Len(out) : Unbroken(out[i], Lines[i + 1])
  BY WordsAre
<1>5. SUFFICES \A i \in 1 .. Len(out') : Unbroken(out'[i], Lines'[i + 1])
  <2>1. (WordsWhole <=> \A i \in 1 .. Len(out) : Unbroken(out[i], Lines[i + 1]))'
    BY WordsAre, PTL
  <2> QED BY <1>5, <2>1
(* The next line begins as it did, or with a byte that has just come.      *)
<1>6. ASSUME NEW c \in Seq(Byte), NEW i \in 1 .. Len(out), i = Len(out),
             IF line # <<>> THEN c # <<>> => c[1] = line[1]
             ELSE c # <<>> => c[1].k = count + 1
      PROVE  Unbroken(out[i], c)
  <2>1. CASE line # <<>>
    BY <1>2, <1>4, <1>6, <2>1, FirstByte DEF Typed
  <2>2. CASE line = <<>>
    <3>1. SUFFICES ASSUME out[i] # <<>>, c # <<>>, c[1].k = out[i][Len(out[i])].k + 1
                   PROVE  FALSE
      BY DEF Unbroken
    <3>2. out[i][Len(out[i])].k < count /\ out[i][Len(out[i])].k \in Nat
      BY <2>2, <3>1, LastKnown DEF EmptyAfter
    <3> QED BY <1>1, <1>6, <2>2, <3>1, <3>2
  <2> QED BY <2>1, <2>2
<1>7. CASE Stays(X)
  <2>1. out' = out /\ line' = line \o X
    BY <1>7 DEF Stays
  <2>2. IF line # <<>> THEN line' # <<>> => line'[1] = line[1]
        ELSE line' # <<>> => line'[1].k = count + 1
    <3>1. CASE line # <<>>
      <4>1. 1 \in 1 .. Len(line)
        BY <1>2, <3>1, EmptySeq DEF Typed
      <4>2. line'[1] = line[1]
        BY <1>1, <1>2, <2>1, <4>1, ConcatProperties DEF Typed
      <4> QED BY <3>1, <4>2
    <3>2. CASE line = <<>>
      <4>1. line' = X
        BY <1>1, <2>1, <3>2
      <4> QED BY <1>1, <3>2, <4>1
    <3> QED BY <3>1, <3>2
  <2>3. ASSUME NEW i \in 1 .. Len(out') PROVE Unbroken(out'[i], Lines'[i + 1])
    <3>1. CASE i < Len(out)
      <4>1. Lines'[i + 1] = Lines[i + 1] /\ i \in 1 .. Len(out)
        BY <1>2, <1>3, <2>1, <3>1
      <4> QED BY <1>4, <2>1, <4>1
    <3>2. CASE i = Len(out)
      <4>1. Lines'[i + 1] = line' /\ line' \in Seq(Byte) /\ i \in 1 .. Len(out)
        BY <1>3, <2>1, <3>2 DEF Typed
      <4> QED BY <1>6, <2>1, <2>2, <3>2, <4>1
    <3> QED BY <1>2, <2>1, <3>1, <3>2
  <2> QED BY <2>3
<1>8. CASE Clears(X)
  <2>1. out' = out /\ line' = X /\ (X = <<>> \/ X[1].sp)
    BY <1>8 DEF Clears
  <2>2. ASSUME NEW i \in 1 .. Len(out') PROVE Unbroken(out'[i], Lines'[i + 1])
    <3>1. CASE i < Len(out)
      <4>1. Lines'[i + 1] = Lines[i + 1] /\ i \in 1 .. Len(out)
        BY <1>2, <1>3, <2>1, <3>1
      <4> QED BY <1>4, <2>1, <4>1
    <3>2. CASE i = Len(out)
      <4>1. Lines'[i + 1] = X
        BY <1>3, <2>1, <3>2
      <4> QED BY <2>1, <4>1 DEF Unbroken
    <3> QED BY <1>2, <2>1, <3>1, <3>2
  <2> QED BY <2>2
<1>9. ASSUME NEW c \in 0 .. Len(line), NEW r \in 0 .. Len(line), Breaks(X, c, r),
             NEW i \in 1 .. Len(out')
      PROVE  Unbroken(out'[i], Lines'[i + 1])
  <2> DEFINE P == SubSeq(line, 1, c)
             Q == SubSeq(line, r + 1, Len(line))
  <2>1. /\ P \in Seq(Byte) /\ Len(P) = c /\ \A x \in 1 .. c : P[x] = line[x]
        /\ Q \in Seq(Byte) /\ Len(Q) = Len(line) - r
        /\ \A x \in 1 .. Len(line) - r : Q[x] = line[x + r]
    <3>1. /\ SubSeq(line, 1, c) \in Seq(Byte)
          /\ Len(SubSeq(line, 1, c)) = c - 1 + 1
          /\ \A x \in 1 .. c - 1 + 1 : SubSeq(line, 1, c)[x] = line[1 + x - 1]
      BY <1>2, Part DEF Typed
    <3>2. /\ SubSeq(line, r + 1, Len(line)) \in Seq(Byte)
          /\ Len(SubSeq(line, r + 1, Len(line))) = Len(line) - (r + 1) + 1
          /\ \A x \in 1 .. Len(line) - (r + 1) + 1 :
               SubSeq(line, r + 1, Len(line))[x] = line[(r + 1) + x - 1]
      BY <1>2, Part DEF Typed
    <3> QED BY <1>2, <3>1, <3>2
  <2>2. out' = Append(out, P) /\ line' = Q \o X /\ c <= r /\ Reason(X, c, r)
    BY <1>9 DEF Breaks
  <2>3. Spaces(line) = {} /\ c = Len(line) => P = line
    BY <1>2, SubSeqFull DEF Typed
  <2> HIDE DEF P, Q
  <2>4. /\ Len(out') = Len(out) + 1 /\ out'[Len(out) + 1] = P
        /\ \A j \in 1 .. Len(out) : out'[j] = out[j]
    BY <2>1, <2>2, AppendProperties DEF Typed
  <2>5. CASE i < Len(out)
    <3>1. Lines'[i + 1] = Lines[i + 1] /\ i \in 1 .. Len(out) /\ out'[i] = out[i]
      BY <1>2, <1>3, <2>4, <2>5
    <3> QED BY <1>4, <3>1
  <2>6. CASE i = Len(out)
    <3>1. Lines'[i + 1] = P /\ i \in 1 .. Len(out) /\ out'[i] = out[i]
      BY <1>2, <1>3, <2>4, <2>6
    <3>2. P # <<>> => line # <<>> /\ P[1] = line[1]
      <4>1. P # <<>> => Len(P) > 0
        BY <1>2, <2>1, EmptySeq
      <4>2. line = <<>> => Len(line) = 0
        OBVIOUS
      <4> QED BY <1>2, <2>1, <4>1, <4>2
    <3> QED BY <1>6, <2>1, <2>6, <3>1, <3>2
  <2>7. CASE i = Len(out) + 1
    <3>1. Lines'[i + 1] = line' /\ out'[i] = P
      BY <1>3, <2>4, <2>7
    <3>2. CASE c = Len(line) /\ Spaces(line) = {} /\ Len(line) > MAX_LINE - 4
      BY <2>3, <3>1, <3>2 DEF Unbroken
    <3>3. CASE r = Len(line)
      <4>1. Len(Q) = 0 /\ Q = <<>>
        BY <1>2, <2>1, <3>3, EmptySeq
      <4>2. line' = X
        BY <1>1, <2>2, <4>1
      <4>3. CASE X = <<>> \/ X[1].sp
        BY <3>1, <4>2, <4>3 DEF Unbroken
      <4>4. CASE c < r /\ X # <<>>
        <5>1. SUFFICES ASSUME P # <<>>, X[1].k = P[Len(P)].k + 1 PROVE FALSE
          BY <3>1, <4>2 DEF Unbroken
        <5>2. c \in 1 .. Len(line) /\ r \in 1 .. Len(line) /\ P[Len(P)] = line[c]
          BY <1>2, <2>1, <4>4, <5>1, EmptySeq
        <5>3. line[c].k < line[r].k /\ line[r].k <= count
              /\ line[c].k \in Nat /\ line[r].k \in Nat
          BY <4>4, <5>2, LineIncreases, LineKnown
        <5>4. X[1].k = line[c].k + 1
          BY <5>1, <5>2
        <5>5. X[1].k <= line[r].k
          BY <5>3, <5>4
        <5>6. X[1].k \in Nat /\ X[1].k > count
          BY <1>1, <4>4
        <5>7. count \in Nat
          BY DEF Typed
        <5> QED BY <5>3, <5>5, <5>6, <5>7
      <4> QED BY <2>2, <3>2, <4>3, <4>4 DEF Reason
    <3>4. CASE c < r /\ r < Len(line)
      <4>1. SUFFICES ASSUME P # <<>>, line'[1].k = P[Len(P)].k + 1 PROVE FALSE
        BY <3>1 DEF Unbroken
      <4>2. /\ c \in 1 .. Len(line) /\ r \in 1 .. Len(line) /\ r + 1 \in 1 .. Len(line)
            /\ P[Len(P)] = line[c]
        BY <1>2, <2>1, <3>4, <4>1, EmptySeq
      <4>3. line'[1] = line[r + 1]
        <5>1. 1 \in 1 .. Len(Q) /\ Q[1] = line[r + 1]
          <6>1. Len(line) \in Int /\ r \in Int /\ r < Len(line)
            BY <1>2, <3>4
          <6>2. \A m, n \in Int : m < n => 1 \in 1 .. n - (m + 1) + 1 /\ (m + 1) + 1 - 1 = m + 1
            OBVIOUS
          <6>3. 1 \in 1 .. Len(line) - (r + 1) + 1 /\ (r + 1) + 1 - 1 = r + 1
            BY <6>1, <6>2
          <6>4. Len(Q) = Len(line) - (r + 1) + 1 /\ Q[1] = line[(r + 1) + 1 - 1]
            BY <2>1, <6>3
          <6> QED BY <6>3, <6>4
        <5> QED BY <1>1, <2>1, <2>2, <5>1, ConcatProperties
      <4>4. line[c].k < line[r].k /\ line[r].k < line[r + 1].k
        BY <3>4, <4>2, LineIncreases
      <4>5. line[c].k \in Nat /\ line[r].k \in Nat /\ line[r + 1].k \in Nat
        BY <4>2, LineKnown
      <4> QED BY <4>1, <4>2, <4>3, <4>4, <4>5
    <3> QED BY <1>2, <2>2, <3>2, <3>3, <3>4 DEF Reason
  <2> QED BY <1>2, <2>4, <2>5, <2>6, <2>7
<1> QED BY <1>7, <1>8, <1>9 DEF Step

LEMMA KeepsEmptyAfter ==
  ASSUME Typed, Typed', BytesKnown, NEW X, NEW xs, Step(X, xs)
  PROVE  EmptyAfter'
<1>1. Len(out) \in Nat /\ count \in Nat /\ count' \in Nat /\ count' > count
  <2>1. Len(xs) \in Nat /\ Len(xs) > 0
    BY LenProperties DEF Step, Added, Numbered
  <2> QED BY <2>1, LenProperties DEF Step, Added, Came, Typed
<1> SUFFICES ASSUME NEW i \in 1 .. Len(out'), NEW x \in 1 .. Len(out'[i])
             PROVE  out'[i][x].k < count'
  BY DEF EmptyAfter
<1>2. \A j \in 1 .. Len(out) : \A y \in 1 .. Len(out[j]) :
        out[j][y].k \in Nat /\ out[j][y].k <= count
  <2> SUFFICES ASSUME NEW j \in 1 .. Len(out), NEW y \in 1 .. Len(out[j])
               PROVE  out[j][y].k \in Nat /\ out[j][y].k <= count
    OBVIOUS
  <2>1. out[j] \in Seq(Byte) /\ out[j] = Lines[j] /\ j \in 1 .. Len(Lines)
    BY <1>1, LinesAre DEF Laid
  <2> QED BY <2>1, ByteNumbers DEF BytesKnown
<1>3. CASE Stays(X) \/ Clears(X)
  BY <1>1, <1>2, <1>3 DEF Stays, Clears
<1>4. ASSUME NEW c \in 0 .. Len(line), NEW r \in 0 .. Len(line), Breaks(X, c, r)
      PROVE  out'[i][x].k < count'
  <2> DEFINE P == SubSeq(line, 1, c)
  <2>1. /\ P \in Seq(Byte) /\ Len(P) = c - 1 + 1
        /\ \A y \in 1 .. c - 1 + 1 : P[y] = line[1 + y - 1]
    BY Part, LenProperties DEF Typed
  <2>2. out' = Append(out, P)
    BY <1>4 DEF Breaks
  <2> HIDE DEF P
  <2>3. /\ Len(out') = Len(out) + 1 /\ out'[Len(out) + 1] = P
        /\ \A j \in 1 .. Len(out) : out'[j] = out[j]
    BY <2>1, <2>2, AppendProperties DEF Typed
  <2>4. CASE i <= Len(out)
    BY <1>1, <1>2, <2>3, <2>4
  <2>5. CASE i = Len(out) + 1
    <3>1. x \in 1 .. Len(line) /\ out'[i][x] = line[x]
      BY <1>1, <2>1, <2>3, <2>5, LenProperties DEF Typed
    <3>2. line[x].k \in Nat /\ line[x].k <= count
      BY <3>1, LineKnown
    <3> QED BY <1>1, <3>1, <3>2
  <2> QED BY <1>1, <2>3, <2>4, <2>5
<1> QED BY <1>3, <1>4 DEF Step

-----------------------------------------------------------------------------
(* Lengths.                                                                *)

(* What wrap_line leaves is shorter than a line: the last space is near.   *)
SpaceNear ==
  Spaces(line) # {} => \E s \in Spaces(line) : Len(line) - s < MAX_LINE

Fits ==
  ~stray => /\ ~truncated /\ SpaceNear
            /\ Len(line) <= MAX_LINE + 3
            /\ \A i \in 1 .. Len(out) : Len(out[i]) <= MAX_LINE + 3

LEMMA StoreFits ==
  ASSUME Typed, Fits, ~stray, NEW full \in BOOLEAN, NEW xs, Numbered(xs), Len(xs) <= 4,
         ~full => Len(line) + Len(xs) <= MAX_LINE, Store(full, xs)
  PROVE  /\ ~truncated' /\ SpaceNear'
         /\ Len(line') <= MAX_LINE + 3
         /\ \A i \in 1 .. Len(out') : Len(out'[i]) <= MAX_LINE + 3
<1> DEFINE l == IF full THEN Rest(line) ELSE line
<1>1. /\ Len(line) \in Nat /\ Len(xs) \in Nat /\ LINE_CAP \in Nat /\ MAX_LINE \in Nat
      /\ 4 <= MAX_LINE /\ MAX_LINE + 4 < LINE_CAP
      /\ Len(line) <= MAX_LINE + 3 /\ line \in Seq(Byte)
      /\ \A i \in 1 .. Len(out) : Len(out[i]) <= MAX_LINE + 3
  BY LenProperties, SizesAssumption DEF Typed, Numbered, Fits
<1>2. PICK c \in 0 .. Len(line), r \in 0 .. Len(line) :
           /\ c <= r
           /\ Cut(line) = SubSeq(line, 1, c) /\ Rest(line) = SubSeq(line, r + 1, Len(line))
           /\ \A i \in c + 1 .. r : line[i].sp
           /\ IF Spaces(line) = {} THEN c = Len(line) /\ r = Len(line)
              ELSE c < r /\ r = LastSpace(line) /\ line[r].sp
  BY <1>1, CutAndRest
<1>3. /\ Rest(line) \in Seq(Byte) /\ Len(Rest(line)) = Len(line) - r
      /\ \A i \in 1 .. Len(line) - r : Rest(line)[i] = line[i + r]
      /\ Cut(line) \in Seq(Byte) /\ Len(Cut(line)) = c
  <2>1. /\ SubSeq(line, 1, c) \in Seq(Byte)
        /\ Len(SubSeq(line, 1, c)) = c - 1 + 1
    BY <1>1, Part
  <2>2. /\ SubSeq(line, r + 1, Len(line)) \in Seq(Byte)
        /\ Len(SubSeq(line, r + 1, Len(line))) = Len(line) - (r + 1) + 1
        /\ \A x \in 1 .. Len(line) - (r + 1) + 1 :
             SubSeq(line, r + 1, Len(line))[x] = line[(r + 1) + x - 1]
    BY <1>1, Part
  <2> QED BY <1>1, <1>2, <2>1, <2>2
<1>4. Len(line) - r < MAX_LINE
  <2>1. CASE Spaces(line) = {}
    BY <1>1, <1>2, <2>1
  <2>2. CASE Spaces(line) # {}
    <3>1. PICK s \in Spaces(line) : Len(line) - s < MAX_LINE
      BY <2>2 DEF Fits, SpaceNear
    <3>2. s <= r /\ s \in 1 .. Len(line)
      BY <1>1, <1>2, <2>2, LastSpaceIs, LenProperties DEF Spaces
    <3> QED BY <1>1, <3>1, <3>2
  <2> QED BY <2>1, <2>2
<1>5. /\ l \in Seq(Byte) /\ Len(l) \in Nat /\ Len(l) + Len(xs) <= MAX_LINE + 3
      /\ Len(l) < LINE_CAP
  BY <1>1, <1>3, <1>4, LenProperties DEF Typed
<1>6. full => l = Rest(line)
  OBVIOUS
<1>7. /\ line' = Put(l, xs) /\ truncated' = (truncated \/ Len(xs) > Room(l))
      /\ out' = IF full THEN Append(out, Cut(line)) ELSE out
  BY DEF Store
<1> HIDE DEF l
<1>8. Len(xs) <= Room(l)
  BY <1>1, <1>5 DEF Room
<1>9. PICK X \in Seq(Byte) : line' = l \o X /\ Len(X) = Len(xs)
  <2>1. Smaller(Len(xs), Room(l)) = Len(xs)
    BY <1>1, <1>5, <1>8 DEF Smaller, Room
  <2> QED BY <1>5, <1>7, <2>1, PutAdds DEF Numbered
<1>10. /\ line' \in Seq(Byte) /\ Len(line') = Len(l) + Len(xs)
       /\ \A i \in 1 .. Len(l) : line'[i] = l[i]
  <2>1. /\ l \o X \in Seq(Byte) /\ Len(l \o X) = Len(l) + Len(X)
        /\ \A i \in 1 .. Len(l) + Len(X) :
             (l \o X)[i] = IF i <= Len(l) THEN l[i] ELSE X[i - Len(l)]
    BY <1>5, ConcatProperties
  <2> QED BY <1>1, <1>5, <1>9, <2>1
<1>11. ~truncated'
  <2>1. ~truncated /\ ~(Len(xs) > Room(l))
    BY <1>1, <1>5, <1>8 DEF Fits, Room
  <2> QED BY <1>7, <2>1, Zenon
<1>12. SpaceNear'
  <2> SUFFICES ASSUME NEW s \in Spaces(line') PROVE Len(line') - s < MAX_LINE
    BY DEF SpaceNear
  <2>1. s \in 1 .. Len(line') /\ line'[s].sp
    BY <1>10, LenProperties DEF Spaces
  <2>2. CASE ~full
    BY <1>1, <1>5, <1>10, <2>1, <2>2 DEF l
  <2>3. CASE full
    <3>1. SUFFICES ASSUME s <= Len(l) PROVE FALSE
      BY <1>1, <1>5, <1>10, <2>1
    <3>2. line[s + r].sp /\ s + r \in 1 .. Len(line)
      BY <1>1, <1>3, <1>6, <1>10, <2>1, <2>3, <3>1
    <3>3. s + r \in Spaces(line)
      BY <1>1, <3>2, LenProperties DEF Spaces
    <3>4. s + r <= r
      BY <1>1, <1>2, <3>3, LastSpaceIs
    <3> QED BY <2>1, <3>4
  <2> QED BY <2>2, <2>3
<1>13. \A i \in 1 .. Len(out') : Len(out'[i]) <= MAX_LINE + 3
  <2>1. CASE ~full
    BY <1>1, <1>7, <2>1
  <2>2. CASE full
    <3>1. out' = Append(out, Cut(line)) /\ out \in Seq(Seq(Byte)) /\ Len(out) \in Nat
      BY <1>7, <2>2, LenProperties DEF Typed
    <3>2. /\ Len(out') = Len(out) + 1 /\ out'[Len(out) + 1] = Cut(line)
          /\ \A i \in 1 .. Len(out) : out'[i] = out[i]
      BY <1>3, <3>1, AppendProperties
    <3>3. Len(Cut(line)) <= MAX_LINE + 3
      BY <1>1, <1>2, <1>3
    <3> QED BY <1>1, <3>1, <3>2, <3>3
  <2> QED BY <2>1, <2>2
<1>14. Len(line') <= MAX_LINE + 3
  BY <1>5, <1>10
<1> QED BY <1>11, <1>12, <1>13, <1>14

LEMMA FlushedFits ==
  ASSUME Typed, Fits, ~stray, out' = out \o Flushed(line)
  PROVE  \A i \in 1 .. Len(out') : Len(out'[i]) <= MAX_LINE + 3
<1> DEFINE c == Trimmed(line)
           P == SubSeq(line, 1, c)
<1>1. c \in 0 .. Len(line) /\ Len(line) \in Nat /\ MAX_LINE \in Nat /\ Len(out) \in Nat
      /\ out \in Seq(Seq(Byte)) /\ line \in Seq(Byte)
  BY TrimmedIs, LenProperties, SizesAssumption DEF Typed
<1>2. Len(line) <= MAX_LINE + 3 /\ \A i \in 1 .. Len(out) : Len(out[i]) <= MAX_LINE + 3
  BY DEF Fits
<1>3. CASE c = 0
  <2>1. out' = out \o <<>>
    BY <1>3 DEF Flushed
  <2>2. out' = out
    BY <1>1, <2>1
  <2> QED BY <1>2, <2>2
<1>4. CASE c # 0
  <2>1. P \in Seq(Byte) /\ Len(P) = c - 1 + 1
    BY <1>1, Part
  <2>2. out' = out \o <<P>>
    BY <1>4 DEF Flushed
  <2> HIDE DEF P, c
  <2>3. out' = Append(out, P)
    BY <1>1, <2>1, <2>2
  <2>4. /\ Len(out') = Len(out) + 1 /\ out'[Len(out) + 1] = P
        /\ \A i \in 1 .. Len(out) : out'[i] = out[i]
    BY <1>1, <2>1, <2>3, AppendProperties
  <2>5. Len(P) <= MAX_LINE + 3
    BY <1>1, <1>2, <2>1
  <2> QED BY <1>1, <1>2, <2>4, <2>5
<1> QED BY <1>3, <1>4

LEMMA NextFits ==
  ASSUME Typed, Fits, Next
  PROVE  Fits'
<1> SUFFICES ASSUME ~stray' PROVE /\ ~truncated' /\ SpaceNear'
                                  /\ Len(line') <= MAX_LINE + 3
                                  /\ \A i \in 1 .. Len(out') : Len(out'[i]) <= MAX_LINE + 3
  BY DEF Fits
<1>1. Len(line) \in Nat /\ MAX_LINE \in Nat /\ 4 <= MAX_LINE
  BY LenProperties, SizesAssumption DEF Typed
<1>2. ASSUME NEW isSpace \in BOOLEAN, AppendByte(isSpace)
      PROVE  /\ ~truncated' /\ SpaceNear'
             /\ Len(line') <= MAX_LINE + 3
             /\ \A i \in 1 .. Len(out') : Len(out'[i]) <= MAX_LINE + 3
  <2> DEFINE full == Len(line) >= MAX_LINE
             xs   == One(isSpace)
  <2>1. /\ full \in BOOLEAN /\ Numbered(xs) /\ Len(xs) = 1
        /\ Store(full, xs) /\ ~stray
    BY <1>2, OneIsNumbered DEF AppendByte, One
  <2>2. Len(xs) <= 4 /\ (~full => Len(line) + Len(xs) <= MAX_LINE)
    BY <1>1, <2>1
  <2> HIDE DEF full, xs
  <2> QED BY <2>1, <2>2, StoreFits
<1>3. ASSUME NEW n \in 2 .. 4, NEW got \in 1 .. n, NEW blank \in SUBSET (2 .. got),
             AppendChar(n, got, blank)
      PROVE  /\ ~truncated' /\ SpaceNear'
             /\ Len(line') <= MAX_LINE + 3
             /\ \A i \in 1 .. Len(out') : Len(out'[i]) <= MAX_LINE + 3
  <2> DEFINE full == Len(line) + n > MAX_LINE
             xs   == CharBytes(got, n, blank)
  <2>1. /\ full \in BOOLEAN /\ Numbered(xs) /\ Len(xs) = got
        /\ Store(full, xs) /\ ~stray
    <3>1. Numbered(xs) /\ Len(xs) = got
      BY CharIsNumbered
    <3>2. Store(full, xs) /\ stray' = stray
      BY <1>3 DEF AppendChar
    <3>3. full \in BOOLEAN
      OBVIOUS
    <3> QED BY <3>1, <3>2, <3>3
  <2>2. Len(xs) <= 4 /\ (~full => Len(line) + Len(xs) <= MAX_LINE)
    BY <1>1, <2>1
  <2> HIDE DEF full, xs
  <2> QED BY <2>1, <2>2, StoreFits
<1>4. ASSUME Flush
      PROVE  /\ ~truncated' /\ SpaceNear'
             /\ Len(line') <= MAX_LINE + 3
             /\ \A i \in 1 .. Len(out') : Len(out'[i]) <= MAX_LINE + 3
  <2>1. ~stray /\ line' = <<>> /\ truncated' = truncated /\ out' = out \o Flushed(line)
    BY <1>4 DEF Flush
  <2>2. SpaceNear'
    BY <2>1 DEF SpaceNear, Spaces
  <2>3. Len(line') <= MAX_LINE + 3
    BY <1>1, <2>1
  <2> QED BY <2>1, <2>2, <2>3, FlushedFits DEF Fits
<1>5. ASSUME NEW d \in 1 .. MaxLevel, OutputIndent(d)
      PROVE  /\ ~truncated' /\ SpaceNear'
             /\ Len(line') <= MAX_LINE + 3
             /\ \A i \in 1 .. Len(out') : Len(out'[i]) <= MAX_LINE + 3
  <2>1. ~stray /\ truncated' = truncated /\ out' = out \o Flushed(line)
    BY <1>5 DEF OutputIndent
  <2>2. PICK X, xs : Step(X, xs)
    BY <1>5, IndentSteps
  <2>3. Typed'
    BY <2>2, StepKeepsTypes
  <2>4. Len(line') <= MAX_LINE
    BY <1>5, IndentSteps
  <2>5. line' \in Seq(Byte) /\ Len(line') \in Nat
    BY <2>3, LenProperties DEF Typed
  <2>6. SpaceNear'
    <3> SUFFICES ASSUME NEW s \in Spaces(line') PROVE Len(line') - s < MAX_LINE
      BY DEF SpaceNear
    <3>1. s \in 1 .. Len(line')
      BY <2>5, LenProperties DEF Spaces
    <3> QED BY <1>1, <2>4, <2>5, <3>1
  <2>7. Len(line') <= MAX_LINE + 3
    BY <1>1, <2>4, <2>5
  <2> QED BY <2>1, <2>6, <2>7, FlushedFits DEF Fits
<1>6. ~AppendStray
  BY DEF AppendStray
<1> QED BY <1>2, <1>3, <1>4, <1>5, <1>6 DEF Next, AppendSpace

-----------------------------------------------------------------------------
(* The theorems.                                                           *)

Flags == truncated \in BOOLEAN /\ eof \in BOOLEAN /\ stray \in BOOLEAN

Inv ==
  /\ Typed /\ Fits /\ BytesKnown /\ InOrder
  /\ GivenBlack /\ NothingLost
  /\ CharTogether /\ CharsWhole
  /\ WordsWhole /\ EmptyAfter

LEMMA InitInv == Init => Inv /\ Flags
<1> SUFFICES ASSUME Init PROVE Inv /\ Flags
  OBVIOUS
<1>1. /\ line = <<>> /\ out = <<>> /\ given = {} /\ count = 0
      /\ truncated = FALSE /\ eof = FALSE /\ stray = FALSE
  BY DEF Init
<1>2. Typed /\ Flags
  <2>1. <<>> \in Seq(Byte) /\ <<>> \in Seq(Seq(Byte)) /\ Len(<<>>) = 0 /\ 0 < LINE_CAP
    BY SizesAssumption, EmptySeq
  <2>2. Typed
    BY <1>1, <2>1 DEF Typed
  <2> QED BY <1>1, <2>2 DEF Flags
<1>3. Len(Lines) = 1 /\ Lines[1] = <<>>
  BY <1>1, <1>2, LinesAre DEF Laid
<1>4. Fits
  BY <1>1, SizesAssumption DEF Fits, SpaceNear, Spaces
<1>5. BytesKnown /\ InOrder /\ CharTogether
  BY <1>1, <1>3 DEF BytesKnown, InOrder, CharTogether
<1>6. GivenBlack /\ NothingLost /\ WordsWhole /\ EmptyAfter
  BY <1>1 DEF GivenBlack, NothingLost, WordsWhole, EmptyAfter
<1>7. CharsWhole
  BY <1>3 DEF CharsWhole, BytesOf
<1> QED BY <1>2, <1>4, <1>5, <1>6, <1>7 DEF Inv

LEMMA NextInv == Inv /\ [Next]_vars => Inv'
<1> SUFFICES ASSUME Inv, [Next]_vars PROVE Inv'
  OBVIOUS
<1>1. CASE Next
  <2>1. PICK X, xs : Step(X, xs)
    BY <1>1, NextSteps DEF Inv
  <2>2. Added(X, xs)
    BY <2>1 DEF Step
  <2>3. Typed'
    BY <2>1, StepKeepsTypes DEF Inv
  <2>4. PICK last \in Nat, kept \in Nat, off \in Nat : Moved(last, kept, off, X)
    BY <2>1, StepMoves DEF Inv
  <2>5. Fits'
    BY <1>1, NextFits DEF Inv
  <2>6. BytesKnown' /\ InOrder'
    BY <2>2, <2>4, KeepsBytesKnown, KeepsInOrder DEF Inv
  <2>7. NothingLost' /\ GivenBlack'
    BY <2>2, <2>3, <2>4, KeepsNothingLost DEF Inv
  <2>8. CharTogether' /\ CharsWhole'
    BY <2>2, <2>3, <2>4, KeepsCharTogether, KeepsCharsWhole DEF Inv
  <2>9. WordsWhole' /\ EmptyAfter'
    BY <2>1, <2>3, KeepsWords, KeepsEmptyAfter DEF Inv
  <2> QED BY <2>3, <2>5, <2>6, <2>7, <2>8, <2>9 DEF Inv
<1>2. CASE UNCHANGED vars
  <2>1. UNCHANGED <<line, out, truncated, count, given, stray, Lines>>
    BY <1>2 DEF vars, Lines
  <2>2. Typed' /\ Fits' /\ EmptyAfter' /\ GivenBlack'
    BY <2>1 DEF Inv, Typed, Fits, SpaceNear, EmptyAfter, GivenBlack
  <2>3. BytesKnown' /\ InOrder'
    BY <2>1 DEF Inv, BytesKnown, InOrder
  <2>4. NothingLost' /\ CharTogether'
    BY <2>1 DEF Inv, NothingLost, CharTogether
  <2>5. CharsWhole'
    BY <2>1 DEF Inv, CharsWhole, BytesOf
  <2>6. WordsWhole'
    <3>1. (WordsWhole <=> \A i \in 1 .. Len(out) : Unbroken(out[i], Lines[i + 1]))'
      BY WordsAre, PTL
    <3>2. \A i \in 1 .. Len(out) : Unbroken(out[i], Lines[i + 1])
      BY WordsAre DEF Inv
    <3> QED BY <2>1, <3>1, <3>2
  <2> QED BY <2>2, <2>3, <2>4, <2>5, <2>6 DEF Inv
<1> QED BY <1>1, <1>2

LEMMA Invariant == Spec => []Inv
BY InitInv, NextInv, PTL DEF Spec

LEMMA NextFlags == Flags /\ [Next]_vars => Flags'
<1> SUFFICES ASSUME Flags, [Next]_vars PROVE Flags'
  OBVIOUS
<1>1. ASSUME NEW full, NEW xs, Store(full, xs) PROVE truncated' \in BOOLEAN
  BY <1>1, Zenon DEF Store
<1>2. ASSUME NEW isSpace \in BOOLEAN, AppendByte(isSpace) PROVE Flags'
  BY <1>1, <1>2 DEF AppendByte, Flags
<1>3. ASSUME NEW n \in 2 .. 4, NEW got \in 1 .. n, NEW blank, AppendChar(n, got, blank)
      PROVE  Flags'
  <2>1. eof' \in BOOLEAN
    BY <1>3 DEF AppendChar
  <2> QED BY <1>1, <1>3, <2>1 DEF AppendChar, Flags
<1>4. CASE AppendStray
  BY <1>1, <1>4 DEF AppendStray, Flags
<1>5. CASE Flush \/ \E d \in 1 .. MaxLevel : OutputIndent(d)
  BY <1>5 DEF Flush, OutputIndent, Flags
<1>6. CASE UNCHANGED vars
  BY <1>6 DEF vars, Flags
<1> QED BY <1>2, <1>3, <1>4, <1>5, <1>6 DEF Next, AppendSpace

(* The line never reaches the byte of its NUL, whatever is appended.       *)
THEOREM TypeCorrect == Spec => []TypeOK
<1>1. Spec => []Flags
  BY InitInv, NextFlags, PTL DEF Spec
<1>2. Inv /\ Flags => TypeOK
  BY DEF Inv, Flags, Typed, TypeOK
<1> QED BY <1>1, <1>2, Invariant, PTL

(* Every byte that is not a space is printed or still in the line, once    *)
(* and in the order in which it came, unless the program knows that its    *)
(* output was truncated.                                                   *)
THEOREM InputIsPrinted == Spec => []PrintsItsInput
<1>1. Inv => PrintsItsInput
  BY DEF Inv, PrintsItsInput
<1> QED BY <1>1, Invariant, PTL

(* No character is broken over two lines.                                  *)
THEOREM NoCharIsBroken == Spec => []CharsWhole
<1>1. Inv => CharsWhole
  BY DEF Inv
<1> QED BY <1>1, Invariant, PTL

(* A word is broken only if it fills a line.                               *)
THEOREM WordsAreBrokenWhenTooLong == Spec => []WordsWhole
<1>1. Inv => WordsWhole
  BY DEF Inv
<1> QED BY <1>1, Invariant, PTL

(* As long as every byte belongs to a character, lines have at most        *)
(* MAX_LINE + 3 bytes and nothing is truncated.                            *)
THEOREM LinesAreShort == Spec => []LinesFit
<1>1. Inv => LinesFit
  <2> SUFFICES ASSUME Inv, ~stray, NEW i \in 1 .. Len(Lines)
               PROVE  Len(Lines[i]) <= MAX_LINE + 3 /\ ~truncated
    BY DEF LinesFit, Inv, Fits
  <2>1. i \in 1 .. Len(out) \/ i = Len(out) + 1
    BY LinesAre DEF Inv, Laid
  <2> QED BY <2>1, LinesAre DEF Inv, Laid, Fits
<1> QED BY <1>1, Invariant, PTL

-----------------------------------------------------------------------------
(* The parser of j2t                                                       *)

Tokens == Openers \union Words \union Marks \union Chars \union Escapes \union Units \union {"EOF"}
Frames == [kind : Openers, depth : 0 .. MAX_DEPTH, flush : BOOLEAN]
Places == {"value", "literal", "first", "key", "colon", "keyvalue", "element", "next", "end",
           "ok", "error"}

ParserTypes ==
  /\ seen \in Seq(Tokens) /\ pb \in Seq(Tokens)
  /\ depth \in Nat /\ stack \in Seq(Frames)
  /\ at \in {"first", "key", "colon", "keyvalue", "element", "next"} => stack # <<>>

(* A string has no containers.                                             *)
StringInv ==
  IsText => stack = <<>> /\ \A i \in 1 .. Len(pb) : pb[i] \notin Openers

(* Of anything else at most the last token is put back.                    *)
TokensInv ==
  ~IsText => /\ pb = <<>> \/ (seen # <<>> /\ ~AtEnd /\ pb = <<Last(seen)>>)
             /\ at \in Places /\ (seen # <<>> => Last(seen) # "quote")
             /\ seen = <<>> => stack = <<>>

(* A container that is open lies no deeper than it was called, but for     *)
(* those that slipped.                                                     *)
OpenInv ==
  \A i \in 1 .. Len(stack) : i <= stack[i].depth + 1 + Slipped(seen)

(* So will the next one, or it is about to slip.                           *)
ValueInv ==
  (at = "value" /\ ~IsText /\ ~AtEnd) =>
    /\ pb # <<>> /\ Peek \in Openers => Len(stack) <= depth + Slipped(seen)
    /\ pb = <<>> \/ Peek = "blank" =>
         \/ Len(stack) <= depth + Slipped(seen)
         \/ /\ AfterCommaAndBlank(seen, Len(seen) + 1)
            /\ Len(stack) <= depth + 1 + Slipped(seen)

ElementInv ==
  (at = "element" /\ ~IsText /\ ~AtEnd) =>
    /\ pb = <<>> => seen # <<>> /\ Last(seen) = "comma"
    /\ pb = <<"blank">> => Len(seen) > 1 /\ seen[Len(seen) - 1] = "comma"

DepthInv ==
  ParserTypes /\ StringInv /\ TokensInv /\ OpenInv /\ ValueInv /\ ElementInv

-----------------------------------------------------------------------------
LEMMA SlipsCounted ==
  ASSUME NEW s \in Seq(Tokens)
  PROVE  /\ IsFiniteSet(Slips(s)) /\ Cardinality(Slips(s)) \in Nat
         /\ Slips(s) \subseteq 1 .. Len(s)
  <1>1. Slips(s) \subseteq 1 .. Len(s)
    BY DEF Slips
  <1>2. IsFiniteSet(1 .. Len(s))
    BY FS_Interval
  <1>3. IsFiniteSet(Slips(s))
    BY <1>1, <1>2, FS_Subset, Zenon
  <1> QED BY <1>1, <1>3, FS_CardinalityType

(* One more token: what slipped did, and a container after a comma and     *)
(* blanks does now.                                                        *)
LEMMA SlipsGrow ==
  ASSUME NEW s \in Seq(Tokens), NEW t \in Tokens
  PROVE  /\ Cardinality(Slips(s)) <= Cardinality(Slips(Append(s, t)))
         /\ t \notin Openers => Slips(Append(s, t)) = Slips(s)
         /\ t \in Openers /\ AfterCommaAndBlank(s, Len(s) + 1) =>
              Cardinality(Slips(Append(s, t))) = Cardinality(Slips(s)) + 1
  <1> DEFINE r == Append(s, t)
  <1>1. r \in Seq(Tokens) /\ Len(r) = Len(s) + 1 /\ Len(s) \in Nat
    OBVIOUS
  <1>2. (\A i \in 1 .. Len(s) : r[i] = s[i]) /\ r[Len(s) + 1] = t
    OBVIOUS
  <1>3. ASSUME NEW i \in 1 .. Len(s) + 1
        PROVE  AfterCommaAndBlank(r, i) <=> AfterCommaAndBlank(s, i)
    <2>1. \A j \in 1 .. (i - 1) : r[j] = s[j] /\ j \in 1 .. Len(s)
      BY <1>1, <1>2
    <2>2. \A j \in 1 .. (i - 2) : /\ j \in 1 .. (i - 1)
                                 /\ \A k \in (j + 1) .. (i - 1) : k \in 1 .. (i - 1)
      BY <1>1
    <2> HIDE DEF r
    <2> QED BY <2>1, <2>2 DEF AfterCommaAndBlank
  <1>4. (\A i \in 1 .. Len(s) : i \in Slips(r) <=> i \in Slips(s))
        /\ (Len(s) + 1 \in Slips(r) <=> t \in Openers /\ AfterCommaAndBlank(s, Len(s) + 1))
    <2>1. DOMAIN r = 1 .. Len(s) + 1 /\ DOMAIN s = 1 .. Len(s)
      BY <1>1
    <2>2. \A i \in 1 .. Len(s) : i \in 1 .. Len(s) + 1
      BY <1>1
    <2>3. Len(s) + 1 \in 1 .. Len(s) + 1
      BY <1>1
    <2> HIDE DEF r
    <2> QED BY <1>2, <1>3, <2>1, <2>2, <2>3 DEF Slips
  <1>5. Slips(r) \subseteq Slips(s) \cup {Len(s) + 1} /\ Slips(s) \subseteq Slips(r)
    <2>1. Slips(r) \subseteq 1 .. Len(r) /\ Slips(s) \subseteq 1 .. Len(s)
      BY <1>1, SlipsCounted
    <2> HIDE DEF r
    <2> QED BY <1>1, <1>4, <2>1
  <1>6. Len(s) + 1 \notin Slips(s)
    BY <1>1, SlipsCounted
  <1>7. Cardinality(Slips(s)) <= Cardinality(Slips(r))
    BY <1>1, <1>5, SlipsCounted, FS_Subset
  <1>8. t \notin Openers => Slips(r) = Slips(s)
    BY <1>4, <1>5
  <1>9. ASSUME t \in Openers, AfterCommaAndBlank(s, Len(s) + 1)
        PROVE  Cardinality(Slips(r)) = Cardinality(Slips(s)) + 1
    <2>1. Slips(r) = Slips(s) \cup {Len(s) + 1}
      BY <1>4, <1>5, <1>9
    <2> QED BY <1>6, <2>1, SlipsCounted, FS_AddElement
  <1> QED BY <1>7, <1>8, <1>9

LEMMA FrontFacts ==
  ASSUME NEW S, NEW s \in Seq(S), s # <<>>
  PROVE  /\ Len(s) \in Nat /\ Len(s) > 0
         /\ Front(s) \in Seq(S) /\ Len(Front(s)) = Len(s) - 1
         /\ \A i \in 1 .. Len(s) - 1 : Front(s)[i] = s[i]
  <1> DEFINE n == Len(s) - 1
  <1>1. Len(s) \in Nat /\ Len(s) # 0
    OBVIOUS
  <1>2. n \in Nat
    BY <1>1
  <1>3. \A i \in 1 .. n : s[i] \in S
    BY <1>1
  <1>4. Front(s) = SubSeq(s, 1, n)
    BY DEF Front
  <1> HIDE DEF n
  <1>5. /\ n - 1 + 1 = n /\ (IF 1 <= n THEN n - 1 + 1 ELSE 0) = n
        /\ \A i \in 1 .. n : 1 + i - 1 = i
    BY <1>2
  <1>6. /\ SubSeq(s, 1, n) \in Seq(S) /\ Len(SubSeq(s, 1, n)) = n
        /\ \A i \in 1 .. n : SubSeq(s, 1, n)[i] = s[i]
    BY <1>2, <1>3, <1>5, SubSeqProperties
  <1>7. n = Len(s) - 1
    BY DEF n
  <1> QED BY <1>1, <1>4, <1>6, <1>7

LEMMA LastAppended ==
  ASSUME NEW S, NEW s \in Seq(S), s # <<>>
  PROVE  Append(Front(s), Last(s)) = s /\ Last(s) \in S
  <1>1. /\ Len(s) \in Nat /\ Len(s) > 0 /\ Front(s) \in Seq(S) /\ Len(Front(s)) = Len(s) - 1
        /\ \A i \in 1 .. Len(s) - 1 : Front(s)[i] = s[i]
    BY FrontFacts
  <1>2. s[Len(s)] \in S /\ Last(s) = s[Len(s)]
    BY <1>1 DEF Last
  <1> DEFINE r == Append(Front(s), Last(s))
  <1>3. /\ r \in Seq(S) /\ Len(r) = Len(s)
        /\ \A i \in 1 .. Len(s) : r[i] = IF i = Len(s) THEN s[Len(s)] ELSE Front(s)[i]
    BY <1>1, <1>2
  <1>4. \A i \in 1 .. Len(s) : r[i] = s[i]
    <2> HIDE DEF r
    <2> QED BY <1>1, <1>3
  <1>5. r = s
    <2> HIDE DEF r
    <2> QED BY <1>3, <1>4, SeqEqual
  <1> QED BY <1>2, <1>5

(* One byte is taken, or none.                                             *)
LEMMA GetIsTyped ==
  ASSUME ParserTypes, StringInv, TokensInv
  PROVE  /\ Get \in Seq(Tokens)
         /\ IsText => \A i \in 1 .. Len(Get) : Get[i] \notin Openers
         /\ ~IsText => Get = <<>>
  <1>1. CASE pb = <<>>
    BY <1>1 DEF Get
  <1>2. CASE pb # <<>>
    <2>1. Get = Front(pb)
      BY <1>2 DEF Get
    <2>2. /\ Front(pb) \in Seq(Tokens) /\ Len(Front(pb)) = Len(pb) - 1 /\ Len(pb) \in Nat
          /\ \A i \in 1 .. Len(pb) - 1 : Front(pb)[i] = pb[i]
      <3> HIDE DEF Tokens
      <3> QED BY <1>2, FrontFacts DEF ParserTypes
    <2>3. \A i \in 1 .. Len(Front(pb)) : i \in 1 .. Len(pb)
      BY <2>2
    <2>4. ASSUME ~IsText PROVE Front(pb) = <<>>
      <3>1. Len(pb) = 1
        BY <1>2, <2>4 DEF TokensInv
      <3>2. Len(Front(pb)) = 0
        BY <2>2, <3>1
      <3> QED BY <2>2, <3>2, EmptySeq
    <2> QED BY <2>1, <2>2, <2>3, <2>4 DEF StringInv
  <1> QED BY <1>1, <1>2

LEMMA PbSteps ==
  ASSUME ParserTypes, StringInv, TokensInv, Take \/ Keep, seen' = seen
  PROVE  /\ pb' \in Seq(Tokens) /\ (IsText' <=> IsText) /\ (AtEnd' <=> AtEnd)
         /\ IsText => \A i \in 1 .. Len(pb') : pb'[i] \notin Openers
         /\ ~IsText => pb' \in {pb, <<>>} /\ (Take => pb' = <<>>)
  <1>1. (IsText' <=> IsText) /\ (AtEnd' <=> AtEnd)
    BY DEF IsText, AtEnd
  <1>2. CASE Take
    BY <1>1, <1>2, GetIsTyped DEF Take
  <1>3. CASE Keep /\ ~Take
    BY <1>1, <1>3 DEF Keep, ParserTypes, StringInv
  <1> QED BY <1>2, <1>3

LEMMA StackTypes ==
  ASSUME ParserTypes
  PROVE  /\ Len(stack) \in Nat
         /\ \A i \in 1 .. Len(stack) : stack[i].depth \in Nat /\ stack[i].depth <= MAX_DEPTH
  <1>1. stack \in Seq(Frames)
    BY DEF ParserTypes
  <1>2. \A i \in 1 .. Len(stack) : stack[i] \in Frames
    BY <1>1
  <1> QED BY <1>1, <1>2, J2tAssumption DEF Frames

-----------------------------------------------------------------------------
(* The file gives one token more.                                          *)
LEMMA FetchKeepsInv ==
  ASSUME DepthInv, Fetch PROVE DepthInv'
  <1> USE DEF DepthInv
  <1>1. PICK t \in Offered : seen' = Append(seen, t) /\ pb' = IF t = "EOF" THEN <<>> ELSE <<t>>
    BY DEF Fetch
  <1>2. /\ pb = <<>> /\ ~AtEnd /\ UNCHANGED <<at, depth, stack>>
    BY DEF Fetch
  <1>3. t \in Tokens
    <2>1. {t1 \in {"quote"} : seen = <<>>} \subseteq Chars
      BY DEF Chars
    <2>2. Units \cup {"x"} \subseteq Tokens /\ Chars \cup Escapes \subseteq Tokens
          /\ Marks \cup Words \subseteq Tokens /\ "EOF" \in Tokens
      BY DEF Tokens, Chars
    <2> HIDE DEF Tokens
    <2> QED BY <1>1, <2>1, <2>2 DEF Offered
  <1>4. /\ seen' \in Seq(Tokens) /\ Len(seen') = Len(seen) + 1 /\ Len(seen) \in Nat
        /\ seen'[Len(seen')] = t /\ seen' # <<>> /\ (seen # <<>> => seen'[Len(seen)] = Last(seen))
        /\ seen # <<>> => seen'[1] = seen[1]
    <2> HIDE DEF Tokens
    <2> QED BY <1>1, <1>3 DEF ParserTypes, Last
  <1>5. ParserTypes'
    BY <1>1, <1>2, <1>3, <1>4 DEF ParserTypes
  <1>6. /\ Last(seen') = t
        /\ AtEnd' <=> t = "EOF"
    BY <1>4 DEF Last, AtEnd
  <1>7. /\ IsText => IsText'
        /\ IsText' /\ ~IsText => seen = <<>>
        /\ seen = <<>> => ~IsText
    BY <1>4 DEF IsText
  <1>8. StringInv'
    <2> SUFFICES ASSUME IsText'
                 PROVE  stack' = <<>> /\ \A i \in 1 .. Len(pb') : pb'[i] \notin Openers
      BY DEF StringInv
    <2>1. stack' = <<>>
      BY <1>2, <1>7 DEF StringInv, TokensInv
    <2>2. t \notin Openers
      <3>1. CASE IsText
        BY <1>1, <3>1 DEF Offered, Chars, Escapes, Units, Openers
      <3>2. CASE ~IsText
        <4>1. t = "quote"
          BY <1>4, <1>7, <3>2 DEF IsText
        <4> QED BY <4>1 DEF Openers
      <3> QED BY <3>1, <3>2
    <2> QED BY <1>1, <2>1, <2>2
  <1>9. TokensInv'
    <2> SUFFICES ASSUME ~IsText' PROVE TokensInv'
      BY DEF TokensInv
    <2>1. ~IsText /\ at \in Places
      BY <1>7 DEF TokensInv
    <2>2. t # "quote"
      <3>1. CASE seen = <<>>
        BY <1>4, <3>1 DEF IsText
      <3>2. CASE seen # <<>>
        BY <1>1, <2>1, <3>2 DEF Offered, Words, Marks, Openers
      <3> QED BY <3>1, <3>2
    <2> QED BY <1>1, <1>2, <1>4, <1>6, <2>1, <2>2 DEF TokensInv
  <1>10. /\ Slipped(seen) \in Nat /\ Slipped(seen') \in Nat /\ Slipped(seen) <= Slipped(seen')
         /\ t \in Openers /\ AfterCommaAndBlank(seen, Len(seen) + 1)
              => Slipped(seen') = Slipped(seen) + 1
    <2>1. seen \in Seq(Tokens)
      BY DEF ParserTypes
    <2> HIDE DEF Tokens
    <2> QED BY <1>1, <1>3, <1>4, <2>1, SlipsGrow, SlipsCounted DEF Slipped
  <1>11. OpenInv'
    <2> SUFFICES ASSUME NEW i \in 1 .. Len(stack) PROVE i <= stack[i].depth + 1 + Slipped(seen')
      BY <1>2 DEF OpenInv
    <2>1. stack[i].depth \in Nat
      BY StackTypes
    <2>2. i <= stack[i].depth + 1 + Slipped(seen)
      BY DEF OpenInv
    <2> QED BY <1>10, <2>1, <2>2
  <1>12. ValueInv'
    <2> SUFFICES ASSUME at = "value", ~IsText', t # "EOF"
                 PROVE  /\ t \in Openers => Len(stack) <= depth + Slipped(seen')
                        /\ t = "blank" => \/ Len(stack) <= depth + Slipped(seen')
                                      \/ /\ AfterCommaAndBlank(seen', Len(seen') + 1)
                                         /\ Len(stack) <= depth + 1 + Slipped(seen')
      BY <1>1, <1>2, <1>6 DEF ValueInv, Peek, Last
    <2>1. \/ Len(stack) <= depth + Slipped(seen)
          \/ /\ AfterCommaAndBlank(seen, Len(seen) + 1)
             /\ Len(stack) <= depth + 1 + Slipped(seen)
      BY <1>2, <1>7 DEF ValueInv
    <2>2. Len(stack) \in Nat /\ depth \in Nat
      BY DEF ParserTypes
    <2>3. CASE Len(stack) <= depth + Slipped(seen)
      <3>1. Len(stack) <= depth + Slipped(seen')
        BY <1>10, <2>2, <2>3
      <3> QED BY <3>1
    <2>4. CASE /\ AfterCommaAndBlank(seen, Len(seen) + 1)
               /\ Len(stack) <= depth + 1 + Slipped(seen)
      <3>1. t = "blank" => AfterCommaAndBlank(seen', Len(seen') + 1)
        <4>1. PICK j \in 1 .. (Len(seen) + 1) - 2 :
                seen[j] = "comma" /\ \A k \in (j + 1) .. (Len(seen) + 1) - 1 : seen[k] = "blank"
          BY <2>4 DEF AfterCommaAndBlank
        <4>2. \A k \in 1 .. Len(seen) : seen'[k] = seen[k]
          <5> HIDE DEF Tokens
          <5> QED BY <1>1, <1>3 DEF ParserTypes
        <4>3. CASE t = "blank"
          <5>1. j \in 1 .. Len(seen) /\ j \in 1 .. (Len(seen') + 1) - 2
            BY <1>4
          <5>2. seen'[j] = "comma"
            BY <4>1, <4>2, <5>1
          <5>3. ASSUME NEW k \in (j + 1) .. (Len(seen') + 1) - 1 PROVE seen'[k] = "blank"
            <6>1. CASE k = Len(seen')
              BY <1>4, <4>3, <6>1
            <6>2. CASE k # Len(seen')
              <7>1. k \in 1 .. Len(seen) /\ k \in (j + 1) .. (Len(seen) + 1) - 1
                BY <1>4, <5>1, <6>2
              <7> QED BY <4>1, <4>2, <7>1
            <6> QED BY <6>1, <6>2
          <5> QED BY <5>1, <5>2, <5>3 DEF AfterCommaAndBlank
        <4> QED BY <4>3
      <3>2. CASE t \in Openers
        <4>1. Slipped(seen') = Slipped(seen) + 1
          BY <1>10, <2>4, <3>2
        <4>2. Len(stack) <= depth + Slipped(seen')
          BY <1>10, <2>2, <2>4, <4>1
        <4> QED BY <4>2
      <3>3. CASE t \notin Openers
        <4>1. Len(stack) <= depth + 1 + Slipped(seen')
          BY <1>10, <2>2, <2>4
        <4> QED BY <3>1, <3>3, <4>1
      <3> QED BY <3>2, <3>3
    <2> QED BY <2>1, <2>3, <2>4
  <1>13. ElementInv'
    <2> SUFFICES ASSUME at = "element", ~IsText', t # "EOF"
                 PROVE  Len(seen') > 1 /\ seen'[Len(seen') - 1] = "comma"
      BY <1>1, <1>2, <1>6 DEF ElementInv
    <2>1. seen # <<>> /\ Last(seen) = "comma"
      BY <1>2, <1>7 DEF ElementInv
    <2>2. Len(seen) > 0
      <3>1. seen \in Seq(Tokens)
        BY DEF ParserTypes
      <3>2. seen # <<>>
        BY <2>1
      <3>3. Len(seen) # 0
        BY <3>1, <3>2, EmptySeq, Zenon
      <3> QED BY <1>4, <3>3
    <2>3. Len(seen') > 1 /\ Len(seen') - 1 = Len(seen)
      BY <1>4, <2>2
    <2> QED BY <1>4, <2>1, <2>3
  <1> QED BY <1>5, <1>8, <1>9, <1>11, <1>12, <1>13

(* What is put back in a string is part of it.                             *)
LEMMA PutBack ==
  ASSUME NEW p \in Seq(Tokens), \A i \in 1 .. Len(p) : p[i] \notin Openers,
         NEW t \in Tokens, t \notin Openers
  PROVE  /\ Unget(p, t) \in Seq(Tokens)
         /\ \A i \in 1 .. Len(Unget(p, t)) : Unget(p, t)[i] \notin Openers
  <1>1. /\ Append(p, t) \in Seq(Tokens)
        /\ \A i \in 1 .. Len(Append(p, t)) : Append(p, t)[i] \notin Openers
    <2>1. Len(Append(p, t)) = Len(p) + 1 /\ Len(p) \in Nat
      OBVIOUS
    <2>2. ASSUME NEW i \in 1 .. Len(p) + 1 PROVE Append(p, t)[i] \notin Openers
      <3>1. CASE i = Len(p) + 1
        BY <3>1
      <3>2. CASE i # Len(p) + 1
        BY <3>2
      <3> QED BY <3>1, <3>2
    <2> QED BY <2>1, <2>2
  <1>2. Unget(p, t) \in {p, Append(p, t)}
    BY DEF Unget
  <1> QED BY <1>1, <1>2

-----------------------------------------------------------------------------
(* The decoder works on strings only.                                      *)
LEMMA DecodesText ==
  ASSUME DepthInv, Decode PROVE IsText
  <1> SUFFICES ASSUME ~IsText PROVE FALSE
    OBVIOUS
  <1>1. at \in Places /\ Peek # "quote"
    BY DEF DepthInv, TokensInv, Peek, Last
  <1>2. at \notin {"text", "escape", "unit", "pair", "pairu", "low"}
    BY <1>1 DEF Places
  <1> QED BY <1>1, <1>2 DEF Decode, OpenString, Text, CloseString, Escape, Unit, Pair, PairU, Low,
          BadString, Looks

LEMMA DecodeKeepsInv ==
  ASSUME DepthInv, Ready, Decode PROVE DepthInv'
  <1> USE DEF DepthInv
  <1>1. IsText
    BY DecodesText
  <1>2. stack = <<>>
    BY <1>1 DEF StringInv
  <1>3. /\ seen' = seen /\ stack' = <<>> /\ depth' = depth
        /\ at' \in {"text", "escape", "unit", "pair", "pairu", "low", "end", "error"}
    <2>1. ASSUME NEW where \in {"text", "escape", "unit", "pair", "pairu", "low"},
                 NEW p, Goes(where, p)
          PROVE  /\ UNCHANGED <<seen, stack, depth>>
                 /\ at' \in {"text", "escape", "unit", "pair", "pairu", "low", "end", "error"}
      BY <2>1 DEF Goes
    <2>2. CASE Fail
      BY <1>2, <2>2 DEF Fail
    <2>3. CASE CloseString
      BY <1>2, <2>3 DEF CloseString, ValueEnds
    <2>4. CASE OpenString \/ Text \/ Escape
      BY <1>2, <2>1, <2>4 DEF OpenString, Text, Escape
    <2>5. CASE Unit \/ Pair \/ PairU \/ Low
      BY <1>2, <2>1, <2>5 DEF Unit, Pair, PairU, Low, Units
    <2> QED BY <2>2, <2>3, <2>4, <2>5 DEF Decode, BadString
  <1>4. pb' \in Seq(Tokens) /\ \A i \in 1 .. Len(pb') : pb'[i] \notin Openers
    <2>1. CASE Take \/ Keep
      BY <1>1, <1>3, <2>1, PbSteps
    <2>2. CASE pb' = Unget(pb, "backslash")
      BY <1>1, <2>2, PutBack DEF ParserTypes, StringInv, Tokens, Chars, Openers
    <2>3. CASE Peek \in Units /\ pb' = UnreadEscape(Peek)
      <3>1. Get \in Seq(Tokens) /\ \A i \in 1 .. Len(Get) : Get[i] \notin Openers
        BY <1>1, GetIsTyped
      <3> DEFINE p1 == Unget(Get, Peek)
                 p2 == Unget(p1, "u")
      <3>2. /\ Peek \in Tokens /\ Peek \notin Openers 
            /\ "u" \in Tokens /\ "u" \notin Openers
            /\ "backslash" \in Tokens /\ "backslash" \notin Openers
        BY <2>3 DEF Tokens, Openers, Units, Chars, Escapes
      <3>3. p1 \in Seq(Tokens) /\ \A i \in 1 .. Len(p1) : p1[i] \notin Openers
        BY <3>1, <3>2, PutBack
      <3>4. p2 \in Seq(Tokens) /\ \A i \in 1 .. Len(p2) : p2[i] \notin Openers
        <4> HIDE DEF p1
        <4> QED BY <3>2, <3>3, PutBack
      <3>5. pb' = Unget(p2, "backslash")
        BY <2>3 DEF UnreadEscape
      <3> HIDE DEF p2
      <3> QED BY <3>2, <3>4, <3>5, PutBack
    <2>4. \/ Take \/ Keep \/ pb' = Unget(pb, "backslash")
          \/ Peek \in Units /\ pb' = UnreadEscape(Peek)
      BY DEF Decode, OpenString, Text, CloseString, Escape, Unit, Pair, PairU, Low,
            BadString, Fail
    <2> QED BY <2>1, <2>2, <2>3, <2>4
  <1>5. IsText'
    BY <1>1, <1>3 DEF IsText
  <1>6. ParserTypes' /\ StringInv' /\ OpenInv'
    BY <1>3, <1>4 DEF ParserTypes, StringInv, OpenInv
  <1> QED BY <1>5, <1>6 DEF TokensInv, ValueInv, ElementInv

-----------------------------------------------------------------------------
(* The stack keeps its lower part.                                         *)
LEMMA StackShrinks ==
  ASSUME DepthInv, seen' = seen,
         \/ stack' = stack
         \/ stack # <<>> /\ stack' = Front(stack)
  PROVE  /\ stack' \in Seq(Frames) /\ OpenInv' /\ (IsText => stack' = <<>>)
         /\ seen = <<>> => stack' = <<>>
  <1> USE DEF DepthInv
  <1>1. stack \in Seq(Frames) /\ (IsText => stack = <<>>) /\ (seen = <<>> => stack = <<>>)
    BY DEF ParserTypes, StringInv, TokensInv, IsText
  <1>2. CASE stack' = stack
    BY <1>1, <1>2 DEF OpenInv
  <1>3. CASE stack # <<>> /\ stack' = Front(stack)
    <2>1. /\ Len(stack) \in Nat /\ stack' \in Seq(Frames) /\ Len(stack') = Len(stack) - 1
          /\ \A i \in 1 .. Len(stack) - 1 : stack'[i] = stack[i]
      <3> HIDE DEF Frames
      <3> QED BY <1>1, <1>3, FrontFacts
    <2>2. ASSUME NEW i \in 1 .. Len(stack') PROVE i <= stack'[i].depth + 1 + Slipped(seen')
      <3>1. i \in 1 .. Len(stack) /\ stack'[i] = stack[i]
        BY <2>1
      <3> QED BY <3>1 DEF OpenInv
    <2> QED BY <1>1, <1>3, <2>1, <2>2 DEF OpenInv
  <1> QED BY <1>2, <1>3

(* A step of the parser after which no value is due.                       *)
LEMMA QuietKeepsInv ==
  ASSUME DepthInv, Ready, seen' = seen, Take \/ Keep, depth' = depth,
         \/ stack' = stack
         \/ stack # <<>> /\ stack' = Front(stack),
         at' \in Places \ {"value", "element"},
         at' \in {"first", "key", "colon", "keyvalue", "next"} => stack' # <<>>
  PROVE  DepthInv'
  <1> USE DEF DepthInv
  <1>1. /\ pb' \in Seq(Tokens) /\ (IsText' <=> IsText)
        /\ IsText => \A i \in 1 .. Len(pb') : pb'[i] \notin Openers
        /\ ~IsText => pb' \in {pb, <<>>}
        /\ AtEnd' <=> AtEnd
    BY PbSteps
  <1>2. ParserTypes' /\ OpenInv' /\ StringInv' /\ TokensInv'
    BY <1>1, StackShrinks DEF ParserTypes, StringInv, TokensInv
  <1> QED BY <1>2 DEF ValueInv, ElementInv

LEMMA ReadyFacts ==
  ASSUME DepthInv, Ready
  PROVE  /\ seen # <<>> /\ (pb = <<>> => AtEnd /\ Peek = "EOF")
         /\ pb # <<>> /\ ~IsText => pb = <<Peek>> /\ Peek = Last(seen) /\ ~AtEnd
         /\ IsText => Peek \notin Openers
  <1> USE DEF DepthInv
  <1>1. seen # <<>>
    BY DEF Ready, AtEnd, TokensInv, IsText
  <1>2. pb = <<>> => AtEnd /\ Peek = "EOF"
    BY DEF Ready, Peek
  <1>3. ASSUME pb # <<>>, ~IsText PROVE pb = <<Peek>> /\ Peek = Last(seen) /\ ~AtEnd
    <2>1. pb = <<Last(seen)>> /\ ~AtEnd
      BY <1>3 DEF TokensInv
    <2>2. Peek = Last(seen)
      BY <2>1 DEF Peek, Last
    <2> QED BY <2>1, <2>2
  <1>4. ASSUME IsText PROVE Peek \notin Openers
    <2>1. CASE pb = <<>>
      BY <1>2, <2>1 DEF Openers
    <2>2. CASE pb # <<>>
      <3>1. Len(pb) \in 1 .. Len(pb)
        BY <2>2, FrontFacts DEF ParserTypes
      <3>2. Peek = pb[Len(pb)]
        BY <2>2 DEF Peek, Last
      <3> QED BY <1>4, <3>1, <3>2 DEF StringInv
    <2> QED BY <2>1, <2>2
  <1> QED BY <1>1, <1>2, <1>3, <1>4

-----------------------------------------------------------------------------
(* A container is opened.                                                  *)
LEMMA OpenKeepsInv ==
  ASSUME DepthInv, Open PROVE DepthInv'
  <1> USE DEF DepthInv
  <1> DEFINE frame == [kind |-> Peek, depth |-> depth, flush |-> FALSE]
  <1>1. /\ at = "value" /\ at' = "first" /\ Ready /\ Take /\ Peek \in Openers
        /\ stack' = Append(stack, frame) /\ depth <= MAX_DEPTH /\ UNCHANGED <<seen, depth>>
    BY DEF Open, Looks, OpenAllowed
  <1>2. ~IsText /\ pb # <<>> /\ seen # <<>> /\ ~AtEnd
    BY <1>1, ReadyFacts DEF Openers
  <1>3. /\ pb' = <<>> /\ ~IsText' /\ ~AtEnd'
    BY <1>1, <1>2, PbSteps
  <1>4. depth \in Nat /\ depth \in 0 .. MAX_DEPTH
    BY <1>1, J2tAssumption DEF ParserTypes
  <1>5. frame \in Frames /\ frame.depth = depth
    BY <1>1, <1>4 DEF Frames
  <1>6. /\ stack' \in Seq(Frames) /\ Len(stack') = Len(stack) + 1 /\ Len(stack) \in Nat
        /\ stack'[Len(stack) + 1] = frame /\ stack' # <<>>
        /\ \A i \in 1 .. Len(stack) : stack'[i] = stack[i]
    <2>1. stack \in Seq(Frames)
      BY DEF ParserTypes
    <2> HIDE DEF Frames, frame
    <2> QED BY <1>1, <1>5, <2>1
  <1>7. Len(stack) <= depth + Slipped(seen) /\ Slipped(seen) \in Nat
    <2>1. seen \in Seq(Tokens)
      BY DEF ParserTypes
    <2>2. Slipped(seen) \in Nat
      BY <2>1, SlipsCounted DEF Slipped
    <2> QED BY <1>1, <1>2, <2>2 DEF ValueInv
  <1>8. OpenInv'
    <2> SUFFICES ASSUME NEW i \in 1 .. Len(stack')
                 PROVE  i <= stack'[i].depth + 1 + Slipped(seen)
      BY <1>1 DEF OpenInv
    <2>1. CASE i = Len(stack) + 1
      <3>1. stack'[i].depth = depth
        BY <1>5, <1>6, <2>1
      <3> HIDE DEF frame
      <3> QED BY <1>4, <1>6, <1>7, <2>1, <3>1
    <2>2. CASE i # Len(stack) + 1
      <3>1. i \in 1 .. Len(stack) /\ stack'[i] = stack[i]
        BY <1>6, <2>2
      <3> QED BY <3>1 DEF OpenInv
    <2> QED BY <2>1, <2>2
  <1>9. ParserTypes'
    BY <1>1, <1>3, <1>6 DEF ParserTypes
  <1>10. StringInv' /\ TokensInv'
    BY <1>1, <1>2, <1>3, <1>6 DEF StringInv, TokensInv, Places
  <1> QED BY <1>1, <1>8, <1>9, <1>10 DEF ValueInv, ElementInv

(* The value of a member is due: at the depth of its container, or one     *)
(* deeper if it is seen to be a container.                                 *)
LEMMA StartMemberKeepsInv ==
  ASSUME DepthInv, Ready, NEW p, StartMember(p),
         \/ at = "keyvalue" /\ Peek # "blank"
         \/ at = "element"
  PROVE  DepthInv'
  <1> USE DEF DepthInv
  <1> DEFINE k == Len(stack)
  <1>0. stack # <<>> /\ stack \in Seq(Frames) /\ ~IsText
    <2>1. stack # <<>> /\ stack \in Seq(Frames)
      BY DEF ParserTypes
    <2>2. ~IsText
      BY <2>1 DEF StringInv
    <2> QED BY <2>1, <2>2
  <1>1. /\ depth' = IF Peek \in Openers THEN stack[k].depth + 1 ELSE stack[k].depth
        /\ at' = "value" /\ Keep /\ seen' = seen
    BY DEF StartMember, Top, Last
  <1>2. k \in Nat /\ k > 0 /\ stack[k].depth \in Nat /\ k <= stack[k].depth + 1 + Slipped(seen)
    <2>1. k \in 1 .. Len(stack)
      BY <1>0, FrontFacts
    <2> QED BY <2>1, StackTypes DEF OpenInv
  <1>3. /\ stack' \in Seq(Frames) /\ Len(stack') = k /\ stack' # <<>>
        /\ \A i \in 1 .. k : stack'[i].depth = stack[i].depth
    <2> DEFINE top == [stack[k] EXCEPT !.flush = ~(Peek \in Openers)]
    <2>1. stack[k] \in Frames
      BY <1>0, <1>2
    <2>2. top \in Frames /\ top.depth = stack[k].depth
      BY <2>1 DEF Frames
    <2>3. stack' = [stack EXCEPT ![k] = top]
      BY DEF StartMember
    <2> HIDE DEF top, k
    <2>4. DOMAIN stack = 1 .. k /\ k = Len(stack)
      BY <1>0 DEF k
    <2>5. stack' \in Seq(Frames) /\ Len(stack') = k
      <3> HIDE DEF Frames
      <3> QED BY <1>0, <1>2, <2>2, <2>3, <2>4, ExceptSeq
    <2>6. \A i \in 1 .. k : stack'[i] = IF i = k THEN top ELSE stack[i]
      BY <1>0, <2>3, <2>4
    <2>7. stack' # <<>>
      <3>1. Len(stack') # 0
        BY <1>2, <2>5
      <3> QED BY <2>5, <3>1, EmptySeq, Zenon
    <2>8. ASSUME NEW i \in 1 .. k PROVE stack'[i].depth = stack[i].depth
      <3>1. CASE i = k
        BY <2>2, <2>6, <3>1
      <3>2. CASE i # k
        BY <2>6, <3>2
      <3> QED BY <3>1, <3>2
    <2> QED BY <2>5, <2>7, <2>8 DEF k
  <1>4. /\ pb' = pb /\ ~IsText' /\ (AtEnd' <=> AtEnd) /\ Peek' = Peek
    BY <1>0, <1>1, PbSteps DEF Keep, Peek
  <1>5. seen # <<>> /\ (pb # <<>> => pb = <<Peek>>) /\ (pb = <<>> => AtEnd)
    BY <1>0, ReadyFacts
  <1>6. ParserTypes' /\ OpenInv'
    <2>1. depth' \in Nat
      BY <1>1, <1>2
    <2>2. OpenInv'
      BY <1>1, <1>3 DEF OpenInv
    <2> QED BY <1>1, <1>3, <1>4, <2>1, <2>2 DEF ParserTypes
  <1>7. StringInv' /\ TokensInv'
    BY <1>0, <1>1, <1>4, <1>5 DEF StringInv, TokensInv, Places
  <1>8. ValueInv'
    <2> SUFFICES ASSUME ~AtEnd
                 PROVE  /\ Peek \in Openers => k <= depth' + Slipped(seen)
                        /\ Peek = "blank" => /\ AfterCommaAndBlank(seen, Len(seen) + 1)
                                         /\ k <= depth' + 1 + Slipped(seen)
      BY <1>1, <1>3, <1>4, <1>5 DEF ValueInv
    <2>1. Slipped(seen) \in Nat
      <3>1. seen \in Seq(Tokens)
        BY DEF ParserTypes
      <3> QED BY <3>1, SlipsCounted DEF Slipped
    <2>2. CASE Peek \in Openers
      <3>1. k <= depth' + Slipped(seen)
        BY <1>1, <1>2, <2>1, <2>2
      <3> QED BY <2>2, <3>1 DEF Openers
    <2>3. CASE Peek = "blank"
      <3>1. at = "element" /\ pb = <<"blank">>
        BY <1>5, <2>3
      <3>2. Len(seen) > 1 /\ seen[Len(seen) - 1] = "comma"
        BY <1>0, <3>1 DEF ElementInv
      <3>3. seen[Len(seen)] = "blank"
        BY <1>0, <2>3, <3>1, ReadyFacts DEF Last
      <3>4. Len(seen) \in Nat
        BY DEF ParserTypes
      <3> DEFINE n == Len(seen)
      <3>5. n \in Nat /\ n > 1 /\ seen[n] = "blank" /\ seen[n - 1] = "comma"
        BY <3>2, <3>3, <3>4
      <3> HIDE DEF n
      <3>6. AfterCommaAndBlank(seen, n + 1)
        <4>1. n - 1 \in 1 .. (n + 1) - 2
          BY <3>5
        <4>2. ASSUME NEW i \in (n - 1) + 1 .. (n + 1) - 1 PROVE seen[i] = "blank"
          <5>1. i = n
            BY <3>5
          <5> QED BY <3>5, <5>1
        <4> QED BY <3>5, <4>1, <4>2 DEF AfterCommaAndBlank
      <3>7. Peek \notin Openers
        BY <2>3 DEF Openers
      <3>8. k <= depth' + 1 + Slipped(seen)
        BY <1>1, <1>2, <2>1, <3>7
      <3> QED BY <3>6, <3>7, <3>8 DEF n
    <2> QED BY <2>2, <2>3
  <1> QED BY <1>1, <1>6, <1>7, <1>8 DEF ElementInv

LEMMA ParseKeepsInv ==
  ASSUME DepthInv, Parse PROVE DepthInv'
  <1> USE DEF DepthInv
  <1>1. Ready
    BY DEF Parse, SkipBlank, Open, TooDeep, Scalar, Literal, LiteralEnds, NoValue, FirstMember,
           Close, Key, Colon, NoMember, KeyValue, Element, Comma, NoComma, End, Trailing, Looks
  <1>2. ASSUME Fail PROVE DepthInv'
    BY <1>1, <1>2, QuietKeepsInv DEF Fail, Places
  <1>3. ASSUME NEW p, NEW s, s = stack \/ (stack # <<>> /\ s = Front(stack)),
               ValueEnds(s, p), Take \/ Keep
        PROVE  DepthInv'
    BY <1>1, <1>3, QuietKeepsInv DEF ValueEnds, Places
  <1>4. CASE SkipBlank
    <2>1. /\ Peek = "blank" /\ Take /\ UNCHANGED <<seen, at, depth, stack>>
          /\ at \in {"value", "first", "key", "colon", "keyvalue", "next", "end"}
      BY <1>4 DEF SkipBlank
    <2>2. CASE at # "value"
      BY <1>1, <2>1, <2>2, QuietKeepsInv DEF Places, ParserTypes
    <2>3. CASE at = "value"
      <3>1. /\ pb' \in Seq(Tokens) /\ (IsText' <=> IsText) /\ (AtEnd' <=> AtEnd)
            /\ IsText => \A i \in 1 .. Len(pb') : pb'[i] \notin Openers
            /\ ~IsText => pb' = <<>>
        BY <2>1, PbSteps
      <3>2. ParserTypes' /\ StringInv' /\ TokensInv' /\ OpenInv'
        BY <2>1, <2>3, <3>1 DEF ParserTypes, StringInv, TokensInv, OpenInv
      <3>3. ValueInv'
        BY <2>1, <2>3, <3>1 DEF ValueInv
      <3> QED BY <2>1, <2>3, <3>2, <3>3 DEF ElementInv
    <2> QED BY <2>2, <2>3
  <1>5. CASE Open
    BY <1>5, OpenKeepsInv
  <1>6. CASE TooDeep \/ NoValue \/ NoMember \/ NoComma \/ Trailing
    BY <1>2, <1>6 DEF TooDeep, NoValue, NoMember, NoComma, Trailing
  <1>7. CASE Scalar
    BY <1>3, <1>7 DEF Scalar
  <1>8. CASE Literal
    BY <1>1, <1>8, QuietKeepsInv DEF Literal, Places
  <1>9. CASE LiteralEnds
    BY <1>2, <1>3, <1>9 DEF LiteralEnds
  <1>10. CASE FirstMember
    <2>1. /\ stack # <<>> /\ Keep /\ UNCHANGED <<seen, depth, stack>> /\ Peek # "blank"
          /\ at' \in {"key", "element"}
      BY <1>10 DEF FirstMember, Looks, ParserTypes, MemberStart
    <2>2. CASE at' = "key"
      BY <1>1, <2>1, <2>2, QuietKeepsInv DEF Places
    <2>3. CASE at' = "element"
      <3>1. /\ pb' = pb /\ ~IsText /\ ~IsText' /\ (AtEnd' <=> AtEnd)
        BY <2>1, PbSteps DEF Keep, StringInv
      <3>2. ParserTypes' /\ StringInv' /\ TokensInv' /\ OpenInv'
        BY <2>1, <2>3, <3>1 DEF ParserTypes, StringInv, TokensInv, OpenInv, Places
      <3>3. ElementInv'
        <4>1. ~AtEnd => pb = <<Peek>> /\ pb # <<"blank">>
          BY <1>1, <2>1, <3>1, ReadyFacts
        <4> QED BY <3>1, <4>1 DEF ElementInv
      <3> QED BY <2>3, <3>2, <3>3 DEF ValueInv
    <2> QED BY <2>1, <2>2, <2>3
  <1>11. CASE Close
    <2>1. stack # <<>> /\ ValueEnds(Front(stack), page) /\ Take
      BY <1>11 DEF Close, ParserTypes
    <2> QED BY <1>3, <2>1
  <1>12. CASE Key \/ Colon
    BY <1>1, <1>12, QuietKeepsInv DEF Key, Colon, Looks, Places, ParserTypes
  <1>13. CASE KeyValue \/ Element
    BY <1>1, <1>13, StartMemberKeepsInv DEF KeyValue, Element, Looks
  <1>14. CASE Comma
    <2>1. /\ stack # <<>> /\ Take /\ UNCHANGED <<seen, depth, stack>> /\ Peek = "comma"
          /\ at' \in {"key", "element"}
      BY <1>14 DEF Comma, Looks, ParserTypes, MemberStart
    <2>2. CASE at' = "key"
      BY <1>1, <2>1, <2>2, QuietKeepsInv DEF Places
    <2>3. CASE at' = "element"
      <3>1. /\ pb' = <<>> /\ ~IsText /\ ~IsText'
        BY <2>1, PbSteps DEF StringInv
      <3>2. ParserTypes' /\ StringInv' /\ TokensInv' /\ OpenInv'
        BY <2>1, <2>3, <3>1 DEF ParserTypes, StringInv, TokensInv, OpenInv, Places
      <3>3. seen # <<>> /\ Last(seen) = "comma"
        BY <1>1, <2>1, <3>1, ReadyFacts
      <3>4. ElementInv'
        BY <2>1, <3>1, <3>3 DEF ElementInv
      <3> QED BY <2>3, <3>2, <3>4 DEF ValueInv
    <2> QED BY <2>1, <2>2, <2>3
  <1>15. CASE End
    BY <1>1, <1>15, QuietKeepsInv DEF End, Places
  <1> QED BY <1>4, <1>5, <1>6, <1>7, <1>8, <1>9, <1>10, <1>11, <1>12, <1>13, <1>14, <1>15 DEF Parse

(* What is read after the last token changes nothing.                      *)
LEMMA InputSlips ==
  ASSUME ParserTypes PROVE Slipped(Input) = Slipped(seen)
  <1>1. CASE AtEnd
    <2>1. seen \in Seq(Tokens) /\ seen # <<>> /\ Last(seen) = "EOF"
      BY <1>1 DEF AtEnd, ParserTypes
    <2>2. /\ Len(seen) \in Nat /\ Len(seen) > 0 /\ Front(seen) \in Seq(Tokens)
          /\ Len(Front(seen)) = Len(seen) - 1
          /\ \A i \in 1 .. Len(seen) - 1 : Front(seen)[i] = seen[i]
      <3> HIDE DEF Tokens
      <3> QED BY <2>1, FrontFacts
    <2>3. Append(Front(seen), "EOF") = seen
      <3> HIDE DEF Tokens
      <3> QED BY <2>1, LastAppended
    <2>4. "EOF" \notin Openers /\ "EOF" \in Tokens
      BY DEF Openers, Tokens
    <2>5. Slips(seen) = Slips(Front(seen))
      <3> HIDE DEF Tokens
      <3> QED BY <2>2, <2>3, <2>4, SlipsGrow
    <2> QED BY <1>1, <2>5 DEF Input, Slipped
  <1>2. CASE ~AtEnd
    BY <1>2 DEF Input
  <1> QED BY <1>1, <1>2

LEMMA DepthInit ==
  ASSUME ParserInit PROVE DepthInv
  <1>1. ParserTypes /\ StringInv /\ TokensInv /\ ElementInv
    BY DEF ParserInit, ParserTypes, StringInv, TokensInv, ElementInv, Places, IsText
  <1>2. Slipped(seen) \in Nat
    BY <1>1, SlipsCounted DEF Slipped, ParserTypes
  <1>3. OpenInv /\ ValueInv
    BY <1>2 DEF ParserInit, OpenInv, ValueInv
  <1> QED BY <1>1, <1>3 DEF DepthInv

LEMMA DepthStep ==
  ASSUME DepthInv, [ParserNext]_parserVars PROVE DepthInv'
  <1>1. CASE Fetch
    BY <1>1, FetchKeepsInv
  <1>2. CASE Parse
    BY <1>2, ParseKeepsInv
  <1>3. CASE Decode
    <2>1. Ready
      BY <1>3 DEF Decode, OpenString, Text, CloseString, Escape, Unit, Pair, PairU, Low,
                  BadString, Looks
    <2> QED BY <1>3, <2>1, DecodeKeepsInv
  <1>4. CASE UNCHANGED parserVars
    BY <1>4 DEF parserVars, DepthInv, ParserTypes, StringInv, TokensInv, OpenInv,
                ValueInv, ElementInv, IsText, AtEnd, Peek
  <1> QED BY <1>1, <1>2, <1>3, <1>4 DEF ParserNext, Stopped

(* The recursion goes no deeper than the limit and one level more, and one *)
(* more for each container that follows a comma and a blank.               *)
THEOREM RecursionIsBounded == ParserSpec => []NestingBounded
  <1>1. ParserInit => DepthInv
    BY DepthInit
  <1>2. DepthInv /\ [ParserNext]_parserVars => DepthInv'
    BY DepthStep
  <1>3. DepthInv => NestingBounded
    <2> SUFFICES ASSUME DepthInv PROVE NestingBounded
      OBVIOUS
    <2>1. ParserTypes /\ OpenInv
      BY DEF DepthInv
    <2>2. Slipped(seen) \in Nat /\ MAX_DEPTH \in Nat
      BY <2>1, SlipsCounted, J2tAssumption DEF Slipped, ParserTypes
    <2>3. CASE Len(stack) = 0
      BY <2>1, <2>2, <2>3, InputSlips DEF NestingBounded
    <2>4. CASE Len(stack) # 0
      <3>1. Len(stack) \in 1 .. Len(stack)
        BY <2>1, <2>4, StackTypes
      <3>2. /\ Len(stack) <= stack[Len(stack)].depth + 1 + Slipped(seen)
            /\ stack[Len(stack)].depth \in Nat /\ stack[Len(stack)].depth <= MAX_DEPTH
        BY <2>1, <3>1, StackTypes DEF OpenInv
      <3> QED BY <2>1, <2>2, <3>1, <3>2, InputSlips DEF NestingBounded
    <2> QED BY <2>3, <2>4
  <1> QED BY <1>1, <1>2, <1>3, PTL DEF ParserSpec

-----------------------------------------------------------------------------
(* The grammar                                                             *)

(* v begins with w.                                                        *)
Begun(w, v) ==
  v \in Seq(Tokens) /\ Len(w) <= Len(v) /\ \A k \in 1 .. Len(w) : v[k] = w[k]

(* A container that is closed in v, and not in w, is closed after w.       *)
Prolongs(w, close, further) ==
  /\ \A j \in DOMAIN close : j \in DOMAIN further /\ further[j] = close[j]
  /\ \A j \in DOMAIN further :
       j \in DOMAIN close \/ (further[j] \in Nat /\ Len(w) < further[j])

LEMMA AppendedIs ==
  ASSUME NEW w \in Seq(Tokens), NEW t \in Tokens
  PROVE  /\ Append(w, t) \in Seq(Tokens) /\ Len(Append(w, t)) = Len(w) + 1 /\ Len(w) \in Nat
         /\ Append(w, t)[Len(w) + 1] = t
         /\ \A i \in 1 .. Len(w) : Append(w, t)[i] = w[i]
         /\ DOMAIN w = 1 .. Len(w) /\ DOMAIN Append(w, t) = 1 .. Len(w) + 1
         /\ Begun(w, Append(w, t))
  <1>1. /\ Append(w, t) \in Seq(Tokens) /\ Len(Append(w, t)) = Len(w) + 1 /\ Len(w) \in Nat
        /\ Append(w, t)[Len(w) + 1] = t
        /\ \A i \in 1 .. Len(w) : Append(w, t)[i] = w[i]
        /\ DOMAIN w = 1 .. Len(w) /\ DOMAIN Append(w, t) = 1 .. Len(w) + 1
    <2> HIDE DEF Tokens
    <2> QED OBVIOUS
  <1> DEFINE v == Append(w, t)
  <1>2. Begun(w, v)
    <2> HIDE DEF v
    <2>1. v \in Seq(Tokens) /\ Len(v) = Len(w) + 1 /\ \A i \in 1 .. Len(w) : v[i] = w[i]
      BY <1>1 DEF v
    <2>2. Len(w) <= Len(v)
      BY <1>1, <2>1
    <2> QED BY <2>1, <2>2 DEF Begun
  <1> QED BY <1>1, <1>2

LEMMA BegunFacts ==
  ASSUME NEW w \in Seq(Tokens), NEW v, Begun(w, v)
  PROVE  /\ Len(w) \in Nat /\ Len(v) \in Nat /\ Len(w) <= Len(v)
         /\ DOMAIN w = 1 .. Len(w) /\ DOMAIN v = 1 .. Len(v)
         /\ \A k \in 1 .. Len(w) : v[k] = w[k] /\ k \in 1 .. Len(v)
  <1>1. v \in Seq(Tokens) /\ Len(w) <= Len(v) /\ \A k \in 1 .. Len(w) : v[k] = w[k]
    BY DEF Begun
  <1> HIDE DEF Tokens
  <1> QED BY <1>1

LEMMA FollowsKept ==
  ASSUME NEW w \in Seq(Tokens), NEW v, Begun(w, v), NEW i \in 1 .. Len(w) + 1, NEW h
  PROVE  Follows(v, h, i) <=> Follows(w, h, i)
  <1>1. Len(w) \in Nat /\ \A k \in 1 .. Len(w) : v[k] = w[k]
    BY BegunFacts
  <1>2. \A k \in 1 .. (i - 1) : v[k] = w[k]
    BY <1>1
  <1>3. ASSUME h \in 1 .. (i - 1)
        PROVE  v[h] = w[h] /\ \A k \in (h + 1) .. (i - 1) : v[k] = w[k]
    BY <1>2, <1>3
  <1> QED BY <1>3 DEF Follows

LEMMA FollowsOne ==
  ASSUME NEW w \in Seq(Tokens), NEW i \in Nat, NEW h, NEW g, Follows(w, h, i), Follows(w, g, i)
  PROVE  h = g
  <1>1. h \in 1 .. (i - 1) /\ g \in 1 .. (i - 1)
    BY DEF Follows
  <1>2. ASSUME NEW a \in 1 .. (i - 1), NEW b \in 1 .. (i - 1), Follows(w, a, i), Follows(w, b, i)
        PROVE  ~(a < b)
    <2>1. SUFFICES ASSUME a < b PROVE FALSE
      OBVIOUS
    <2>2. b \in (a + 1) .. (i - 1)
      BY <2>1
    <2> QED BY <1>2, <2>2 DEF Follows
  <1>3. ~(h < g) /\ ~(g < h)
    BY <1>1, <1>2
  <1> QED BY <1>1, <1>3

LEMMA AroundKept ==
  ASSUME NEW w \in Seq(Tokens), NEW v, Begun(w, v), NEW close, NEW further,
         Prolongs(w, close, further), NEW i \in 1 .. Len(w)
  PROVE  Around(v, further, i) = Around(w, close, i)
  <1>1. /\ Len(w) \in Nat /\ \A k \in 1 .. Len(w) : v[k] = w[k] /\ k \in 1 .. Len(v)
        /\ DOMAIN w = 1 .. Len(w) /\ DOMAIN v = 1 .. Len(v) /\ Len(v) \in Nat
    BY BegunFacts
  <1>2. ASSUME NEW j
        PROVE  (j \in DOMAIN further => i < further[j]) <=> (j \in DOMAIN close => i < close[j])
    BY <1>1 DEF Prolongs
  <1>3. ASSUME NEW j
        PROVE  (j \in Openings(v) /\ j < i) <=> (j \in Openings(w) /\ j < i)
    BY <1>1 DEF Openings
  <1>4. ASSUME NEW j PROVE j \in Around(v, further, i) <=> j \in Around(w, close, i)
    BY <1>2, <1>3 DEF Around
  <1> QED BY <1>4

LEMMA KeyKept ==
  ASSUME NEW w \in Seq(Tokens), NEW v, Begun(w, v), NEW close, NEW further,
         Prolongs(w, close, further), NEW i \in 1 .. Len(w)
  PROVE  /\ \A o : Within(v, further, i, o) <=> Within(w, close, i, o)
         /\ IsKey(v, further, i) <=> IsKey(w, close, i)
         /\ EndsValue(v, further, i) <=> EndsValue(w, close, i)
  <1>1. /\ Len(w) \in Nat /\ \A k \in 1 .. Len(w) : v[k] = w[k]
        /\ DOMAIN w = 1 .. Len(w)
    BY BegunFacts
  <1>2. Around(v, further, i) = Around(w, close, i)
    BY AroundKept
  <1>3. \A h : Follows(v, h, i) <=> Follows(w, h, i)
    <2> SUFFICES ASSUME NEW h PROVE Follows(v, h, i) <=> Follows(w, h, i)
      OBVIOUS
    <2>1. i \in 1 .. Len(w) + 1
      BY <1>1
    <2> QED BY <2>1, FollowsKept
  <1>4. ASSUME NEW j \in Around(w, close, i) PROVE v[j] = w[j]
    BY <1>1 DEF Around, Openings
  <1>5. ASSUME NEW o PROVE Within(v, further, i, o) <=> Within(w, close, i, o)
    BY <1>2, <1>4 DEF Within
  <1>6. \A h \in 1 .. (i - 1) : v[h] = w[h]
    BY <1>1
  <1>7. IsKey(v, further, i) <=> IsKey(w, close, i)
    BY <1>1, <1>3, <1>5, <1>6 DEF IsKey
  <1>8. EndsValue(v, further, i) <=> EndsValue(w, close, i)
    BY <1>1, <1>7 DEF EndsValue
  <1> QED BY <1>5, <1>7, <1>8

LEMMA InPlaceKept ==
  ASSUME NEW w \in Seq(Tokens), NEW v, Begun(w, v), NEW close, NEW further,
         Prolongs(w, close, further), NEW i \in 1 .. Len(w)
  PROVE  InPlace(v, further, i) <=> InPlace(w, close, i)
  <1>1. /\ Len(w) \in Nat /\ \A k \in 1 .. Len(w) : v[k] = w[k]
        /\ \A k \in 1 .. (i - 1) : v[k] = w[k] /\ k \in 1 .. Len(w)
    BY BegunFacts
  <1>2. v[i] = w[i]
    BY <1>1
  <1>3. (\A k \in 1 .. (i - 1) : v[k] = "blank") <=> (\A k \in 1 .. (i - 1) : w[k] = "blank")
    BY <1>1
  <1>4. ASSUME NEW h \in 1 .. (i - 1)
        PROVE  /\ Follows(v, h, i) <=> Follows(w, h, i)
               /\ MayFollow(v, further, h, i) <=> MayFollow(w, close, h, i)
    <2>1. Follows(v, h, i) <=> Follows(w, h, i)
      <3>1. i \in 1 .. Len(w) + 1
        BY <1>1
      <3> QED BY <3>1, FollowsKept
    <2>2. h \in 1 .. Len(w) /\ v[h] = w[h]
      BY <1>1
    <2>3. (IsKey(v, further, h) <=> IsKey(w, close, h))
          /\ (EndsValue(v, further, h) <=> EndsValue(w, close, h))
      BY <2>2, KeyKept
    <2>4. Around(v, further, i) = Around(w, close, i)
      BY AroundKept
    <2>5. \A o : Within(v, further, i, o) <=> Within(w, close, i, o)
      BY KeyKept
    <2>6. h \in DOMAIN close /\ close[h] = i <=> h \in DOMAIN further /\ further[h] = i
      BY <1>1 DEF Prolongs
    <2>7. MayFollow(v, further, h, i) <=> MayFollow(w, close, h, i)
      BY <1>2, <2>2, <2>3, <2>4, <2>5, <2>6 DEF MayFollow
    <2> QED BY <2>1, <2>7
  <1> QED BY <1>2, <1>3, <1>4 DEF InPlace

(* Brackets of w that are in pairs.                                        *)
Pairing(w, close) ==
  /\ DOMAIN close \subseteq Openings(w) /\ close \in [DOMAIN close -> 1 .. Len(w)]
  /\ Paired(w, close)

OnlyPairing(w, close) == \A other : Pairing(w, other) => other = close

(* The containers that are open are as many as the calls of the parser.    *)
Counted(w, st) ==
  /\ IsFiniteSet(Openings(w)) /\ IsFiniteSet(Closings(w))
  /\ Cardinality(Openings(w)) = Cardinality(Closings(w)) + Len(st)

(* The pairs of which both are in the first n tokens.                      *)
ClosedUpTo(close, n) == [j \in {i \in DOMAIN close : close[i] <= n} |-> close[j]]

LEMMA PairingBegins ==
  ASSUME NEW w \in Seq(Tokens), NEW v, Begun(w, v), NEW further, Pairing(v, further)
  PROVE  /\ Pairing(w, ClosedUpTo(further, Len(w)))
         /\ Prolongs(w, ClosedUpTo(further, Len(w)), further)
  <1> DEFINE close == ClosedUpTo(further, Len(w))
  <1>1. /\ Len(w) \in Nat /\ \A k \in 1 .. Len(w) : v[k] = w[k] /\ k \in 1 .. Len(v)
        /\ DOMAIN w = 1 .. Len(w) /\ DOMAIN v = 1 .. Len(v) /\ Len(v) \in Nat
    BY BegunFacts
  <1>2. /\ DOMAIN close = {j \in DOMAIN further : further[j] <= Len(w)}
        /\ \A j \in DOMAIN close : close[j] = further[j]
        /\ close = [j \in DOMAIN close |-> close[j]]
    BY DEF ClosedUpTo
  <1> HIDE DEF close
  <1>3. \A j \in DOMAIN further : /\ further[j] \in 1 .. Len(v) /\ j \in 1 .. Len(v)
                                  /\ v[j] \in Openers /\ j < further[j]
                                  /\ v[further[j]] = Closer(v[j])
    BY <1>1 DEF Pairing, Paired, Openings
  <1>4. \A j \in DOMAIN close : /\ j \in DOMAIN further /\ close[j] = further[j]
                                /\ close[j] \in 1 .. Len(w) /\ j \in 1 .. Len(w)
    BY <1>1, <1>2, <1>3
  <1>5. DOMAIN close \subseteq Openings(w) /\ close \in [DOMAIN close -> 1 .. Len(w)]
    <2>1. \A j \in DOMAIN close : j \in Openings(w)
      BY <1>1, <1>3, <1>4 DEF Openings
    <2> QED BY <1>2, <1>4, <2>1
  <1>6. ASSUME NEW i \in Closings(w) PROVE \E j \in DOMAIN close : close[j] = i
    <2>1. i \in Closings(v) /\ i \in 1 .. Len(w)
      BY <1>1 DEF Closings
    <2>2. PICK j \in DOMAIN further : further[j] = i
      BY <2>1 DEF Pairing, Paired
    <2>3. j \in DOMAIN close
      BY <1>2, <2>1, <2>2
    <2> QED BY <1>2, <2>2, <2>3
  <1>7. ASSUME NEW j \in DOMAIN close, NEW l \in Openings(w), j < l, l < close[j]
        PROVE  l \in DOMAIN close /\ close[l] < close[j]
    <2>1. l \in Openings(v)
      BY <1>1 DEF Openings
    <2>2. l \in DOMAIN further /\ further[l] < further[j]
      BY <1>4, <1>7, <2>1 DEF Pairing, Paired
    <2>3. l \in DOMAIN close
      BY <1>1, <1>2, <1>3, <1>4, <2>2
    <2> QED BY <1>4, <2>2, <2>3
  <1>8. Paired(w, close)
    <2>1. \A j \in DOMAIN close : j < close[j] /\ w[close[j]] = Closer(w[j])
      BY <1>1, <1>3, <1>4
    <2> QED BY <1>6, <1>7, <2>1 DEF Paired
  <1>9. Prolongs(w, close, further)
    BY <1>1, <1>2, <1>3 DEF Prolongs
  <1> QED BY <1>5, <1>8, <1>9 DEF Pairing, close

(* What was read of a document so far, w, with the calls st of the parser: *)
(* opens has the places of the containers that are open, and the other     *)
(* ones are closed at close.                                               *)
WellRead(w, close, opens, st) ==
  /\ Pairing(w, close) /\ OnlyPairing(w, close) /\ Counted(w, st)
  /\ \A k \in 1 .. Len(st) : /\ opens[k] \in 1 .. Len(w) /\ w[opens[k]] = st[k].kind
                             /\ opens[k] \notin DOMAIN close
  /\ \A k, l \in 1 .. Len(st) : k < l => opens[k] < opens[l]
  /\ \A j \in Openings(w) : j \in DOMAIN close \/ \E k \in 1 .. Len(st) : opens[k] = j
  /\ \A i \in Filled(w) : InPlace(w, close, i)

(* The place after w is in the containers that are open.                   *)
LEMMA AroundNext ==
  ASSUME NEW w \in Seq(Tokens), NEW t \in Tokens, NEW close, NEW opens,
         NEW st \in Seq(Frames), WellRead(w, close, opens, st)
  PROVE  /\ Around(Append(w, t), close, Len(w) + 1) # {} <=> Len(st) > 0
         /\ Len(st) > 0 =>
              \A o : Within(Append(w, t), close, Len(w) + 1, o) <=> o = st[Len(st)].kind
         /\ Len(st) = 0 => \A o : ~Within(Append(w, t), close, Len(w) + 1, o)
  <1> DEFINE v == Append(w, t)
             n == Len(w) + 1
  <1>1. /\ Len(w) \in Nat /\ \A k \in 1 .. Len(w) : v[k] = w[k]
        /\ DOMAIN w = 1 .. Len(w) /\ DOMAIN v = 1 .. n
    BY AppendedIs
  <1>2. Len(st) \in Nat
    <2> HIDE DEF Frames
    <2> QED OBVIOUS
  <1> HIDE DEF v
  <1>3. \A j : j \in Openings(v) /\ j < n <=> j \in Openings(w)
    BY <1>1 DEF Openings
  <1>4. \A j \in DOMAIN close : ~(n < close[j])
    BY <1>1 DEF WellRead, Pairing
  <1>5. \A j : j \in Around(v, close, n) <=> j \in Openings(w) /\ j \notin DOMAIN close
    BY <1>3, <1>4 DEF Around
  <1>6. \A k \in 1 .. Len(st) : opens[k] \in Openings(w) /\ opens[k] \notin DOMAIN close
    <2>1. \A k \in 1 .. Len(st) : st[k].kind \in Openers
      <3>1. \A f \in Frames : f.kind \in Openers
        BY DEF Frames
      <3>2. \A k \in 1 .. Len(st) : st[k] \in Frames
        <4> HIDE DEF Frames
        <4> QED OBVIOUS
      <3> QED BY <3>1, <3>2
    <2> QED BY <1>1, <2>1 DEF WellRead, Pairing, Openings
  <1>7. \A j : j \in Around(v, close, n) <=> \E k \in 1 .. Len(st) : opens[k] = j
    BY <1>5, <1>6 DEF WellRead, Pairing
  <1>8. Around(v, close, n) # {} <=> Len(st) > 0
    <2>1. CASE Len(st) > 0
      <3>1. Len(st) \in 1 .. Len(st)
        BY <1>2, <2>1
      <3> QED BY <1>7, <2>1, <3>1
    <2>2. CASE ~(Len(st) > 0)
      <3>1. \A k \in 1 .. Len(st) : FALSE
        BY <1>2, <2>2
      <3> QED BY <1>7, <2>2, <3>1
    <2> QED BY <2>1, <2>2
  <1>9. ASSUME Len(st) > 0, NEW o
        PROVE  Within(v, close, n, o) <=> o = st[Len(st)].kind
    <2> DEFINE j == opens[Len(st)]
    <2>1. Len(st) \in 1 .. Len(st)
      BY <1>2, <1>9
    <2>2. j \in Around(v, close, n) /\ j \in 1 .. Len(w) /\ w[j] = st[Len(st)].kind
      BY <1>7, <2>1 DEF WellRead, Pairing
    <2>3. v[j] = st[Len(st)].kind
      BY <1>1, <2>2
    <2>4. ASSUME NEW l \in Around(v, close, n) PROVE l \in 1 .. Len(w) /\ l <= j
      <3>1. PICK k \in 1 .. Len(st) : opens[k] = l
        BY <1>7, <2>4
      <3>2. CASE k = Len(st)
        BY <2>2, <3>1, <3>2
      <3>3. CASE k # Len(st)
        <4>1. k < Len(st)
          BY <1>2, <3>3
        <4>2. opens[k] < opens[Len(st)] /\ opens[k] \in 1 .. Len(w)
          BY <2>1, <4>1 DEF WellRead, Pairing
        <4> QED BY <2>2, <3>1, <4>2
      <3> QED BY <3>2, <3>3
    <2> HIDE DEF j
    <2>5. ASSUME NEW i \in Around(v, close, n), \A l \in Around(v, close, n) : l <= i
          PROVE  i = j
      <3>1. i \in 1 .. Len(w) /\ i <= j /\ j <= i
        BY <2>2, <2>4, <2>5
      <3> QED BY <1>1, <2>2, <3>1
    <2>6. o = st[Len(st)].kind => Within(v, close, n, o)
      BY <2>2, <2>3, <2>4 DEF Within
    <2>7. Within(v, close, n, o) => o = st[Len(st)].kind
      BY <2>3, <2>5 DEF Within
    <2> QED BY <2>6, <2>7
  <1>10. ASSUME Len(st) = 0, NEW o PROVE ~Within(v, close, n, o)
    <2>1. Around(v, close, n) = {}
      BY <1>8, <1>10
    <2> QED BY <2>1 DEF Within
  <1> QED BY <1>8, <1>9, <1>10 DEF v

(* The innermost container is closed after w.                              *)
Ended(w, close, top) ==
  [j \in DOMAIN close \union {top} |-> IF j = top THEN Len(w) + 1 ELSE close[j]]

(* One token more: the pairs stay what they are, but for a closing bracket *)
(* which ends the innermost container.                                     *)
LEMMA PairingNext ==
  ASSUME NEW w \in Seq(Tokens), NEW t \in Tokens, NEW close, NEW opens,
         NEW st \in Seq(Frames), WellRead(w, close, opens, st),
         NEW other, Pairing(Append(w, t), other)
  PROVE  /\ t \notin Closers => other = close
         /\ t \in Closers => /\ st # <<>> /\ t = Closer(st[Len(st)].kind)
                             /\ other = Ended(w, close, opens[Len(st)])
  <1> DEFINE v == Append(w, t)
             n == Len(w) + 1
             top == opens[Len(st)]
             r == ClosedUpTo(other, Len(w))
  <1>1. /\ Len(w) \in Nat /\ v[n] = t /\ \A k \in 1 .. Len(w) : v[k] = w[k]
        /\ DOMAIN w = 1 .. Len(w) /\ DOMAIN v = 1 .. n /\ Len(v) = n /\ Begun(w, v)
    BY AppendedIs
  <1>2. Len(st) \in Nat /\ (Len(st) > 0 => st # <<>>)
    <2> HIDE DEF Frames
    <2> QED OBVIOUS
  <1> HIDE DEF v
  <1>3. r = close
    <2>1. Pairing(v, other)
      BY DEF v
    <2>2. Pairing(w, r)
      BY <1>1, <2>1, PairingBegins
    <2> HIDE DEF r
    <2> QED BY <2>2 DEF WellRead, OnlyPairing
  <1>4. /\ DOMAIN close = {j \in DOMAIN other : other[j] <= Len(w)}
        /\ \A j \in DOMAIN close : close[j] = other[j]
    BY <1>3 DEF ClosedUpTo
  <1>5. /\ DOMAIN other \subseteq Openings(v) /\ other \in [DOMAIN other -> 1 .. n]
        /\ Paired(v, other)
    BY <1>1 DEF Pairing, v
  <1>6. \A j \in DOMAIN other : other[j] \in 1 .. Len(w) \/ other[j] = n
    BY <1>1, <1>5
  <1>7. CASE t \notin Closers
    <2>1. ASSUME NEW j \in DOMAIN other PROVE other[j] # n
      <3>1. v[other[j]] = Closer(v[j])
        BY <1>5 DEF Paired
      <3>2. Closer(v[j]) \in Closers
        BY DEF Closer, Closers
      <3> QED BY <1>1, <1>7, <3>1, <3>2
    <2>2. DOMAIN other = DOMAIN close
      <3>1. \A j \in DOMAIN other : other[j] <= Len(w)
        BY <1>1, <1>6, <2>1
      <3> QED BY <1>4, <3>1, Zenon
    <2>3. /\ close = [j \in DOMAIN close |-> close[j]]
          /\ other = [j \in DOMAIN other |-> other[j]]
      BY <1>5 DEF WellRead, Pairing
    <2>4. other = close
      BY <1>4, <2>2, <2>3
    <2> QED BY <1>7, <2>4
  <1>8. CASE t \in Closers
    <2>1. PICK j \in DOMAIN other : other[j] = n
      <3>1. n \in Closings(v)
        BY <1>1, <1>8 DEF Closings
      <3> QED BY <1>5, <3>1 DEF Paired
    <2>2. j \notin DOMAIN close /\ j \in 1 .. Len(w) /\ v[j] \in Openers
      <3>1. j < n /\ j \in 1 .. n /\ v[j] \in Openers
        BY <1>1, <1>5, <2>1 DEF Paired, Openings
      <3> QED BY <1>1, <1>4, <2>1, <3>1
    <2>3. j \in Openings(w)
      BY <1>1, <2>2 DEF Openings
    <2>4. PICK k \in 1 .. Len(st) : opens[k] = j
      BY <2>2, <2>3 DEF WellRead
    <2>5. Len(st) \in 1 .. Len(st) /\ st # <<>>
      BY <1>2, <2>4
    <2>6. /\ top \in 1 .. Len(w) /\ w[top] = st[Len(st)].kind /\ top \notin DOMAIN close
          /\ st[Len(st)].kind \in Openers
      <3>1. st[Len(st)] \in Frames
        <4> HIDE DEF Frames
        <4> QED BY <2>5
      <3> QED BY <2>5, <3>1 DEF WellRead, Frames
    <2>7. j = top
      <3>1. SUFFICES ASSUME j # top PROVE FALSE
        OBVIOUS
      <3>2. j < top
        <4>1. k < Len(st)
          BY <1>2, <2>4, <3>1
        <4> QED BY <2>4, <2>5, <4>1 DEF WellRead
      <3>3. top \in Openings(v) /\ top < n
        BY <1>1, <2>6 DEF Openings
      <3>4. top \in DOMAIN other /\ other[top] < n
        BY <1>5, <2>1, <3>2, <3>3 DEF Paired
      <3> QED BY <1>1, <1>4, <1>6, <2>6, <3>4
    <2>8. t = Closer(st[Len(st)].kind)
      <3>1. v[n] = Closer(v[top])
        BY <1>5, <2>1, <2>7 DEF Paired
      <3> QED BY <1>1, <2>6, <3>1
    (* No other container is closed here.                                  *)
    <2>9. ASSUME NEW l \in DOMAIN other, l # top PROVE l \in DOMAIN close
      <3>1. SUFFICES ASSUME other[l] = n PROVE FALSE
        BY <1>1, <1>4, <1>6
      <3>2. l \in 1 .. n /\ l < n /\ l \in Openings(v) /\ top \in Openings(v)
        BY <1>1, <1>5, <2>1, <2>7, <3>1 DEF Paired, Openings
      <3>3. top < l \/ l < top
        BY <1>1, <2>6, <2>9, <3>2
      <3>4. top < n
        BY <1>1, <2>6
      <3>5. other[l] < other[top] \/ other[top] < other[l]
        BY <1>5, <2>1, <2>7, <3>1, <3>2, <3>3, <3>4 DEF Paired
      <3> QED BY <1>1, <2>1, <2>7, <3>1, <3>5
    <2>10. DOMAIN other = DOMAIN close \union {top}
      BY <1>4, <2>1, <2>7, <2>9
    <2>11. \A l \in DOMAIN other : other[l] = IF l = top THEN n ELSE close[l]
      BY <1>4, <2>1, <2>7, <2>9
    <2>12. other = [l \in DOMAIN other |-> other[l]]
      BY <1>5
    <2> HIDE DEF n, top
    <2>13. other = [l \in DOMAIN close \union {top} |-> IF l = top THEN n ELSE close[l]]
      BY <2>10, <2>11, <2>12
    <2>14. other = Ended(w, close, top)
      BY <2>13 DEF Ended, n
    <2> QED BY <1>8, <2>5, <2>8, <2>14 DEF top
  <1> QED BY <1>7, <1>8

(* A token that is no bracket and fits, or a blank.                        *)
LEMMA ReadPlain ==
  ASSUME NEW w \in Seq(Tokens), NEW t \in Tokens, NEW close, NEW opens,
         NEW st \in Seq(Frames), WellRead(w, close, opens, st),
         t \notin Openers \union Closers,
         t = "blank" \/ InPlace(Append(w, t), close, Len(w) + 1)
  PROVE  WellRead(Append(w, t), close, opens, st)
  <1> DEFINE v == Append(w, t)
             n == Len(w) + 1
  <1>1. /\ Len(w) \in Nat /\ v[n] = t /\ \A k \in 1 .. Len(w) : v[k] = w[k]
        /\ DOMAIN w = 1 .. Len(w) /\ DOMAIN v = 1 .. n /\ Len(v) = n
        /\ Begun(w, v)
    BY AppendedIs
  <1>2. Prolongs(w, close, close)
    BY DEF Prolongs
  <1>3. ASSUME NEW i \in 1 .. Len(w), w[i] # "blank" PROVE InPlace(v, close, i)
    <2>1. InPlace(w, close, i)
      BY <1>1, <1>3 DEF WellRead, Filled
    <2> QED BY <1>1, <1>2, <2>1, InPlaceKept
  <1>4. t = "blank" \/ InPlace(v, close, n)
    OBVIOUS
  <1> HIDE DEF v
  <1>5. Openings(v) = Openings(w) /\ Closings(v) = Closings(w)
    BY <1>1 DEF Openings, Closings
  <1>6. \A i \in Filled(v) : InPlace(v, close, i)
    BY <1>1, <1>3, <1>4 DEF Filled
  <1>7. \A j \in DOMAIN close : /\ j \in 1 .. Len(w) /\ close[j] \in 1 .. Len(w)
                                /\ close[j] \in 1 .. Len(v)
    BY <1>1 DEF WellRead, Pairing, Openings
  <1>8. Paired(v, close)
    BY <1>1, <1>5, <1>7 DEF WellRead, Pairing, Paired
  <1>9. \A k \in 1 .. Len(st) : /\ opens[k] \in 1 .. Len(v) /\ v[opens[k]] = st[k].kind
                                /\ opens[k] \notin DOMAIN close
    BY <1>1 DEF WellRead
  <1>10. close \in [DOMAIN close -> 1 .. Len(v)]
    BY <1>7 DEF WellRead, Pairing
  <1>11. OnlyPairing(v, close)
    BY PairingNext DEF OnlyPairing, v
  <1>12. Counted(v, st)
    BY <1>5 DEF WellRead, Counted
  <1>13. WellRead(v, close, opens, st)
    BY <1>5, <1>6, <1>8, <1>9, <1>10, <1>11, <1>12 DEF WellRead, Pairing
  <1> QED BY <1>13 DEF v

(* A container is opened.                                                  *)
LEMMA ReadOpening ==
  ASSUME NEW w \in Seq(Tokens), NEW t \in Tokens, NEW close, NEW opens,
         NEW st \in Seq(Frames), NEW f \in Frames, WellRead(w, close, opens, st),
         t \in Openers, f.kind = t, InPlace(Append(w, t), close, Len(w) + 1),
         NEW more, \A k \in 1 .. Len(st) : more[k] = opens[k],
         more[Len(st) + 1] = Len(w) + 1
  PROVE  WellRead(Append(w, t), close, more, Append(st, f))
  <1> DEFINE v == Append(w, t)
             n == Len(w) + 1
             sf == Append(st, f)
  <1>1. /\ Len(w) \in Nat /\ v[n] = t /\ \A k \in 1 .. Len(w) : v[k] = w[k]
        /\ DOMAIN w = 1 .. Len(w) /\ DOMAIN v = 1 .. n /\ Len(v) = n
        /\ Begun(w, v)
    BY AppendedIs
  <1>2. /\ Len(st) \in Nat /\ Len(sf) = Len(st) + 1 /\ sf[Len(st) + 1] = f
        /\ \A k \in 1 .. Len(st) : sf[k] = st[k]
    <2> HIDE DEF Frames
    <2> QED OBVIOUS
  <1>3. Prolongs(w, close, close)
    BY DEF Prolongs
  <1>4. ASSUME NEW i \in 1 .. Len(w), w[i] # "blank" PROVE InPlace(v, close, i)
    <2>1. InPlace(w, close, i)
      BY <1>1, <1>4 DEF WellRead, Filled
    <2> QED BY <1>1, <1>3, <2>1, InPlaceKept
  <1>5. InPlace(v, close, n)
    OBVIOUS
  <1> HIDE DEF v, sf
  <1>6. /\ \A j : j \in Openings(v) <=> j \in Openings(w) \/ j = n
        /\ Closings(v) = Closings(w)
    BY <1>1 DEF Openings, Closings, Openers, Closers
  <1>7. \A i \in Filled(v) : InPlace(v, close, i)
    BY <1>1, <1>4, <1>5 DEF Filled
  <1>8. \A j \in DOMAIN close : /\ j \in 1 .. Len(w) /\ close[j] \in 1 .. Len(w)
                                /\ close[j] \in 1 .. Len(v) /\ ~(n < close[j])
    BY <1>1 DEF WellRead, Pairing, Openings
  <1>9. Paired(v, close)
    BY <1>1, <1>6, <1>8 DEF WellRead, Pairing, Paired
  <1>10. ASSUME NEW k \in 1 .. Len(sf)
         PROVE  /\ more[k] \in 1 .. Len(v) /\ v[more[k]] = sf[k].kind
                /\ more[k] \notin DOMAIN close
    <2>1. CASE k = Len(st) + 1
      BY <1>1, <1>2, <1>8, <2>1
    <2>2. CASE k \in 1 .. Len(st)
      BY <1>1, <1>2, <2>2 DEF WellRead
    <2> QED BY <1>2, <2>1, <2>2
  <1>11. ASSUME NEW k \in 1 .. Len(sf), NEW l \in 1 .. Len(sf), k < l
         PROVE  more[k] < more[l]
    <2>1. k \in 1 .. Len(st)
      BY <1>2, <1>11
    <2>2. CASE l = Len(st) + 1
      BY <1>1, <2>1, <2>2 DEF WellRead
    <2>3. CASE l \in 1 .. Len(st)
      BY <1>11, <2>1, <2>3 DEF WellRead
    <2> QED BY <1>2, <2>2, <2>3
  <1>12. ASSUME NEW j \in Openings(v)
         PROVE  j \in DOMAIN close \/ \E k \in 1 .. Len(sf) : more[k] = j
    <2>1. CASE j = n
      <3>1. Len(st) + 1 \in 1 .. Len(sf)
        BY <1>2
      <3> QED BY <2>1, <3>1
    <2>2. CASE j \in Openings(w)
      <3>1. ASSUME NEW k \in 1 .. Len(st), opens[k] = j
            PROVE  k \in 1 .. Len(sf) /\ more[k] = j
        BY <1>2, <3>1
      <3> QED BY <2>2, <3>1 DEF WellRead
    <2> QED BY <1>6, <2>1, <2>2
  <1>13. DOMAIN close \subseteq Openings(v) /\ close \in [DOMAIN close -> 1 .. Len(v)]
    BY <1>6, <1>8 DEF WellRead, Pairing
  <1>14. OnlyPairing(v, close)
    <2>1. t \notin Closers
      BY DEF Openers, Closers
    <2>2. ASSUME NEW other, Pairing(v, other) PROVE other = close
      BY <2>1, <2>2, PairingNext DEF v
    <2> QED BY <2>2 DEF OnlyPairing
  <1>15. Counted(v, sf)
    <2>1. Counted(w, st)
      BY DEF WellRead
    <2>2. Openings(v) = Openings(w) \union {n} /\ n \notin Openings(w)
      <3>1. n \notin Openings(w)
        BY <1>1 DEF Openings
      <3> QED BY <1>6, <3>1
    <2>3. /\ IsFiniteSet(Openings(v))
          /\ Cardinality(Openings(v)) = Cardinality(Openings(w)) + 1
      BY <2>1, <2>2, FS_AddElement DEF Counted
    <2>4. Cardinality(Closings(w)) \in Nat
      BY <2>1, FS_CardinalityType DEF Counted
    <2> QED BY <1>2, <1>6, <2>1, <2>3, <2>4 DEF Counted
  <1>16. WellRead(v, close, more, sf)
    BY <1>7, <1>9, <1>10, <1>11, <1>12, <1>13, <1>14, <1>15 DEF WellRead, Pairing
  <1> QED BY <1>16 DEF v, sf

(* The innermost container is closed.                                      *)
LEMMA ReadClosing ==
  ASSUME NEW w \in Seq(Tokens), NEW t \in Tokens, NEW close, NEW opens,
         NEW st \in Seq(Frames), st # <<>>, WellRead(w, close, opens, st),
         t = Closer(st[Len(st)].kind), NEW h, Follows(w, h, Len(w) + 1),
         h = opens[Len(st)] \/ EndsValue(w, close, h)
  PROVE  \E further : /\ WellRead(Append(w, t), further, opens, Front(st))
                      /\ Prolongs(w, close, further)
  <1> DEFINE v == Append(w, t)
             n == Len(w) + 1
             sf == Front(st)
             top == opens[Len(st)]
             further == Ended(w, close, top)
  <1>1. /\ Len(w) \in Nat /\ v[n] = t /\ \A k \in 1 .. Len(w) : v[k] = w[k]
        /\ DOMAIN w = 1 .. Len(w) /\ DOMAIN v = 1 .. n /\ Len(v) = n
        /\ Begun(w, v)
    BY AppendedIs
  <1>2. /\ Len(st) \in Nat /\ Len(st) \in 1 .. Len(st) /\ Len(sf) = Len(st) - 1
        /\ \A k \in 1 .. Len(sf) : sf[k] = st[k] /\ k \in 1 .. Len(st) /\ k < Len(st)
    <2>1. /\ Len(st) \in Nat /\ Len(st) > 0 /\ Len(sf) = Len(st) - 1
          /\ \A i \in 1 .. Len(st) - 1 : sf[i] = st[i]
      <3> HIDE DEF Frames
      <3> QED BY FrontFacts
    <2> HIDE DEF sf
    <2> QED BY <2>1
  <1>3. top \in 1 .. Len(w) /\ w[top] = st[Len(st)].kind /\ top \notin DOMAIN close
    BY <1>2 DEF WellRead
  <1>4. w[top] \in Openers /\ t \in Closers
    <2>1. \A f \in Frames : f.kind \in Openers
      BY DEF Frames
    <2>2. st[Len(st)] \in Frames
      <3> HIDE DEF Frames
      <3> QED BY <1>2
    <2> QED BY <1>3, <2>1, <2>2 DEF Closer, Closers
  <1>5. /\ DOMAIN further = DOMAIN close \union {top} /\ further[top] = n
        /\ \A j \in DOMAIN close : further[j] = close[j]
        /\ further = [j \in DOMAIN further |-> further[j]]
    BY <1>3 DEF Ended
  <1> HIDE DEF further
  <1>6. Prolongs(w, close, further)
    BY <1>1, <1>5 DEF Prolongs
  <1>7. ASSUME NEW i \in 1 .. Len(w), w[i] # "blank" PROVE InPlace(v, further, i)
    <2>1. InPlace(w, close, i)
      BY <1>1, <1>7 DEF WellRead, Filled
    <2> QED BY <1>1, <1>6, <2>1, InPlaceKept
  <1>8. h \in 1 .. Len(w) /\ n - 1 = Len(w)
    BY <1>1 DEF Follows
  <1>9. EndsValue(v, further, h) <=> EndsValue(w, close, h)
    BY <1>1, <1>6, <1>8, KeyKept
  <1>10. Follows(v, h, n)
    <2>1. n \in 1 .. Len(w) + 1
      BY <1>1
    <2> QED BY <1>1, <2>1, FollowsKept
  <1> HIDE DEF v
  <1>11. InPlace(v, further, n)
    <2>1. MayFollow(v, further, h, n)
      <3>1. v[n] \in Closers
        BY <1>1, <1>4
      <3>2. (h \in DOMAIN further /\ further[h] = n) \/ EndsValue(v, further, h)
        BY <1>5, <1>9
      <3> QED BY <3>1, <3>2 DEF MayFollow
    <2> QED BY <1>8, <1>10, <2>1 DEF InPlace
  <1>12. Openings(v) = Openings(w) /\ \A i : i \in Closings(v) <=> i \in Closings(w) \/ i = n
    BY <1>1, <1>4 DEF Openings, Closings, Openers, Closers
  <1>13. \A i \in Filled(v) : InPlace(v, further, i)
    BY <1>1, <1>7, <1>11 DEF Filled
  <1>14. top \in Openings(w)
    BY <1>1, <1>3, <1>4 DEF Openings
  <1>15. \A j \in Openings(w) : j \in 1 .. Len(w)
    BY <1>1 DEF Openings
  <1>16. \A j \in DOMAIN close : j \in Openings(w) /\ close[j] \in 1 .. Len(w)
    BY DEF WellRead, Pairing
  <1>17. \A j \in DOMAIN further : j \in Openings(v) /\ further[j] \in 1 .. Len(v)
    BY <1>1, <1>5, <1>12, <1>14, <1>16
  (* What was opened after it is closed.                                   *)
  <1>18. ASSUME NEW l \in Openings(w), top < l
         PROVE  l \in DOMAIN close /\ close[l] < n
    <2>1. ASSUME NEW k \in 1 .. Len(st), opens[k] = l PROVE FALSE
      <3>1. k = Len(st) \/ k < Len(st)
        BY <1>2
      <3>2. CASE k = Len(st)
        BY <1>3, <1>18, <2>1, <3>2
      <3>3. CASE k < Len(st)
        <4>1. opens[k] < top
          BY <1>2, <3>3 DEF WellRead
        <4> QED BY <1>3, <1>15, <1>18, <2>1, <4>1
      <3> QED BY <3>1, <3>2, <3>3
    <2>2. l \in DOMAIN close
      BY <2>1 DEF WellRead
    <2> QED BY <1>1, <1>16, <2>2
  <1>19. Paired(v, further)
    <2>1. ASSUME NEW j \in DOMAIN further
          PROVE  j < further[j] /\ v[further[j]] = Closer(v[j])
      <3>1. CASE j = top
        BY <1>1, <1>3, <1>5, <3>1
      <3>2. CASE j \in DOMAIN close
        <4>1. j < close[j] /\ w[close[j]] = Closer(w[j])
          BY <3>2 DEF WellRead, Pairing, Paired
        <4> QED BY <1>1, <1>5, <1>15, <1>16, <3>2, <4>1
      <3> QED BY <1>5, <3>1, <3>2
    <2>2. ASSUME NEW i \in Closings(v) PROVE \E j \in DOMAIN further : further[j] = i
      <3>1. CASE i = n
        BY <1>5, <3>1
      <3>2. CASE i \in Closings(w)
        <4>1. PICK j \in DOMAIN close : close[j] = i
          BY <3>2 DEF WellRead, Pairing, Paired
        <4> QED BY <1>5, <4>1
      <3> QED BY <1>12, <3>1, <3>2
    <2>3. ASSUME NEW j \in DOMAIN further, NEW l \in Openings(v), j < l, l < further[j]
          PROVE  l \in DOMAIN further /\ further[l] < further[j]
      <3>1. CASE j = top
        <4>1. l \in DOMAIN close /\ close[l] < n
          BY <1>12, <1>18, <2>3, <3>1
        <4> QED BY <1>5, <3>1, <4>1
      <3>2. CASE j \in DOMAIN close
        <4>1. l \in DOMAIN close /\ close[l] < close[j]
          BY <1>5, <1>12, <2>3, <3>2 DEF WellRead, Pairing, Paired
        <4> QED BY <1>5, <3>2, <4>1
      <3> QED BY <1>5, <3>1, <3>2
    <2> QED BY <2>1, <2>2, <2>3 DEF Paired
  <1>20. ASSUME NEW k \in 1 .. Len(sf)
         PROVE  /\ opens[k] \in 1 .. Len(v) /\ v[opens[k]] = sf[k].kind
                /\ opens[k] \notin DOMAIN further
    <2>1. k \in 1 .. Len(st) /\ k < Len(st) /\ sf[k] = st[k]
      BY <1>2
    <2>2. /\ opens[k] \in 1 .. Len(w) /\ w[opens[k]] = st[k].kind
          /\ opens[k] \notin DOMAIN close /\ opens[k] < top
      BY <1>2, <2>1 DEF WellRead
    <2>3. opens[k] # top
      BY <1>3, <2>2
    <2> QED BY <1>1, <1>5, <2>1, <2>2, <2>3
  <1>21. \A k, l \in 1 .. Len(sf) : k < l => opens[k] < opens[l]
    BY <1>2 DEF WellRead
  <1>22. ASSUME NEW j \in Openings(v)
         PROVE  j \in DOMAIN further \/ \E k \in 1 .. Len(sf) : opens[k] = j
    <2>1. ASSUME NEW k \in 1 .. Len(st), opens[k] = j, j # top
          PROVE  k \in 1 .. Len(sf)
      <3>1. k # Len(st)
        BY <2>1
      <3> QED BY <1>2, <3>1
    <2> QED BY <1>5, <1>12, <2>1 DEF WellRead
  <1>23. DOMAIN further \subseteq Openings(v) /\ further \in [DOMAIN further -> 1 .. Len(v)]
    BY <1>5, <1>17
  <1>24. OnlyPairing(v, further)
    <2>1. ASSUME NEW other, Pairing(v, other) PROVE other = further
      BY <1>4, <2>1, PairingNext DEF v, further
    <2> QED BY <2>1 DEF OnlyPairing
  <1>25. Counted(v, sf)
    <2>1. Counted(w, st)
      BY DEF WellRead
    <2>2. Closings(v) = Closings(w) \union {n} /\ n \notin Closings(w)
      <3>1. n \notin Closings(w)
        BY <1>1 DEF Closings
      <3> QED BY <1>12, <3>1
    <2>3. /\ IsFiniteSet(Closings(v))
          /\ Cardinality(Closings(v)) = Cardinality(Closings(w)) + 1
      BY <2>1, <2>2, FS_AddElement DEF Counted
    <2>4. Cardinality(Closings(w)) \in Nat
      BY <2>1, FS_CardinalityType DEF Counted
    <2> QED BY <1>2, <1>12, <2>1, <2>3, <2>4 DEF Counted
  <1>26. WellRead(v, further, opens, sf)
    BY <1>13, <1>19, <1>20, <1>21, <1>22, <1>23, <1>24, <1>25 DEF WellRead, Pairing
  <1> QED BY <1>6, <1>26 DEF v

(* The last token read is one that what is due now may follow.             *)
Due(w, close, opens, st, where) ==
  \/ where = "error"
  \/ where = "value" /\ st = <<>> /\ Filled(w) = {}
  \/ \E h \in 1 .. Len(w) :
       /\ Follows(w, h, Len(w) + 1)
       /\ \/ where = "literal" /\ EndsValue(w, close, h)
          \/ where = "next" /\ st # <<>> /\ EndsValue(w, close, h)
          \/ where \in {"end", "ok"} /\ st = <<>> /\ EndsValue(w, close, h)
          \/ where = "first" /\ st # <<>> /\ h = opens[Len(st)]
          \/ /\ where \in {"value", "element"} /\ st # <<>>
             /\ st[Len(st)].kind = "lbracket" /\ w[h] \in {"lbracket", "comma"}
          \/ /\ where \in {"value", "keyvalue"} /\ st # <<>>
             /\ st[Len(st)].kind = "lbrace" /\ w[h] = "colon"
          \/ /\ where = "key" /\ st # <<>>
             /\ st[Len(st)].kind = "lbrace" /\ w[h] \in {"lbrace", "comma"}
          \/ /\ where = "colon" /\ st # <<>>
             /\ st[Len(st)].kind = "lbrace" /\ IsKey(w, close, h)

LEMMA FollowsNext ==
  ASSUME NEW w \in Seq(Tokens), NEW t \in Tokens
  PROVE  /\ t # "blank" => Follows(Append(w, t), Len(w) + 1, Len(w) + 2)
         /\ t = "blank" => \A h : Follows(w, h, Len(w) + 1)
                                    => Follows(Append(w, t), h, Len(w) + 2)
  <1> DEFINE v == Append(w, t)
  <1>1. /\ Len(w) \in Nat /\ v[Len(w) + 1] = t /\ \A k \in 1 .. Len(w) : v[k] = w[k]
    BY AppendedIs
  <1> HIDE DEF v
  <1>2. t # "blank" => Follows(v, Len(w) + 1, Len(w) + 2)
    BY <1>1 DEF Follows
  <1>3. ASSUME t = "blank", NEW h, Follows(w, h, Len(w) + 1)
        PROVE  Follows(v, h, Len(w) + 2)
    <2>1. /\ h \in 1 .. Len(w) /\ w[h] # "blank"
          /\ \A k \in (h + 1) .. Len(w) : w[k] = "blank"
      BY <1>1, <1>3 DEF Follows
    <2>2. h \in 1 .. (Len(w) + 2 - 1) /\ v[h] # "blank"
      BY <1>1, <2>1
    <2>3. ASSUME NEW k \in (h + 1) .. (Len(w) + 2 - 1) PROVE v[k] = "blank"
      <3>1. CASE k = Len(w) + 1
        BY <1>1, <1>3, <3>1
      <3>2. CASE k # Len(w) + 1
        <4>1. k \in (h + 1) .. Len(w) /\ k \in 1 .. Len(w)
          BY <1>1, <2>1, <3>2
        <4> QED BY <1>1, <2>1, <4>1
      <3> QED BY <3>1, <3>2
    <2> QED BY <2>2, <2>3 DEF Follows
  <1> QED BY <1>2, <1>3 DEF v

(* A value is due, and one begins.                                         *)
LEMMA ValueFits ==
  ASSUME NEW w \in Seq(Tokens), NEW t \in Tokens, NEW close, NEW opens,
         NEW st \in Seq(Frames), WellRead(w, close, opens, st),
         Due(w, close, opens, st, "value"), t \in Openers \union Words
  PROVE  /\ InPlace(Append(w, t), close, Len(w) + 1)
         /\ t \in Words => EndsValue(Append(w, t), close, Len(w) + 1)
  <1> DEFINE v == Append(w, t)
             n == Len(w) + 1
  <1>1. /\ Len(w) \in Nat /\ v[n] = t /\ \A k \in 1 .. Len(w) : v[k] = w[k]
        /\ DOMAIN w = 1 .. Len(w) /\ n \in 1 .. Len(w) + 1 /\ n \in Nat
        /\ Begun(w, v)
    BY AppendedIs
  <1>2. /\ Len(st) > 0 => \A o : Within(v, close, n, o) <=> o = st[Len(st)].kind
        /\ Len(st) = 0 => \A o : ~Within(v, close, n, o)
    BY AroundNext
  <1>3. \A h : Follows(v, h, n) <=> Follows(w, h, n)
    BY <1>1, FollowsKept
  <1>4. Len(st) \in Nat /\ (st # <<>> => Len(st) > 0) /\ (st = <<>> => Len(st) = 0)
    <2> HIDE DEF Frames
    <2> QED BY EmptySeq
  <1>5. v \in Seq(Tokens)
    BY AppendedIs
  <1> HIDE DEF v
  <1>6. CASE st = <<>> /\ Filled(w) = {}
    <2>1. \A k \in 1 .. (n - 1) : v[k] = "blank"
      BY <1>1, <1>6 DEF Filled
    <2>2. InPlace(v, close, n)
      BY <1>1, <2>1 DEF InPlace
    <2>3. ~IsKey(v, close, n)
      BY <1>2, <1>4, <1>6 DEF IsKey
    <2> QED BY <1>1, <2>2, <2>3 DEF EndsValue, v
  <1>7. CASE \E h : /\ Follows(w, h, n) /\ st # <<>>
                    /\ \/ st[Len(st)].kind = "lbracket" /\ w[h] \in {"lbracket", "comma"}
                       \/ st[Len(st)].kind = "lbrace" /\ w[h] = "colon"
    <2>1. PICK h : /\ Follows(w, h, n) /\ st # <<>>
                   /\ \/ st[Len(st)].kind = "lbracket" /\ w[h] \in {"lbracket", "comma"}
                      \/ st[Len(st)].kind = "lbrace" /\ w[h] = "colon"
      BY <1>7
    <2>2. h \in 1 .. (n - 1) /\ h \in 1 .. Len(w) /\ v[h] = w[h] /\ Follows(v, h, n)
      <3>1. h \in 1 .. (n - 1)
        BY <2>1 DEF Follows
      <3> QED BY <1>1, <1>3, <2>1, <3>1
    <2>3. MayFollow(v, close, h, n)
      BY <1>1, <1>2, <1>4, <2>1, <2>2 DEF MayFollow
    <2>4. InPlace(v, close, n)
      BY <2>2, <2>3 DEF InPlace
    <2>5. ~IsKey(v, close, n)
      <3>1. ASSUME st[Len(st)].kind = "lbracket" PROVE ~Within(v, close, n, "lbrace")
        BY <1>2, <1>4, <2>1, <3>1
      <3>2. ASSUME NEW g \in 1 .. (n - 1), Follows(v, g, n) PROVE g = h
        BY <1>1, <1>3, <2>1, <3>2, FollowsOne
      <3> QED BY <2>1, <2>2, <3>1, <3>2 DEF IsKey
    <2> QED BY <1>1, <2>4, <2>5 DEF EndsValue, v
  <1> QED BY <1>6, <1>7 DEF Due

(* A key is due, and a string is read.                                     *)
LEMMA KeyFits ==
  ASSUME NEW w \in Seq(Tokens), NEW close, NEW opens,
         NEW st \in Seq(Frames), WellRead(w, close, opens, st),
         Due(w, close, opens, st, "key")
  PROVE  /\ InPlace(Append(w, "str"), close, Len(w) + 1)
         /\ IsKey(Append(w, "str"), close, Len(w) + 1)
         /\ st # <<>> /\ st[Len(st)].kind = "lbrace"
  <1> DEFINE v == Append(w, "str")
             n == Len(w) + 1
  <1>0. "str" \in Tokens
    BY DEF Tokens, Words
  <1>1. /\ Len(w) \in Nat /\ v[n] = "str" /\ \A k \in 1 .. Len(w) : v[k] = w[k]
        /\ n \in 1 .. Len(w) + 1 /\ Begun(w, v)
    BY <1>0, AppendedIs
  <1>2. Len(st) > 0 => \A o : Within(v, close, n, o) <=> o = st[Len(st)].kind
    BY <1>0, AroundNext
  <1>3. \A h : Follows(v, h, n) <=> Follows(w, h, n)
    BY <1>0, <1>1, FollowsKept
  <1>4. st # <<>> => Len(st) > 0
    BY FrontFacts
  <1> HIDE DEF v
  <1>5. PICK h : /\ Follows(w, h, n) /\ st # <<>>
                 /\ st[Len(st)].kind = "lbrace" /\ w[h] \in {"lbrace", "comma"}
    BY DEF Due
  <1>6. h \in 1 .. (n - 1) /\ v[h] = w[h] /\ Follows(v, h, n)
    <2>1. h \in 1 .. (n - 1)
      BY <1>5 DEF Follows
    <2> QED BY <1>1, <1>3, <1>5, <2>1
  <1>7. Within(v, close, n, "lbrace")
    BY <1>2, <1>4, <1>5
  <1>8. IsKey(v, close, n)
    BY <1>1, <1>5, <1>6, <1>7 DEF IsKey
  <1>9. InPlace(v, close, n)
    BY <1>1, <1>5, <1>6, <1>7 DEF InPlace, MayFollow
  <1> QED BY <1>5, <1>8, <1>9 DEF v

(* A colon is due, or a comma may come.                                    *)
LEMMA SignFits ==
  ASSUME NEW w \in Seq(Tokens), NEW t, NEW close, NEW opens,
         NEW st \in Seq(Frames), WellRead(w, close, opens, st),
         \/ t = "colon" /\ Due(w, close, opens, st, "colon")
         \/ t = "comma" /\ Due(w, close, opens, st, "next")
  PROVE  /\ InPlace(Append(w, t), close, Len(w) + 1) /\ st # <<>>
         /\ t = "colon" => st[Len(st)].kind = "lbrace"
  <1> DEFINE v == Append(w, t)
             n == Len(w) + 1
  <1>0. t \in Tokens
    BY DEF Tokens, Marks
  <1>1. /\ Len(w) \in Nat /\ v[n] = t /\ n \in 1 .. Len(w) + 1 /\ Begun(w, v)
    BY <1>0, AppendedIs
  <1>2. Around(v, close, n) # {} <=> Len(st) > 0
    BY <1>0, AroundNext
  <1>3. \A h : Follows(v, h, n) <=> Follows(w, h, n)
    BY <1>0, <1>1, FollowsKept
  <1>4. st # <<>> => Len(st) > 0
    BY FrontFacts
  <1>5. PICK h : /\ Follows(w, h, n) /\ st # <<>>
                 /\ \/ t = "colon" /\ st[Len(st)].kind = "lbrace" /\ IsKey(w, close, h)
                    \/ t = "comma" /\ EndsValue(w, close, h)
    BY DEF Due
  <1>6. h \in 1 .. (n - 1) /\ h \in 1 .. Len(w) /\ Follows(v, h, n)
    <2>1. h \in 1 .. (n - 1)
      BY <1>5 DEF Follows
    <2> QED BY <1>1, <1>3, <1>5, <2>1
  <1>7. /\ IsKey(v, close, h) <=> IsKey(w, close, h)
        /\ EndsValue(v, close, h) <=> EndsValue(w, close, h)
    <2>1. Prolongs(w, close, close)
      BY DEF Prolongs
    <2> QED BY <1>1, <1>6, <2>1, KeyKept
  <1> HIDE DEF v
  <1>8. MayFollow(v, close, h, n)
    BY <1>1, <1>2, <1>4, <1>5, <1>7 DEF MayFollow
  <1>9. InPlace(v, close, n)
    BY <1>6, <1>8 DEF InPlace
  <1> QED BY <1>5, <1>9 DEF v

-----------------------------------------------------------------------------
(* The tokens that the parser has taken.                                   *)
Read == IF AtEnd \/ pb # <<>> THEN Front(seen) ELSE seen

(* Of a document that is no string, it has read what may begin JSON.       *)
GrammarInv ==
  ~IsText =>
    /\ \E close, opens : /\ WellRead(Read, close, opens, stack)
                         /\ Due(Read, close, opens, stack, at)
    /\ at = "ok" => AtEnd /\ pb = <<>>

(* A token that is taken is the next one read.                             *)
LEMMA ReadSteps ==
  ASSUME DepthInv, ~IsText, Ready, seen' = seen
  PROVE  /\ Read \in Seq(Tokens) /\ Peek \in Tokens /\ ~IsText'
         /\ Keep => Read' = Read
         /\ Take /\ Peek # "EOF" => Read' = Append(Read, Peek)
         /\ Peek = "EOF" => AtEnd /\ pb = <<>>
  <1> USE DEF DepthInv
  <1>1. seen \in Seq(Tokens) /\ seen # <<>>
    BY ReadyFacts DEF ParserTypes
  <1>2. /\ Front(seen) \in Seq(Tokens) /\ Append(Front(seen), Last(seen)) = seen
        /\ Last(seen) \in Tokens
    <2> HIDE DEF Tokens
    <2> QED BY <1>1, FrontFacts, LastAppended
  <1>3. ~IsText' /\ (AtEnd' <=> AtEnd) /\ Read \in Seq(Tokens)
    BY <1>1, <1>2 DEF IsText, AtEnd, Read
  <1>4. Peek \in Tokens
    <2>1. CASE pb = <<>>
      BY <2>1 DEF Peek, Tokens
    <2>2. CASE pb # <<>>
      BY <1>2, <2>2, ReadyFacts
    <2> QED BY <2>1, <2>2
  <1>5. ASSUME Keep PROVE Read' = Read
    BY <1>3, <1>5 DEF Keep, Read
  <1>6. ASSUME Peek = "EOF" PROVE AtEnd /\ pb = <<>>
    BY <1>6, ReadyFacts DEF AtEnd
  <1>7. ASSUME Take, Peek # "EOF" PROVE Read' = Append(Read, Peek)
    <2>1. pb # <<>> /\ ~AtEnd /\ Peek = Last(seen)
      BY <1>7, ReadyFacts
    <2>2. pb' = <<>>
      BY <1>7, PbSteps
    <2> QED BY <1>2, <1>3, <2>1, <2>2 DEF Read
  <1> QED BY <1>3, <1>4, <1>5, <1>6, <1>7

LEMMA FetchReadsNothing ==
  ASSUME DepthInv, Fetch, ~IsText' PROVE ~IsText /\ Read' = Read
  <1> USE DEF DepthInv
  <1>1. PICK t \in Offered : seen' = Append(seen, t) /\ pb' = IF t = "EOF" THEN <<>> ELSE <<t>>
    BY DEF Fetch
  <1>2. pb = <<>> /\ ~AtEnd /\ seen \in Seq(Tokens)
    BY DEF Fetch, ParserTypes
  <1>3. seen' \in Seq(Tokens)
    BY FetchKeepsInv DEF ParserTypes
  <1> HIDE DEF Tokens
  <1>4. /\ Len(seen) \in Nat /\ seen' # <<>> /\ Len(seen') = Len(seen) + 1
        /\ Last(seen') = t /\ \A i \in 1 .. Len(seen) : seen'[i] = seen[i]
        /\ seen # <<>> => Len(seen) > 0
    BY <1>1, <1>2, <1>3 DEF Last
  <1>5. ~IsText
    BY <1>2, <1>4, FrontFacts DEF IsText
  <1>6. Read' = Front(seen')
    BY <1>1, <1>4 DEF Read, AtEnd
  <1>7. Front(seen') = seen
    <2>1. /\ Front(seen') \in Seq(Tokens) /\ Len(Front(seen')) = Len(seen)
          /\ \A i \in 1 .. Len(seen) : Front(seen')[i] = seen[i]
      BY <1>3, <1>4, FrontFacts
    <2> QED BY <1>2, <2>1, SeqEqual
  <1> QED BY <1>2, <1>5, <1>6, <1>7 DEF Read

(* Blanks change nothing.                                                  *)
LEMMA DueAfterBlank ==
  ASSUME NEW w \in Seq(Tokens), NEW close, NEW opens, NEW st, NEW where,
         Due(w, close, opens, st, where)
  PROVE  Due(Append(w, "blank"), close, opens, st, where)
  <1> DEFINE v == Append(w, "blank")
  <1>0. "blank" \in Tokens
    BY DEF Tokens, Marks
  <1>1. /\ Len(w) \in Nat /\ v[Len(w) + 1] = "blank" /\ \A k \in 1 .. Len(w) : v[k] = w[k]
        /\ DOMAIN w = 1 .. Len(w) /\ DOMAIN v = 1 .. Len(w) + 1 /\ Len(v) = Len(w) + 1
        /\ Begun(w, v)
    BY <1>0, AppendedIs
  <1>2. \A h : Follows(w, h, Len(w) + 1) => Follows(v, h, Len(w) + 2)
    BY <1>0, FollowsNext
  <1>3. \A h \in 1 .. Len(w) : /\ IsKey(v, close, h) <=> IsKey(w, close, h)
                               /\ EndsValue(v, close, h) <=> EndsValue(w, close, h)
    <2>1. Prolongs(w, close, close)
      BY DEF Prolongs
    <2> QED BY <1>1, <2>1, KeyKept
  <1> HIDE DEF v
  <1>4. Filled(w) = {} => Filled(v) = {}
    BY <1>1 DEF Filled
  <1>5. \A h \in 1 .. Len(w) : h \in 1 .. Len(v) /\ v[h] = w[h]
    BY <1>1
  <1>6. Len(v) + 1 = Len(w) + 2
    BY <1>1
  <1>7. Due(v, close, opens, st, where)
    BY <1>2, <1>3, <1>4, <1>5, <1>6 DEF Due
  <1> QED BY <1>7 DEF v

LEMMA StackTop ==
  ASSUME ParserTypes, stack # <<>>
  PROVE  Top = stack[Len(stack)] /\ Top \in Frames /\ Top.kind \in Openers
  <1>1. Len(stack) \in 1 .. Len(stack) /\ stack \in Seq(Frames)
    BY FrontFacts DEF ParserTypes
  <1>2. stack[Len(stack)] \in Frames
    <2> HIDE DEF Frames
    <2> QED BY <1>1
  <1> QED BY <1>2 DEF Top, Last, Frames

(* After a value: in its container, or at the end.                         *)
LEMMA AfterValue ==
  ASSUME NEW w \in Seq(Tokens), NEW close, NEW opens, NEW st, NEW p, NEW h \in 1 .. Len(w),
         Follows(w, h, Len(w) + 1), EndsValue(w, close, h), ValueEnds(st, p)
  PROVE  Due(w, close, opens, st, at') /\ at' # "ok" /\ stack' = st
  BY DEF Due, ValueEnds

(* One step of the parser, of which the last token t was taken.            *)
LEMMA LastFollows ==
  ASSUME NEW w \in Seq(Tokens), NEW t \in Tokens, t # "blank"
  PROVE  LET v == Append(w, t)
         IN  /\ v \in Seq(Tokens) /\ Len(v) \in 1 .. Len(v) /\ v[Len(v)] = t
             /\ Len(v) = Len(w) + 1 /\ Follows(v, Len(v), Len(v) + 1)
  <1> DEFINE v == Append(w, t)
  <1>1. v \in Seq(Tokens) /\ Len(v) = Len(w) + 1 /\ Len(w) \in Nat /\ v[Len(w) + 1] = t
    BY AppendedIs
  <1>2. Follows(v, Len(w) + 1, Len(w) + 2)
    BY FollowsNext
  <1> HIDE DEF v
  <1>3. Len(v) + 1 = Len(w) + 2 /\ Len(v) \in 1 .. Len(v)
    BY <1>1
  <1> QED BY <1>1, <1>2, <1>3 DEF v

(* The places of the calls that go on, and the kinds, are the same.        *)
LEMMA SameKinds ==
  ASSUME NEW w, NEW close, NEW opens, NEW st, NEW sf,
         WellRead(w, close, opens, st), Len(sf) = Len(st),
         \A k \in 1 .. Len(st) : sf[k].kind = st[k].kind
  PROVE  WellRead(w, close, opens, sf)
  BY DEF WellRead, Counted

LEMMA ParseKeepsGrammar ==
  ASSUME DepthInv, GrammarInv, Parse, ~IsText PROVE GrammarInv'
  <1> USE DEF DepthInv
  <1>1. Ready /\ seen' = seen
    BY DEF Parse, SkipBlank, Open, TooDeep, Scalar, Literal, LiteralEnds, NoValue, FirstMember,
           Close, Key, Colon, NoMember, KeyValue, Element, Comma, NoComma, End, Trailing, Looks,
           Fail, ValueEnds, StartMember
  <1> DEFINE w == Read
             v == Append(w, Peek)
  <1>2. PICK close, opens : WellRead(w, close, opens, stack) /\ Due(w, close, opens, stack, at)
    BY DEF GrammarInv
  <1>3. /\ w \in Seq(Tokens) /\ Peek \in Tokens /\ ~IsText'
        /\ Keep => Read' = w
        /\ Take /\ Peek # "EOF" => Read' = v
        /\ Peek = "EOF" => AtEnd /\ pb = <<>>
    BY <1>1, ReadSteps
  <1>4. stack \in Seq(Frames)
    BY DEF ParserTypes
  <1>5. stack # <<>> => Top = stack[Len(stack)] /\ Top.kind \in Openers
    BY StackTop
  <1>6. Len(v) = Len(w) + 1 /\ v \in Seq(Tokens)
    BY <1>3, AppendedIs
  <1>7. Peek # "blank" => /\ Len(v) \in 1 .. Len(v) /\ v[Len(v)] = Peek
                          /\ Follows(v, Len(v), Len(v) + 1)
    BY <1>3, LastFollows
  <1> HIDE DEF w, v
  (* What is left to show.                                                 *)
  <1>8. ASSUME NEW r, Read' = r, at' # "ok",
               \E cl, op : WellRead(r, cl, op, stack') /\ Due(r, cl, op, stack', at')
        PROVE  GrammarInv'
    BY <1>8 DEF GrammarInv
  <1>9. ASSUME Fail PROVE GrammarInv'
    <2>1. Due(w, close, opens, stack, "error") /\ at' = "error" /\ Keep /\ stack' = stack
      BY <1>9 DEF Due, Fail
    <2> QED BY <1>2, <1>3, <1>8, <2>1
  <1>10. CASE SkipBlank
    <2>1. Peek = "blank" /\ Take /\ UNCHANGED <<at, stack>> /\ at # "ok"
      BY <1>10 DEF SkipBlank
    <2>2. WellRead(v, close, opens, stack)
      BY <1>2, <1>3, <1>4, <2>1, ReadPlain DEF v, Openers, Closers
    <2>3. Due(v, close, opens, stack, at)
      BY <1>2, <1>3, <2>1, DueAfterBlank DEF v
    <2> QED BY <1>3, <1>8, <2>1, <2>2, <2>3
  <1>11. CASE Open
    <2> DEFINE frame == [kind |-> Peek, depth |-> depth, flush |-> FALSE]
               more == [k \in 1 .. Len(stack) + 1 |->
                          IF k = Len(stack) + 1 THEN Len(w) + 1 ELSE opens[k]]
    <2>1. /\ at = "value" /\ at' = "first" /\ Take /\ Peek \in Openers
          /\ stack' = Append(stack, frame) /\ depth <= MAX_DEPTH
      BY <1>11 DEF Open, Looks, OpenAllowed
    <2>2. frame \in Frames /\ frame.kind = Peek
      BY <2>1, J2tAssumption DEF Frames, ParserTypes
    <2>3. InPlace(v, close, Len(w) + 1)
      BY <1>2, <1>3, <1>4, <2>1, ValueFits DEF v
    <2>4. Len(stack) \in Nat /\ Len(stack') = Len(stack) + 1 /\ stack' # <<>>
      <3> HIDE DEF frame, Frames
      <3> QED BY <1>4, <2>1, <2>2
    <2>5. (\A k \in 1 .. Len(stack) : more[k] = opens[k]) /\ more[Len(stack) + 1] = Len(w) + 1
      BY <2>4
    <2> HIDE DEF frame, more
    <2>6. WellRead(v, close, more, stack')
      BY <1>2, <1>3, <1>4, <2>1, <2>2, <2>3, <2>5, ReadOpening DEF v
    <2>7. Peek # "blank" /\ Peek # "EOF"
      BY <2>1 DEF Openers
    <2>8. Due(v, close, more, stack', "first")
      BY <1>6, <1>7, <2>4, <2>5, <2>7 DEF Due
    <2> QED BY <1>3, <1>8, <2>1, <2>6, <2>7, <2>8
  <1>12. CASE TooDeep \/ NoValue \/ NoMember \/ NoComma \/ Trailing
    BY <1>9, <1>12 DEF TooDeep, NoValue, NoMember, NoComma, Trailing
  <1>13. ASSUME at = "value", Peek \in Words
         PROVE  /\ WellRead(v, close, opens, stack) /\ EndsValue(v, close, Len(v))
                /\ Peek # "blank" /\ Peek # "EOF"
    <2>1. InPlace(v, close, Len(w) + 1) /\ EndsValue(v, close, Len(w) + 1)
      BY <1>2, <1>3, <1>4, <1>13, ValueFits DEF v
    <2>2. Peek \notin Openers \union Closers /\ Peek # "blank" /\ Peek # "EOF"
      BY <1>13 DEF Words, Openers, Closers
    <2>3. WellRead(v, close, opens, stack)
      BY <1>2, <1>3, <1>4, <2>1, <2>2, ReadPlain DEF v
    <2> QED BY <1>6, <2>1, <2>2, <2>3
  <1>14. CASE Scalar
    <2>1. PICK p : at = "value" /\ Peek \in Words /\ Take /\ ValueEnds(stack, p)
      BY <1>14 DEF Scalar, Looks, Words
    <2>2. Due(v, close, opens, stack, at') /\ at' # "ok" /\ stack' = stack
      BY <1>6, <1>7, <1>13, <2>1, AfterValue
    <2> QED BY <1>3, <1>8, <1>13, <2>1, <2>2
  <1>15. CASE Literal
    <2>1. /\ at = "value" /\ Peek \in Words /\ Take /\ at' = "literal" /\ stack' = stack
      BY <1>15 DEF Literal, Looks, Words
    <2>2. Due(v, close, opens, stack, "literal")
      BY <1>7, <1>13, <2>1 DEF Due
    <2> QED BY <1>3, <1>8, <1>13, <2>1, <2>2
  <1>16. CASE LiteralEnds
    <2>1. CASE Fail
      BY <1>9, <2>1
    <2>2. CASE ~Fail
      <3>1. PICK p : at = "literal" /\ Keep /\ ValueEnds(stack, p)
        BY <1>16, <2>2 DEF LiteralEnds, Looks
      <3>2. PICK h \in 1 .. Len(w) : Follows(w, h, Len(w) + 1) /\ EndsValue(w, close, h)
        BY <1>2, <3>1 DEF Due
      <3>3. Due(w, close, opens, stack, at') /\ at' # "ok" /\ stack' = stack
        BY <1>3, <3>1, <3>2, AfterValue
      <3> QED BY <1>2, <1>3, <1>8, <3>1, <3>3
    <2> QED BY <2>1, <2>2
  <1>17. CASE FirstMember
    <2>1. /\ at = "first" /\ Keep /\ stack' = stack /\ stack # <<>>
          /\ at' = IF stack[Len(stack)].kind = "lbrace" THEN "key" ELSE "element"
      BY <1>5, <1>17 DEF FirstMember, Looks, MemberStart, ParserTypes
    <2>2. PICK h \in 1 .. Len(w) : Follows(w, h, Len(w) + 1) /\ h = opens[Len(stack)]
      BY <1>2, <2>1 DEF Due
    <2>3. w[h] = stack[Len(stack)].kind /\ w[h] \in Openers
      <3>1. Len(stack) \in 1 .. Len(stack)
        BY <1>4, <2>1, FrontFacts
      <3> QED BY <1>2, <1>5, <2>1, <2>2, <3>1 DEF WellRead
    <2>4. Due(w, close, opens, stack, at')
      BY <2>1, <2>2, <2>3 DEF Due, Openers
    <2> QED BY <1>2, <1>3, <1>8, <2>1, <2>4
  <1>18. CASE Close
    <2>1. /\ at \in {"first", "next"} /\ Take /\ stack # <<>>
          /\ Peek = Closer(stack[Len(stack)].kind)
      BY <1>5, <1>18 DEF Close, ParserTypes
    <2>2. ValueEnds(Front(stack), page)
      BY <1>18 DEF Close
    <2>3. PICK h \in 1 .. Len(w) : /\ Follows(w, h, Len(w) + 1)
                                   /\ h = opens[Len(stack)] \/ EndsValue(w, close, h)
      BY <1>2, <2>1 DEF Due
    <2>4. Peek \in Closers /\ Peek # "blank" /\ Peek # "EOF"
      BY <2>1 DEF Closer, Closers
    <2>5. PICK further : WellRead(v, further, opens, Front(stack))
      BY <1>2, <1>3, <1>4, <2>1, <2>3, ReadClosing DEF v
    <2>6. EndsValue(v, further, Len(v))
      BY <1>7, <2>4 DEF EndsValue
    <2>7. Due(v, further, opens, Front(stack), at') /\ at' # "ok" /\ stack' = Front(stack)
      BY <1>6, <1>7, <2>2, <2>4, <2>6, AfterValue
    <2> QED BY <1>3, <1>8, <2>1, <2>4, <2>5, <2>7
  <1>19. CASE Key
    <2>1. at = "key" /\ Peek = "str" /\ Take /\ at' = "colon" /\ stack' = stack
      BY <1>19 DEF Key, Looks
    <2>2. /\ InPlace(v, close, Len(w) + 1) /\ IsKey(v, close, Len(w) + 1)
          /\ stack # <<>> /\ stack[Len(stack)].kind = "lbrace"
      BY <1>2, <1>3, <1>4, <2>1, KeyFits DEF v
    <2>3. WellRead(v, close, opens, stack)
      BY <1>2, <1>3, <1>4, <2>1, <2>2, ReadPlain DEF v, Openers, Closers
    <2>4. Due(v, close, opens, stack, "colon")
      BY <1>6, <1>7, <2>1, <2>2 DEF Due
    <2> QED BY <1>3, <1>8, <2>1, <2>3, <2>4
  <1>20. CASE Colon
    <2>1. at = "colon" /\ Peek = "colon" /\ Take /\ at' = "keyvalue" /\ stack' = stack
      BY <1>20 DEF Colon, Looks
    <2>2. InPlace(v, close, Len(w) + 1) /\ stack # <<>> /\ stack[Len(stack)].kind = "lbrace"
      BY <1>2, <1>3, <1>4, <2>1, SignFits DEF v
    <2>3. WellRead(v, close, opens, stack)
      BY <1>2, <1>3, <1>4, <2>1, <2>2, ReadPlain DEF v, Openers, Closers
    <2>4. Due(v, close, opens, stack, "keyvalue")
      BY <1>7, <2>1, <2>2 DEF Due
    <2> QED BY <1>3, <1>8, <2>1, <2>3, <2>4
  <1>21. CASE KeyValue \/ Element
    <2>1. PICK p : StartMember(p) /\ at \in {"keyvalue", "element"}
      BY <1>21 DEF KeyValue, Element, Looks
    <2>2. at' = "value" /\ Keep /\ stack # <<>>
      BY <2>1 DEF StartMember, ParserTypes
    <2>3. /\ Len(stack') = Len(stack) /\ stack' # <<>>
          /\ \A k \in 1 .. Len(stack) : stack'[k].kind = stack[k].kind
      <3> DEFINE n == Len(stack)
                 top == [stack[n] EXCEPT !.flush = ~(Peek \in Openers)]
      <3>1. stack' = [stack EXCEPT ![n] = top]
        BY <2>1 DEF StartMember
      <3>2. n \in 1 .. Len(stack) /\ n \in Nat /\ DOMAIN stack = 1 .. n
        BY <1>4, <2>2, FrontFacts
      <3>3. stack[n] \in Frames
        BY <1>4, <3>2
      <3>4. top \in Frames /\ top.kind = stack[n].kind
        BY <3>3 DEF Frames
      <3> HIDE DEF top, n
      <3>5. stack' \in Seq(Frames) /\ Len(stack') = n
        <4> HIDE DEF Frames
        <4> QED BY <1>4, <3>1, <3>2, <3>4, ExceptSeq DEF n
      <3>6. \A i \in 1 .. n : stack'[i] = IF i = n THEN top ELSE stack[i]
        BY <3>1, <3>2
      <3>7. stack' # <<>>
        BY <2>2, <3>2, <3>5, EmptySeq DEF n
      <3>8. ASSUME NEW i \in 1 .. n PROVE stack'[i].kind = stack[i].kind
        <4>1. CASE i = n
          BY <3>4, <3>6, <4>1
        <4>2. CASE i # n
          BY <3>6, <4>2
        <4> QED BY <4>1, <4>2
      <3> QED BY <3>5, <3>7, <3>8 DEF n
    <2>4. WellRead(w, close, opens, stack')
      BY <1>2, <2>3, SameKinds
    <2>5. stack'[Len(stack')].kind = stack[Len(stack)].kind
      <3>1. Len(stack) \in 1 .. Len(stack)
        BY <1>4, <2>2, FrontFacts
      <3> QED BY <2>3, <3>1
    <2>6. Due(w, close, opens, stack', "value")
      BY <1>2, <2>1, <2>2, <2>3, <2>5 DEF Due
    <2> QED BY <1>3, <1>8, <2>2, <2>4, <2>6
  <1>22. CASE Comma
    <2>1. /\ at = "next" /\ Peek = "comma" /\ Take /\ stack' = stack /\ stack # <<>>
          /\ at' = IF stack[Len(stack)].kind = "lbrace" THEN "key" ELSE "element"
      BY <1>5, <1>22 DEF Comma, Looks, MemberStart, ParserTypes
    <2>2. InPlace(v, close, Len(w) + 1)
      BY <1>2, <1>3, <1>4, <2>1, SignFits DEF v
    <2>3. WellRead(v, close, opens, stack)
      BY <1>2, <1>3, <1>4, <2>1, <2>2, ReadPlain DEF v, Openers, Closers
    <2>4. stack[Len(stack)].kind \in Openers
      BY <1>5, <2>1
    <2>5. Due(v, close, opens, stack, at')
      BY <1>7, <2>1, <2>4 DEF Due, Openers
    <2> QED BY <1>3, <1>8, <2>1, <2>3, <2>5
  <1>23. CASE End
    <2>1. at = "end" /\ Peek = "EOF" /\ Keep /\ at' = "ok" /\ stack' = stack
      BY <1>23 DEF End, Looks
    <2>2. AtEnd' /\ pb' = <<>>
      BY <1>1, <1>3, <2>1 DEF AtEnd, Keep
    <2>3. Due(w, close, opens, stack, "ok")
      BY <1>2, <2>1 DEF Due
    <2> QED BY <1>2, <1>3, <2>1, <2>2, <2>3 DEF GrammarInv
  <1> QED BY <1>10, <1>11, <1>12, <1>14, <1>15, <1>16, <1>17, <1>18, <1>19, <1>20, <1>21, <1>22,
             <1>23 DEF Parse

LEMMA GrammarInit ==
  ASSUME ParserInit PROVE GrammarInv
  <1>1. /\ seen = <<>> /\ pb = <<>> /\ stack = <<>> /\ at = "value" /\ Read = <<>>
    BY DEF ParserInit, Read, AtEnd
  <1> DEFINE none == [j \in {} |-> 1]
  <1>2. none \in [{} -> 1 .. 0] /\ DOMAIN none = {}
    OBVIOUS
  <1> HIDE DEF none
  <1>3. /\ DOMAIN <<>> = {} /\ Len(<<>>) = 0
        /\ Openings(<<>>) = {} /\ Closings(<<>>) = {} /\ Filled(<<>>) = {}
    BY DEF Openings, Closings, Filled
  <1>4. Paired(<<>>, none)
    BY <1>2, <1>3 DEF Paired
  <1>5. OnlyPairing(<<>>, none)
    <2>1. ASSUME NEW other, DOMAIN other \subseteq {}, other \in [DOMAIN other -> 1 .. 0]
          PROVE  other = none
      <3>1. DOMAIN other = {}
        BY <2>1
      <3> QED BY <1>2, <2>1, <3>1
    <2> QED BY <1>3, <2>1 DEF OnlyPairing, Pairing
  <1>6. Counted(<<>>, <<>>)
    BY <1>3, FS_EmptySet DEF Counted
  <1>7. WellRead(<<>>, none, none, <<>>)
    BY <1>2, <1>3, <1>4, <1>5, <1>6 DEF WellRead, Pairing
  <1>8. Due(<<>>, none, none, <<>>, "value")
    BY <1>3 DEF Due
  <1> QED BY <1>1, <1>7, <1>8 DEF GrammarInv

LEMMA GrammarStep ==
  ASSUME DepthInv, GrammarInv, [ParserNext]_parserVars PROVE GrammarInv'
  <1> SUFFICES ASSUME ~IsText' PROVE GrammarInv'
    BY DEF GrammarInv
  <1>1. CASE Fetch
    <2>1. ~IsText /\ Read' = Read
      BY <1>1, FetchReadsNothing
    <2>2. at' = at /\ stack' = stack /\ at # "ok"
      BY <1>1 DEF Fetch
    <2> QED BY <2>1, <2>2 DEF GrammarInv
  <1>2. CASE Parse
    <2>1. ~IsText
      <3>1. seen' = seen
        BY <1>2 DEF Parse, SkipBlank, Open, TooDeep, Scalar, Literal, LiteralEnds, NoValue,
           FirstMember, Close, Key, Colon, NoMember, KeyValue, Element, Comma, NoComma, End,
           Trailing, Fail, ValueEnds, StartMember
      <3> QED BY <3>1 DEF IsText
    <2> QED BY <1>2, <2>1, ParseKeepsGrammar
  <1>3. CASE Decode
    <2>1. IsText /\ seen' = seen
      BY <1>3, DecodesText DEF Decode, OpenString, Text, CloseString, Escape, Unit, Pair, PairU,
         Low, BadString, Goes, ValueEnds, Fail, Units
    <2> QED BY <2>1 DEF IsText
  <1>4. CASE UNCHANGED parserVars
    BY <1>4 DEF parserVars, GrammarInv, IsText, AtEnd, Read
  <1> QED BY <1>1, <1>2, <1>3, <1>4 DEF ParserNext, Stopped

-----------------------------------------------------------------------------
(* What is refused                                                         *)

(* The places of the brackets that Begins pairs are such pairs.            *)
LEMMA BeginsPaired ==
  ASSUME NEW v \in Seq(Tokens), Begins(v)
  PROVE  \E other : Pairing(v, other) /\ \A i \in Filled(v) : InPlace(v, other, i)
  <1>1. PICK inner \in SUBSET Openings(v) :
          \E close \in [inner -> Closings(v)] : Grammatical(v, close)
    BY DEF Begins
  <1>2. PICK other \in [inner -> Closings(v)] : Grammatical(v, other)
    BY <1>1
  <1>3. DOMAIN v = 1 .. Len(v)
    <2> HIDE DEF Tokens
    <2> QED OBVIOUS
  <1>4. DOMAIN other = inner /\ \A j \in inner : other[j] \in 1 .. Len(v)
    BY <1>2, <1>3 DEF Closings
  <1>5. other \in [DOMAIN other -> 1 .. Len(v)]
    BY <1>2, <1>4
  <1>6. Pairing(v, other) /\ \A i \in Filled(v) : InPlace(v, other, i)
    BY <1>1, <1>2, <1>4, <1>5 DEF Pairing, Grammatical
  <1> QED BY <1>6

(* The token t may come next, if the one at h is the last that is no blank. *)
MayCome(w, close, opens, st, h, t) ==
  \/ t = "colon" /\ IsKey(w, close, h)
  \/ /\ st # <<>>
     /\ \/ /\ t \in Openers \union Words
           /\ \/ st[Len(st)].kind = "lbracket" /\ w[h] \in {"lbracket", "comma"}
              \/ st[Len(st)].kind = "lbrace" /\ w[h] = "colon"
        \/ t = "str" /\ st[Len(st)].kind = "lbrace" /\ w[h] \in {"lbrace", "comma"}
        \/ t = "comma" /\ EndsValue(w, close, h)
        \/ t = Closer(st[Len(st)].kind) /\ (h = opens[Len(st)] \/ EndsValue(w, close, h))

LEMMA OnlyThatComes ==
  ASSUME NEW w \in Seq(Tokens), NEW t \in Tokens, NEW close, NEW opens,
         NEW st \in Seq(Frames), WellRead(w, close, opens, st),
         t # "blank", Begins(Append(w, t))
  PROVE  \/ Filled(w) = {} /\ t \in Openers \union Words
         \/ \E h \in 1 .. Len(w) : /\ Follows(w, h, Len(w) + 1)
                                   /\ MayCome(w, close, opens, st, h, t)
  <1> DEFINE v == Append(w, t)
             n == Len(w) + 1
             top == opens[Len(st)]
  <1>1. /\ Len(w) \in Nat /\ v[n] = t /\ \A k \in 1 .. Len(w) : v[k] = w[k]
        /\ DOMAIN w = 1 .. Len(w) /\ DOMAIN v = 1 .. n /\ v \in Seq(Tokens)
        /\ n \in 1 .. Len(w) + 1 /\ Begun(w, v)
    BY AppendedIs
  <1>2. /\ Around(v, close, n) # {} <=> Len(st) > 0
        /\ Len(st) > 0 => \A o : Within(v, close, n, o) <=> o = st[Len(st)].kind
        /\ Len(st) = 0 => \A o : ~Within(v, close, n, o)
    BY AroundNext
  <1>3. Len(st) \in Nat /\ (Len(st) > 0 => st # <<>>)
    <2> HIDE DEF Frames
    <2> QED OBVIOUS
  <1>4. PICK other : Pairing(v, other) /\ \A i \in Filled(v) : InPlace(v, other, i)
    BY <1>1, BeginsPaired
  <1>5. /\ t \notin Closers => other = close
        /\ t \in Closers => /\ st # <<>> /\ t = Closer(st[Len(st)].kind)
                            /\ other = Ended(w, close, top)
    BY <1>4, PairingNext
  <1> HIDE DEF v
  <1>6. InPlace(v, other, n)
    <2>1. n \in Filled(v)
      BY <1>1 DEF Filled
    <2> QED BY <1>4, <2>1
  <1>7. ASSUME t \in Openers \union Words, \A k \in 1 .. (n - 1) : v[k] = "blank"
        PROVE  Filled(w) = {}
    BY <1>1, <1>7 DEF Filled
  <1>8. ASSUME NEW h \in 1 .. (n - 1), Follows(v, h, n), MayFollow(v, other, h, n)
        PROVE  /\ h \in 1 .. Len(w) /\ Follows(w, h, n)
               /\ MayCome(w, close, opens, st, h, t)
    <2>1. h \in 1 .. Len(w) /\ v[h] = w[h] /\ Follows(w, h, n)
      BY <1>1, <1>8, FollowsKept
    <2>2. Prolongs(w, close, other)
      <3>1. CASE t \notin Closers
        BY <1>5, <3>1 DEF Prolongs
      <3>2. CASE t \in Closers
        <4>1. top \notin DOMAIN close
          <5>1. Len(st) \in 1 .. Len(st)
            BY <1>3, <1>5, <3>2, FrontFacts
          <5> QED BY <5>1 DEF WellRead
        <4> QED BY <1>1, <1>5, <3>2, <4>1 DEF Prolongs, Ended
      <3> QED BY <3>1, <3>2
    <2>3. /\ IsKey(v, other, h) <=> IsKey(w, close, h)
          /\ EndsValue(v, other, h) <=> EndsValue(w, close, h)
      BY <1>1, <2>1, <2>2, KeyKept
    <2>4. CASE t \notin Closers
      <3>1. other = close
        BY <1>5, <2>4
      <3>2. Around(v, other, n) # {} => st # <<>>
        BY <1>2, <1>3, <3>1
      <3>3. ASSUME NEW o, Within(v, other, n, o) PROVE st # <<>> /\ o = st[Len(st)].kind
        BY <1>2, <1>3, <3>1, <3>3
      <3> QED BY <1>1, <1>8, <2>1, <2>3, <2>4, <3>2, <3>3 DEF MayFollow, MayCome
    <2>5. CASE t \in Closers
      <3>1. st # <<>> /\ t = Closer(st[Len(st)].kind) /\ other = Ended(w, close, top)
        BY <1>5, <2>5
      <3>2. (h \in DOMAIN other /\ other[h] = n) \/ EndsValue(v, other, h)
        BY <1>1, <1>8, <2>5 DEF MayFollow, Openers, Words, Closers
      <3>3. ASSUME h \in DOMAIN other, other[h] = n PROVE h = top
        <4>1. SUFFICES ASSUME h \in DOMAIN close, close[h] = n PROVE FALSE
          BY <3>1, <3>3 DEF Ended
        <4>2. close[h] \in 1 .. Len(w)
          BY <4>1 DEF WellRead, Pairing
        <4> QED BY <1>1, <4>1, <4>2
      <3> QED BY <2>1, <2>3, <3>1, <3>2, <3>3 DEF MayCome
    <2> QED BY <2>1, <2>4, <2>5
  <1>9. \/ t \in Openers \union Words /\ \A k \in 1 .. (n - 1) : v[k] = "blank"
        \/ \E h \in 1 .. (n - 1) : Follows(v, h, n) /\ MayFollow(v, other, h, n)
    BY <1>1, <1>6 DEF InPlace
  <1> QED BY <1>7, <1>8, <1>9

(* The token at which the parser stops cannot come where it is.            *)
LEMMA Refused ==
  ASSUME NEW w \in Seq(Tokens), NEW t \in Tokens, NEW close, NEW opens,
         NEW st \in Seq(Frames), WellRead(w, close, opens, st),
         NEW where, Due(w, close, opens, st, where), t # "blank",
         \A h : Follows(w, h, Len(w) + 1) /\ w[h] \in Openers /\ where \in {"value", "key"}
                  => t # Closer(w[h]),
         \/ where = "value" /\ t \notin Openers \union Words
         \/ where = "key" /\ t # "str"
         \/ where = "colon" /\ t # "colon"
         \/ where = "literal" /\ t \in Words
         \/ where = "next" /\ t \notin {"comma", Closer(st[Len(st)].kind)}
         \/ where = "end"
  PROVE  ~Begins(Append(w, t))
  <1> SUFFICES ASSUME Begins(Append(w, t)) PROVE FALSE
    OBVIOUS
  <1>1. Len(w) + 1 \in Nat /\ DOMAIN w = 1 .. Len(w)
    <2> HIDE DEF Tokens
    <2> QED OBVIOUS
  <1>2. ASSUME NEW h \in 1 .. Len(w), Follows(w, h, Len(w) + 1) PROVE Filled(w) # {}
    BY <1>1, <1>2 DEF Follows, Filled
  <1>3. Filled(w) = {} => where = "value"
    BY <1>2 DEF Due
  <1>4. PICK h \in 1 .. Len(w) : /\ Follows(w, h, Len(w) + 1)
                                 /\ MayCome(w, close, opens, st, h, t)
    BY <1>3, OnlyThatComes
  <1>5. \A g : Follows(w, g, Len(w) + 1) => g = h
    BY <1>1, <1>4, FollowsOne
  (* A container that is closed as soon as it is opened.                   *)
  <1>6. st # <<>> => /\ w[opens[Len(st)]] = st[Len(st)].kind
                     /\ st[Len(st)].kind \in Openers
    <2>1. ASSUME st # <<>> PROVE Len(st) \in 1 .. Len(st) /\ st[Len(st)] \in Frames
      <3>1. Len(st) \in 1 .. Len(st)
        BY <2>1, FrontFacts
      <3> HIDE DEF Frames
      <3> QED BY <3>1
    <2> QED BY <2>1 DEF WellRead, Frames
  <1>7. IsKey(w, close, h) => w[h] = "str" /\ ~EndsValue(w, close, h)
    BY DEF IsKey, EndsValue, Closers
  <1>8. EndsValue(w, close, h) => w[h] \in Closers \union Words
    BY DEF EndsValue
  <1>9. CASE where \in {"value", "key"}
    <2>1. /\ w[h] \in {"lbracket", "lbrace", "comma", "colon"}
          /\ where = "key" => /\ st # <<>> /\ st[Len(st)].kind = "lbrace"
                              /\ w[h] \in {"lbrace", "comma"}
      BY <1>2, <1>4, <1>5, <1>9 DEF Due
    <2>2. ~EndsValue(w, close, h) /\ ~IsKey(w, close, h)
      BY <1>7, <1>8, <2>1 DEF Closers, Words
    <2>3. ASSUME st # <<>>, h = opens[Len(st)] PROVE t # Closer(st[Len(st)].kind)
      BY <1>4, <1>6, <1>9, <2>3
    <2> QED BY <1>4, <1>9, <2>1, <2>2, <2>3 DEF MayCome, Words
  <1>10. CASE where = "colon"
    <2>1. IsKey(w, close, h)
      BY <1>4, <1>5, <1>10 DEF Due
    <2>2. st # <<>> => h # opens[Len(st)]
      BY <1>6, <1>7, <2>1 DEF Openers
    <2> QED BY <1>4, <1>7, <1>10, <2>1, <2>2 DEF MayCome
  <1>11. CASE where \in {"literal", "next", "end"}
    <2>1. /\ EndsValue(w, close, h) /\ (where = "end" => st = <<>>)
          /\ where = "next" => st # <<>>
      BY <1>4, <1>5, <1>11 DEF Due
    <2>2. w[h] \notin {"lbracket", "lbrace", "comma", "colon"} /\ ~IsKey(w, close, h)
      BY <1>7, <1>8, <2>1 DEF Closers, Words
    <2>3. ASSUME t \in Words, st # <<>>
          PROVE  t \notin {"comma", "colon", Closer(st[Len(st)].kind)}
      BY <2>3 DEF Words, Closer
    <2> QED BY <1>4, <1>11, <2>1, <2>2, <2>3 DEF MayCome, Words
  <1> QED BY <1>9, <1>10, <1>11

(* Nothing more comes, but a container is open or no value was read.       *)
LEMMA Unfinished ==
  ASSUME NEW w \in Seq(Tokens), NEW close, NEW opens,
         NEW st \in Seq(Frames), WellRead(w, close, opens, st),
         NEW where \in {"value", "key", "colon", "next"}, Due(w, close, opens, st, where)
  PROVE  ~Json(w)
  <1>1. CASE st = <<>>
    <2>1. Filled(w) = {}
      BY <1>1 DEF Due
    <2> QED BY <2>1 DEF Json
  <1>2. CASE st # <<>>
    <2> SUFFICES ASSUME Json(w) PROVE FALSE
      OBVIOUS
    <2>1. DOMAIN w = 1 .. Len(w)
      <3> HIDE DEF Tokens
      <3> QED OBVIOUS
    <2>2. PICK other \in [Openings(w) -> Closings(w)] : Grammatical(w, other)
      BY DEF Json
    <2>3. Pairing(w, other)
      <3>1. Closings(w) \subseteq 1 .. Len(w)
        BY <2>1 DEF Closings
      <3>2. DOMAIN other = Openings(w) /\ other \in [DOMAIN other -> 1 .. Len(w)]
        BY <2>2, <3>1
      <3> QED BY <2>2, <3>2 DEF Pairing, Grammatical
    <2>4. other = close
      BY <2>3 DEF WellRead, OnlyPairing
    <2>5. Len(st) \in 1 .. Len(st) /\ st[Len(st)] \in Frames
      <3>1. Len(st) \in 1 .. Len(st)
        BY <1>2, FrontFacts
      <3> HIDE DEF Frames
      <3> QED BY <3>1
    <2>6. opens[Len(st)] \in Openings(w) /\ opens[Len(st)] \notin DOMAIN close
      BY <2>1, <2>5 DEF WellRead, Openings, Frames
    <2> QED BY <2>2, <2>4, <2>6
  <1> QED BY <1>1, <1>2

(* The parser knows why it stops, if it is not for the depth.              *)
Justified ==
  NestedTooDeep(Input) \/ IF AtEnd THEN ~Json(Input) ELSE ~Begins(Input)

(* No container lies deeper than it is nested.                             *)
DepthLow ==
  /\ at = "value" => depth <= Len(stack)
  /\ \A i \in 1 .. Len(stack) : stack[i].depth < i

(* A member may be the first of its container only if what comes next was  *)
(* seen, and does not close it.                                            *)
FirstSeen ==
  at \in {"value", "element", "key"} =>
    \A h : Follows(Read, h, Len(Read) + 1) /\ Read[h] \in Openers =>
             Ready /\ Peek # "blank" /\ Peek # Closer(Read[h])

ErrorInv ==
  ~IsText => DepthLow /\ FirstSeen /\ (at = "error" => Justified)

LEMMA InputIs ==
  ASSUME DepthInv, ~IsText, Ready
  PROVE  /\ AtEnd => Peek = "EOF" /\ Input = Read
         /\ ~AtEnd => Peek # "EOF" /\ Input = Append(Read, Peek)
  <1> USE DEF DepthInv
  <1>1. seen \in Seq(Tokens) /\ seen # <<>>
    BY ReadyFacts DEF ParserTypes
  <1>2. Append(Front(seen), Last(seen)) = seen
    <2> HIDE DEF Tokens
    <2> QED BY <1>1, LastAppended
  <1>3. AtEnd => pb = <<>>
    BY DEF TokensInv
  <1>4. ~AtEnd => pb # <<>> /\ Peek = Last(seen)
    BY ReadyFacts
  <1> QED BY <1>1, <1>2, <1>3, <1>4 DEF Input, Read, Peek, AtEnd

(* More containers are open than the limit on depth allows.                *)
LEMMA TooManyOpen ==
  ASSUME NEW w \in Seq(Tokens), NEW t \in Openers, NEW close, NEW opens,
         NEW st \in Seq(Frames), WellRead(w, close, opens, st), Len(st) > MAX_DEPTH
  PROVE  NestedTooDeep(Append(w, t))
  <1> DEFINE v == Append(w, t)
             n == Len(w) + 1
  <1>1. /\ Len(w) \in Nat /\ v[n] = t /\ \A k \in 1 .. Len(w) : v[k] = w[k]
        /\ DOMAIN w = 1 .. Len(w) /\ DOMAIN v = 1 .. n
    <2>1. t \in Tokens
      BY DEF Tokens
    <2> QED BY <2>1, AppendedIs
  <1>2. Len(st) \in Nat
    <2> HIDE DEF Frames
    <2> QED OBVIOUS
  <1> HIDE DEF v
  <1>3. /\ Openings(v) = Openings(w) \union {n} /\ n \notin Openings(w)
        /\ Closings(v) = Closings(w)
    <2>1. \A j : j \in Openings(v) <=> j \in Openings(w) \/ j = n
      BY <1>1 DEF Openings
    <2>2. Closings(v) = Closings(w)
      BY <1>1 DEF Closings, Openers, Closers
    <2>3. n \notin Openings(w)
      BY <1>1 DEF Openings
    <2> QED BY <2>1, <2>2, <2>3
  <1>4. Counted(w, st)
    BY DEF WellRead
  <1>5. Cardinality(Openings(v)) = Cardinality(Openings(w)) + 1
    BY <1>3, <1>4, FS_AddElement DEF Counted
  <1>6. Cardinality(Closings(w)) \in Nat
    BY <1>4, FS_CardinalityType DEF Counted
  <1>7. Cardinality(Openings(v)) > Cardinality(Closings(v)) + MAX_DEPTH + 1
    BY <1>2, <1>3, <1>4, <1>5, <1>6, J2tAssumption DEF Counted
  <1> QED BY <1>7 DEF NestedTooDeep, v

(* Each error is one of the document.                                      *)
LEMMA ErrorsJustified ==
  ASSUME DepthInv, GrammarInv, ErrorInv, ~IsText, Fail,
         TooDeep \/ NoValue \/ NoMember \/ NoComma \/ Trailing \/ LiteralEnds
  PROVE  Justified'
  <1> USE DEF DepthInv
  <1> DEFINE w == Read
  <1>1. Ready
    BY DEF TooDeep, NoValue, NoMember, NoComma, Trailing, LiteralEnds, Looks
  <1>2. PICK close, opens : WellRead(w, close, opens, stack) /\ Due(w, close, opens, stack, at)
    BY DEF GrammarInv
  <1>3. w \in Seq(Tokens) /\ Peek \in Tokens
    BY <1>1, ReadSteps DEF Fail
  <1>4. /\ AtEnd => Peek = "EOF" /\ Input = w
        /\ ~AtEnd => Peek # "EOF" /\ Input = Append(w, Peek)
    BY <1>1, InputIs
  <1>5. stack \in Seq(Frames)
    BY DEF ParserTypes
  <1>6. \A h : Follows(w, h, Len(w) + 1) /\ w[h] \in Openers /\ at \in {"value", "key"}
                 => Peek # Closer(w[h])
    BY DEF ErrorInv, FirstSeen
  <1> HIDE DEF w
  <1>7. SUFFICES Justified
    BY DEF Fail, Justified, Input, AtEnd
  <1>8. ASSUME \/ at = "value" /\ Peek \notin Openers \union Words
               \/ at = "key" /\ Peek # "str"
               \/ at = "colon" /\ Peek # "colon"
               \/ at = "literal" /\ Peek \in Words
               \/ at = "next" /\ Peek \notin {"comma", Closer(stack[Len(stack)].kind)}
               \/ at = "end" /\ Peek # "EOF",
               Peek # "blank"
        PROVE  Justified
    <2>1. CASE AtEnd
      <3>1. at \in {"value", "key", "colon", "next"}
        BY <1>4, <1>8, <2>1 DEF Words
      <3>2. ~Json(w)
        BY <1>2, <1>3, <1>5, <3>1, Unfinished
      <3> QED BY <1>4, <2>1, <3>2 DEF Justified
    <2>2. CASE ~AtEnd
      <3>1. ~Begins(Append(w, Peek))
        BY <1>2, <1>3, <1>5, <1>6, <1>8, Refused
      <3> QED BY <1>4, <2>2, <3>1 DEF Justified
    <2> QED BY <2>1, <2>2
  <1>9. CASE TooDeep
    <2>1. at = "value" /\ Peek \in Openers /\ ~(depth <= MAX_DEPTH)
      BY <1>9 DEF TooDeep, Looks, OpenAllowed
    <2>2. depth <= Len(stack) /\ Len(stack) \in Nat /\ depth \in Nat
      BY <2>1, StackTypes DEF ErrorInv, DepthLow, ParserTypes
    <2>3. Len(stack) > MAX_DEPTH
      BY <2>1, <2>2, J2tAssumption
    <2>4. NestedTooDeep(Append(w, Peek))
      BY <1>2, <1>3, <1>5, <2>1, <2>3, TooManyOpen
    <2>5. ~AtEnd
      BY <1>4, <2>1 DEF Openers
    <2> QED BY <1>4, <2>4, <2>5 DEF Justified
  <1>10. CASE NoValue
    BY <1>8, <1>10 DEF NoValue, Looks
  <1>11. CASE NoMember
    BY <1>8, <1>11 DEF NoMember, Looks
  <1>12. CASE NoComma
    <2>1. at = "next" /\ Peek \notin {"blank", "comma", Closer(Top.kind)}
      BY <1>12 DEF NoComma, Looks
    <2>2. Top = stack[Len(stack)]
      BY <2>1, StackTop DEF ParserTypes
    <2> QED BY <1>8, <2>1, <2>2
  <1>13. CASE Trailing
    BY <1>8, <1>13 DEF Trailing, Looks
  <1>14. CASE LiteralEnds
    <2>1. at = "literal" /\ Peek \in {"true", "0"}
      <3>1. at' = "error"
        BY DEF Fail
      <3>2. ASSUME NEW p, ValueEnds(stack, p) PROVE at' # "error"
        BY <3>2 DEF ValueEnds
      <3> QED BY <1>14, <3>1, <3>2 DEF LiteralEnds, Looks
    <2> QED BY <1>8, <2>1 DEF Words
  <1> QED BY <1>9, <1>10, <1>11, <1>12, <1>13, <1>14

(* A step after which no member is due.                                    *)
LEMMA QuietKeepsErrors ==
  ASSUME DepthInv, ErrorInv, ~IsText,
         at' \notin {"value", "element", "key", "error"},
         stack' = stack \/ (stack # <<>> /\ stack' = Front(stack))
  PROVE  ErrorInv'
  <1>1. \A i \in 1 .. Len(stack') : stack'[i].depth < i
    <2>1. CASE stack' = stack
      BY <2>1 DEF ErrorInv, DepthLow
    <2>2. CASE stack # <<>> /\ stack' = Front(stack)
      <3>1. /\ Len(stack) \in Nat /\ Len(stack') = Len(stack) - 1
            /\ \A i \in 1 .. Len(stack) - 1 : stack'[i] = stack[i]
        <4>1. stack \in Seq(Frames)
          BY DEF DepthInv, ParserTypes
        <4> HIDE DEF Frames
        <4> QED BY <2>2, <4>1, FrontFacts
      <3>2. \A i \in 1 .. Len(stack) - 1 : i \in 1 .. Len(stack)
        BY <3>1
      <3> QED BY <3>1, <3>2 DEF ErrorInv, DepthLow
    <2> QED BY <2>1, <2>2
  <1> QED BY <1>1 DEF ErrorInv, DepthLow, FirstSeen

(* The value of a member is due.                                           *)
LEMMA StartMemberKeepsErrors ==
  ASSUME DepthInv, GrammarInv, ErrorInv, Ready, ~IsText, NEW p, StartMember(p),
         at \in {"keyvalue", "element"}
  PROVE  ErrorInv'
  <1> USE DEF DepthInv
  <1> DEFINE k == Len(stack)
  <1>1. stack # <<>> /\ stack \in Seq(Frames)
    BY DEF ParserTypes
  <1>2. /\ depth' = IF Peek \in Openers THEN stack[k].depth + 1 ELSE stack[k].depth
        /\ at' = "value" /\ Keep /\ seen' = seen
    BY DEF StartMember, Top, Last
  <1>3. k \in Nat /\ k \in 1 .. k /\ stack[k].depth \in Nat /\ stack[k].depth < k
    <2>1. k \in 1 .. Len(stack)
      BY <1>1, FrontFacts
    <2> QED BY <2>1, StackTypes DEF ErrorInv, DepthLow
  <1>4. /\ Len(stack') = k /\ \A i \in 1 .. k : stack'[i].depth = stack[i].depth
    <2> DEFINE top == [stack[k] EXCEPT !.flush = ~(Peek \in Openers)]
    <2>1. stack[k] \in Frames
      BY <1>1, <1>3
    <2>2. top \in Frames /\ top.depth = stack[k].depth
      BY <2>1 DEF Frames
    <2>3. stack' = [stack EXCEPT ![k] = top]
      BY DEF StartMember
    <2> HIDE DEF top, k
    <2>4. DOMAIN stack = 1 .. k /\ k = Len(stack)
      BY <1>1 DEF k
    <2>5. Len(stack') = k
      <3> HIDE DEF Frames
      <3> QED BY <1>1, <1>3, <2>2, <2>3, <2>4, ExceptSeq
    <2>6. \A i \in 1 .. k : stack'[i] = IF i = k THEN top ELSE stack[i]
      BY <1>1, <2>3, <2>4
    <2>7. ASSUME NEW i \in 1 .. k PROVE stack'[i].depth = stack[i].depth
      <3>1. CASE i = k
        BY <2>2, <2>6, <3>1
      <3>2. CASE i # k
        BY <2>6, <3>2
      <3> QED BY <3>1, <3>2
    <2> QED BY <2>5, <2>7 DEF k
  <1>5. DepthLow'
    <2>1. depth' <= k
      BY <1>2, <1>3
    <2> QED BY <1>4, <2>1 DEF ErrorInv, DepthLow
  <1>6. /\ Read' = Read /\ (Ready' <=> Ready) /\ Peek' = Peek
    BY <1>2, ReadSteps DEF Keep, Ready, Peek, AtEnd
  <1>7. FirstSeen'
    <2>1. CASE at = "element"
      BY <1>6, <2>1 DEF ErrorInv, FirstSeen
    <2>2. CASE at = "keyvalue"
      <3>1. PICK h : Follows(Read, h, Len(Read) + 1) /\ Read[h] = "colon"
        BY <2>2 DEF GrammarInv, Due
      <3>2. Len(Read) + 1 \in Nat /\ Read \in Seq(Tokens)
        <4>1. Read \in Seq(Tokens)
          BY <1>2, ReadSteps
        <4> QED BY <4>1
      <3>3. \A g : Follows(Read, g, Len(Read) + 1) => g = h
        BY <3>1, <3>2, FollowsOne
      <3> QED BY <1>6, <3>1, <3>3 DEF FirstSeen, Openers
    <2> QED BY <2>1, <2>2
  <1> QED BY <1>2, <1>5, <1>7 DEF ErrorInv

LEMMA ParseKeepsErrors ==
  ASSUME DepthInv, GrammarInv, ErrorInv, Parse, ~IsText PROVE ErrorInv'
  <1> USE DEF DepthInv
  <1>1. Ready /\ seen' = seen
    BY DEF Parse, SkipBlank, Open, TooDeep, Scalar, Literal, LiteralEnds, NoValue, FirstMember,
           Close, Key, Colon, NoMember, KeyValue, Element, Comma, NoComma, End, Trailing, Looks,
           Fail, ValueEnds, StartMember
  <1> DEFINE w == Read
             v == Append(w, Peek)
  <1>2. PICK close, opens : WellRead(w, close, opens, stack) /\ Due(w, close, opens, stack, at)
    BY DEF GrammarInv
  <1>3. /\ w \in Seq(Tokens) /\ Peek \in Tokens
        /\ Keep => Read' = w
        /\ Take /\ Peek # "EOF" => Read' = v
    BY <1>1, ReadSteps
  <1>4. stack \in Seq(Frames)
    BY DEF ParserTypes
  <1>5. stack # <<>> => Top = stack[Len(stack)] /\ Top.kind \in Openers
    BY StackTop
  <1>6. /\ Len(w) \in Nat /\ Len(v) = Len(w) + 1 /\ v \in Seq(Tokens) /\ Begun(w, v)
        /\ v[Len(w) + 1] = Peek
    BY <1>3, AppendedIs
  <1> HIDE DEF w, v
  <1>7. ASSUME Fail, TooDeep \/ NoValue \/ NoMember \/ NoComma \/ Trailing \/ LiteralEnds
        PROVE  ErrorInv'
    <2>1. Justified'
      BY <1>7, ErrorsJustified
    <2> QED BY <1>7, <2>1 DEF ErrorInv, DepthLow, FirstSeen, Fail
  <1>8. CASE TooDeep \/ NoValue \/ NoMember \/ NoComma \/ Trailing
    BY <1>7, <1>8 DEF TooDeep, NoValue, NoMember, NoComma, Trailing
  <1>9. ASSUME NEW p, NEW s, ValueEnds(s, p), s = stack \/ (stack # <<>> /\ s = Front(stack))
        PROVE  ErrorInv'
    BY <1>9, QuietKeepsErrors DEF ValueEnds
  <1>10. CASE SkipBlank
    <2>1. Peek = "blank" /\ Take /\ UNCHANGED <<at, depth, stack>> /\ at # "error"
      BY <1>10 DEF SkipBlank
    <2>2. FirstSeen'
      <3> SUFFICES ASSUME at \in {"value", "element", "key"}, NEW h,
                          Follows(v, h, Len(v) + 1), v[h] \in Openers
                   PROVE  FALSE
        BY <1>3, <2>1 DEF FirstSeen
      <3>1. h \in 1 .. Len(w) + 1
        BY <1>6 DEF Follows
      <3>2. h # Len(w) + 1
        BY <1>6, <2>1 DEF Openers
      <3>3. h \in 1 .. Len(w) /\ w[h] = v[h]
        BY <1>6, <3>1, <3>2 DEF Begun
      <3>4. Follows(v, h, Len(w) + 1)
        BY <1>6, <3>3 DEF Follows
      <3>5. Follows(w, h, Len(w) + 1)
        <4>1. Len(w) + 1 \in 1 .. Len(w) + 1
          BY <1>6
        <4> QED BY <1>3, <1>6, <3>4, <4>1, FollowsKept
      <3> QED BY <2>1, <3>3, <3>5 DEF ErrorInv, FirstSeen, w
    <2> QED BY <2>1, <2>2 DEF ErrorInv, DepthLow
  <1>11. CASE Open
    <2> DEFINE frame == [kind |-> Peek, depth |-> depth, flush |-> FALSE]
    <2>1. /\ at = "value" /\ at' = "first" /\ stack' = Append(stack, frame) /\ Peek \in Openers
          /\ depth <= MAX_DEPTH
      BY <1>11 DEF Open, Looks, OpenAllowed
    <2>2. frame \in Frames /\ frame.depth = depth /\ depth \in Nat /\ depth <= Len(stack)
      BY <2>1, J2tAssumption DEF Frames, ParserTypes, ErrorInv, DepthLow
    <2>3. /\ Len(stack) \in Nat /\ Len(stack') = Len(stack) + 1
          /\ stack'[Len(stack) + 1] = frame
          /\ \A i \in 1 .. Len(stack) : stack'[i] = stack[i]
      <3> HIDE DEF frame, Frames
      <3> QED BY <1>4, <2>1, <2>2
    <2>4. ASSUME NEW i \in 1 .. Len(stack') PROVE stack'[i].depth < i
      <3>1. CASE i = Len(stack) + 1
        <4> HIDE DEF frame
        <4> QED BY <2>2, <2>3, <3>1
      <3>2. CASE i \in 1 .. Len(stack)
        BY <2>3, <3>2 DEF ErrorInv, DepthLow
      <3> QED BY <2>3, <3>1, <3>2
    <2> QED BY <2>1, <2>4 DEF ErrorInv, DepthLow, FirstSeen
  <1>12. CASE Scalar
    BY <1>9, <1>12 DEF Scalar
  <1>13. CASE Literal \/ Colon \/ End
    BY <1>13, QuietKeepsErrors DEF Literal, Colon, End
  <1>14. CASE LiteralEnds
    BY <1>7, <1>9, <1>14 DEF LiteralEnds
  <1>15. CASE FirstMember
    <2>1. /\ at = "first" /\ Keep /\ UNCHANGED <<depth, stack>> /\ stack # <<>>
          /\ at' \in {"key", "element"} /\ Peek \notin {"blank", Closer(Top.kind)}
      BY <1>15 DEF FirstMember, Looks, MemberStart, ParserTypes
    <2>2. PICK h \in 1 .. Len(w) : Follows(w, h, Len(w) + 1) /\ h = opens[Len(stack)]
      BY <1>2, <2>1 DEF Due
    <2>3. w[h] = Top.kind
      <3>1. Len(stack) \in 1 .. Len(stack)
        BY <1>4, <2>1, FrontFacts
      <3> QED BY <1>2, <1>5, <2>1, <2>2, <3>1 DEF WellRead
    <2>4. \A g : Follows(w, g, Len(w) + 1) => g = h
      <3>1. Len(w) + 1 \in Nat
        BY <1>6
      <3> QED BY <1>3, <2>2, <3>1, FollowsOne
    <2>5. Ready' /\ Peek' = Peek
      BY <1>1, <2>1 DEF Ready, Peek, Keep, AtEnd
    <2>6. FirstSeen'
      BY <1>3, <2>1, <2>3, <2>4, <2>5 DEF FirstSeen
    <2> QED BY <2>1, <2>6 DEF ErrorInv, DepthLow
  <1>16. CASE Close
    <2>1. stack # <<>> /\ ValueEnds(Front(stack), page)
      BY <1>16 DEF Close, ParserTypes
    <2> QED BY <1>9, <2>1
  <1>17. CASE Key
    BY <1>17, QuietKeepsErrors DEF Key
  <1>18. CASE KeyValue \/ Element
    BY <1>1, <1>18, StartMemberKeepsErrors DEF KeyValue, Element, Looks
  <1>19. CASE Comma
    <2>1. /\ Peek = "comma" /\ Take /\ UNCHANGED <<depth, stack>> /\ at' \in {"key", "element"}
      BY <1>19 DEF Comma, Looks, MemberStart
    <2>2. Follows(v, Len(v), Len(v) + 1) /\ v[Len(v)] = "comma"
      BY <1>3, <2>1, LastFollows DEF v
    <2>3. \A g : Follows(v, g, Len(v) + 1) => g = Len(v)
      <3>1. Len(v) + 1 \in Nat
        BY <1>6
      <3> QED BY <1>6, <2>2, <3>1, FollowsOne
    <2>4. FirstSeen'
      BY <1>3, <2>1, <2>2, <2>3 DEF FirstSeen, Openers
    <2> QED BY <2>1, <2>4 DEF ErrorInv, DepthLow
  <1> QED BY <1>8, <1>10, <1>11, <1>12, <1>13, <1>14, <1>15, <1>16, <1>17, <1>18, <1>19 DEF Parse

LEMMA ErrorStep ==
  ASSUME DepthInv, GrammarInv, ErrorInv, [ParserNext]_parserVars PROVE ErrorInv'
  <1> SUFFICES ASSUME ~IsText' PROVE ErrorInv'
    BY DEF ErrorInv
  <1>1. CASE Fetch
    <2>1. ~IsText /\ Read' = Read
      BY <1>1, FetchReadsNothing
    <2>2. at' = at /\ stack' = stack /\ depth' = depth /\ at # "error" /\ ~Ready
      BY <1>1 DEF Fetch, Ready
    <2>3. FirstSeen'
      BY <2>1, <2>2 DEF ErrorInv, FirstSeen
    <2> QED BY <2>1, <2>2, <2>3 DEF ErrorInv, DepthLow
  <1>2. CASE Parse
    <2>1. ~IsText
      <3>1. seen' = seen
        BY <1>2 DEF Parse, SkipBlank, Open, TooDeep, Scalar, Literal, LiteralEnds, NoValue,
           FirstMember, Close, Key, Colon, NoMember, KeyValue, Element, Comma, NoComma, End,
           Trailing, Fail, ValueEnds, StartMember
      <3> QED BY <3>1 DEF IsText
    <2> QED BY <1>2, <2>1, ParseKeepsErrors
  <1>3. CASE Decode
    <2>1. IsText /\ seen' = seen
      BY <1>3, DecodesText DEF Decode, OpenString, Text, CloseString, Escape, Unit, Pair, PairU,
         Low, BadString, Goes, ValueEnds, Fail, Units
    <2> QED BY <2>1 DEF IsText
  <1>4. CASE UNCHANGED parserVars
    BY <1>4 DEF parserVars, ErrorInv, DepthLow, FirstSeen, Justified, IsText, AtEnd, Read, Input,
                Ready, Peek
  <1> QED BY <1>1, <1>2, <1>3, <1>4 DEF ParserNext, Stopped

LEMMA ErrorInit ==
  ASSUME ParserInit PROVE ErrorInv
  <1>1. seen = <<>> /\ pb = <<>> /\ stack = <<>> /\ at = "value" /\ depth = 0 /\ Read = <<>>
    BY DEF ParserInit, Read, AtEnd
  <1>2. \A h : ~Follows(<<>>, h, 0 + 1)
    BY DEF Follows
  <1>3. DepthLow /\ FirstSeen
    BY <1>1, <1>2 DEF DepthLow, FirstSeen
  <1> QED BY <1>1, <1>3 DEF ErrorInv

(* What begins JSON, as the grammar says, can be read on from there.       *)
THEOREM JsonBegins ==
  ASSUME NEW s \in Seq(Tokens), NEW r \in Seq(Tokens), Json(s \o r)
  PROVE  Begins(s)
  <1> DEFINE v == s \o r
  <1>1. Begun(s, v) /\ DOMAIN s = 1 .. Len(s) /\ DOMAIN v = 1 .. Len(v) /\ v \in Seq(Tokens)
    <2>1. /\ v \in Seq(Tokens) /\ Len(s) <= Len(v) /\ \A k \in 1 .. Len(s) : v[k] = s[k]
          /\ DOMAIN s = 1 .. Len(s) /\ DOMAIN v = 1 .. Len(v)
      <3> HIDE DEF Tokens
      <3> QED OBVIOUS
    <2> HIDE DEF v
    <2> QED BY <2>1 DEF Begun
  <1>2. PICK other \in [Openings(v) -> Closings(v)] : Grammatical(v, other)
    BY DEF Json
  <1> HIDE DEF v
  <1>3. Pairing(v, other)
    <2>1. Closings(v) \subseteq 1 .. Len(v)
      BY <1>1 DEF Closings
    <2>2. DOMAIN other = Openings(v) /\ other \in [DOMAIN other -> 1 .. Len(v)]
      BY <1>2, <2>1
    <2> QED BY <1>2, <2>2 DEF Pairing, Grammatical
  <1> DEFINE close == ClosedUpTo(other, Len(s))
  <1>4. Pairing(s, close) /\ Prolongs(s, close, other)
    BY <1>1, <1>3, PairingBegins
  <1> HIDE DEF close
  <1>5. ASSUME NEW i \in Filled(s) PROVE InPlace(s, close, i)
    <2>1. i \in 1 .. Len(s) /\ i \in Filled(v)
      BY <1>1 DEF Filled, Begun
    <2>2. InPlace(v, other, i)
      BY <1>2, <2>1 DEF Grammatical
    <2> QED BY <1>1, <1>4, <2>1, <2>2, InPlaceKept
  <1>6. DOMAIN close \in SUBSET Openings(s) /\ close \in [DOMAIN close -> Closings(s)]
    <2>1. ASSUME NEW j \in DOMAIN close PROVE close[j] \in Closings(s)
      <3>1. s[close[j]] = Closer(s[j]) /\ close[j] \in 1 .. Len(s)
        BY <1>4, <2>1 DEF Pairing, Paired
      <3> QED BY <1>1, <3>1 DEF Closings, Closer, Closers
    <2> QED BY <1>4, <2>1 DEF Pairing
  <1>7. Grammatical(s, close)
    BY <1>4, <1>5 DEF Grammatical, Pairing
  <1> QED BY <1>6, <1>7 DEF Begins

LEMMA InputIsTyped ==
  ASSUME ParserTypes PROVE Input \in Seq(Tokens)
  <1>1. seen \in Seq(Tokens)
    BY DEF ParserTypes
  <1>2. CASE AtEnd
    <2>1. seen # <<>>
      BY <1>2 DEF AtEnd
    <2>2. Front(seen) \in Seq(Tokens)
      <3> HIDE DEF Tokens
      <3> QED BY <1>1, <2>1, FrontFacts
    <2> QED BY <1>2, <2>2 DEF Input
  <1>3. CASE ~AtEnd
    BY <1>1, <1>3 DEF Input
  <1> QED BY <1>2, <1>3

LEMMA GrammarHolds == ParserSpec => [](DepthInv /\ GrammarInv /\ ErrorInv)
  <1>1. ParserInit => DepthInv /\ GrammarInv /\ ErrorInv
    BY DepthInit, GrammarInit, ErrorInit
  <1>2. (DepthInv /\ GrammarInv /\ ErrorInv) /\ [ParserNext]_parserVars
          => (DepthInv /\ GrammarInv /\ ErrorInv)'
    BY DepthStep, GrammarStep, ErrorStep
  <1> QED BY <1>1, <1>2, PTL DEF ParserSpec

(* When all was read and nothing is open, what was read is JSON.           *)
LEMMA AcceptedIsJson ==
  ASSUME DepthInv, GrammarInv, at = "ok", ~IsText PROVE Json(Input)
  <1> DEFINE w == Read
  <1>1. Input = w
    BY DEF GrammarInv, Input, Read
  <1>2. PICK close, opens : WellRead(w, close, opens, stack) /\ Due(w, close, opens, stack, "ok")
    BY DEF GrammarInv
  <1>3. w \in Seq(Tokens)
    BY <1>1, InputIsTyped DEF DepthInv
  <1> HIDE DEF w
  <1>4. DOMAIN w = 1 .. Len(w)
    <2> HIDE DEF Tokens
    <2> QED BY <1>3
  <1>5. PICK h \in 1 .. Len(w) : Follows(w, h, Len(w) + 1) /\ stack = <<>>
    BY <1>2 DEF Due
  <1>6. Filled(w) # {}
    BY <1>4, <1>5 DEF Filled, Follows
  <1>7. DOMAIN close = Openings(w) /\ close \in [DOMAIN close -> 1 .. Len(w)]
    <2>1. \A k \in 1 .. Len(stack) : FALSE
      BY <1>5
    <2> QED BY <1>2, <2>1 DEF WellRead, Pairing
  <1>8. Grammatical(w, close)
    BY <1>2 DEF WellRead, Pairing, Grammatical
  <1>9. ASSUME NEW j \in Openings(w) PROVE close[j] \in Closings(w)
    <2>1. w[close[j]] = Closer(w[j]) /\ close[j] \in 1 .. Len(w)
      BY <1>7, <1>8, <1>9 DEF Grammatical, Paired
    <2> QED BY <1>4, <2>1 DEF Closings, Closer, Closers
  <1>10. close \in [Openings(w) -> Closings(w)]
    BY <1>7, <1>9
  <1> QED BY <1>1, <1>6, <1>8, <1>10 DEF Json

(* An error within the limit is final: whatever the rest of the document   *)
(* would have been, it is not JSON.                                        *)
THEOREM ErrorsAreFinal ==
  ParserSpec =>
    [](~IsText /\ at = "error" =>
         \/ NestedTooDeep(Input)
         \/ AtEnd /\ ~Json(Input)
         \/ \A r \in Seq(Tokens) : ~Json(Input \o r))
  <1>1. DepthInv /\ GrammarInv /\ ErrorInv =>
          (~IsText /\ at = "error" =>
             \/ NestedTooDeep(Input)
             \/ AtEnd /\ ~Json(Input)
             \/ \A r \in Seq(Tokens) : ~Json(Input \o r))
    <2> SUFFICES ASSUME DepthInv, ErrorInv, ~IsText, at = "error"
                 PROVE  \/ NestedTooDeep(Input)
                        \/ AtEnd /\ ~Json(Input)
                        \/ \A r \in Seq(Tokens) : ~Json(Input \o r)
      OBVIOUS
    <2>1. NestedTooDeep(Input) \/ IF AtEnd THEN ~Json(Input) ELSE ~Begins(Input)
      BY DEF ErrorInv, Justified
    <2>2. Input \in Seq(Tokens)
      BY InputIsTyped DEF DepthInv
    <2>3. ~Begins(Input) => \A r \in Seq(Tokens) : ~Json(Input \o r)
      BY <2>2, JsonBegins
    <2> QED BY <2>1, <2>3
  <1> QED BY <1>1, GrammarHolds, PTL

-----------------------------------------------------------------------------
(* Strings                                                                 *)

LEMMA EscapedNext ==
  ASSUME NEW s, s[1] # "backslash", NEW i \in Nat \ {0}
  PROVE  Escaped(s, i + 1) <=> s[i] = "backslash" /\ ~Escaped(s, i)
  <1>1. ASSUME Escaped(s, i + 1) PROVE s[i] = "backslash" /\ ~Escaped(s, i)
    <2>1. PICK h \in 1 .. i : /\ s[h] # "backslash"
                              /\ \A k \in h + 1 .. i : s[k] = "backslash"
                              /\ (i + 1 - h) % 2 = 0
      BY <1>1 DEF Escaped
    <2>2. h # i
      BY <2>1
    <2>3. s[i] = "backslash"
      BY <2>1, <2>2
    <2>4. ASSUME Escaped(s, i) PROVE FALSE
      <3>1. PICK l \in 1 .. i - 1 : /\ s[l] # "backslash"
                                    /\ \A k \in l + 1 .. i - 1 : s[k] = "backslash"
                                    /\ (i - l) % 2 = 0
        BY <2>4 DEF Escaped
      <3>2. l = h
        BY <2>1, <2>2, <3>1
      <3> QED BY <2>1, <3>1, <3>2
    <2> QED BY <2>3, <2>4
  <1>2. ASSUME s[i] = "backslash", ~Escaped(s, i) PROVE Escaped(s, i + 1)
    <2>1. i # 1
      BY <1>2
    <2> DEFINE S == {j \in 1 .. i - 1 : s[j] # "backslash"}
    <2>2. S # {} /\ S \in SUBSET (1 .. i - 1) /\ i - 1 \in Nat
      BY <2>1
    <2> HIDE DEF S
    <2>3. PICK h \in S : \A j \in S : j <= h
      BY <2>2, Greatest
    <2>4. /\ h \in 1 .. i - 1 /\ s[h] # "backslash"
          /\ \A k \in h + 1 .. i - 1 : s[k] = "backslash"
      BY <2>3 DEF S
    <2>5. (i - h) % 2 # 0
      BY <1>2, <2>4 DEF Escaped
    <2>6. (i + 1 - h) % 2 = 0
      BY <2>4, <2>5
    <2>7. \A k \in h + 1 .. i : s[k] = "backslash"
      BY <1>2, <2>4
    <2> QED BY <2>4, <2>6, <2>7 DEF Escaped
  <1> QED BY <1>1, <1>2

(* Whether a place is escaped depends on what is before it.                *)
LEMMA EscapedKept ==
  ASSUME NEW s, NEW v, NEW i \in Int, \A k \in 1 .. i - 1 : s[k] = v[k]
  PROVE  Escaped(s, i) <=> Escaped(v, i)
  <1>1. ASSUME NEW h \in 1 .. i - 1
        PROVE  (\A k \in h + 1 .. i - 1 : s[k] = "backslash")
                 <=> \A k \in h + 1 .. i - 1 : v[k] = "backslash"
    OBVIOUS
  <1> QED BY <1>1 DEF Escaped

(* What a string that was read to place c is known to be.                  *)
Scanned(s, c) ==
  /\ \A i \in 2 .. c : s[i] = "quote" => Escaped(s, i)
  /\ \A i \in 1 .. c : s[i] = "u" /\ Escaped(s, i) => i < c /\ s[i + 1] \in Units

(* Where the decoder is when it has read it so far.                        *)
Lexed(s, c, where) ==
  /\ c \in 0 .. Len(s)
  /\ where = "value" => c = 0
  /\ where \in {"text", "pair"} => c > 0 /\ Scanned(s, c) /\ ~Escaped(s, c + 1)
  /\ where \in {"escape", "pairu"} => c > 0 /\ Scanned(s, c) /\ Escaped(s, c + 1)
  /\ where \in {"unit", "low"} =>
       c > 1 /\ Scanned(s, c - 1) /\ s[c] = "u" /\ Escaped(s, c)
  /\ where = "end" =>
       c > 1 /\ Scanned(s, c - 1) /\ s[c] = "quote" /\ ~Escaped(s, c)

LEMMA LexedKept ==
  ASSUME NEW S, NEW s \in Seq(S), NEW t \in S, NEW c, NEW where, Lexed(s, c, where)
  PROVE  Lexed(Append(s, t), c, where)
  <1> DEFINE v == Append(s, t)
  <1>1. Len(v) = Len(s) + 1 /\ Len(s) \in Nat /\ \A k \in 1 .. Len(s) : v[k] = s[k]
    OBVIOUS
  <1>2. c \in 0 .. Len(s) /\ c \in Int
    BY <1>1 DEF Lexed
  <1> HIDE DEF v
  <1>3. ASSUME NEW i \in 1 .. Len(s) + 1 PROVE Escaped(s, i) <=> Escaped(v, i)
    BY <1>1, EscapedKept
  <1>4. ASSUME NEW d \in 0 .. c, Scanned(s, d) PROVE Scanned(v, d)
    BY <1>1, <1>2, <1>3, <1>4 DEF Scanned
  <1>5. Lexed(v, c, where)
    BY <1>1, <1>2, <1>3, <1>4 DEF Lexed
  <1> QED BY <1>5 DEF v

LEMMA LexedStart ==
  ASSUME NEW s, Len(s) \in Nat, Len(s) > 0, s[1] = "quote"
  PROVE  Lexed(s, 1, "text")
  <1>1. ~Escaped(s, 2)
    BY EscapedNext
  <1> QED BY <1>1 DEF Lexed, Scanned

(* A character of the text is read.                                        *)
LEMMA LexedText ==
  ASSUME NEW s, Len(s) \in Nat, s[1] = "quote", NEW c \in Nat, c < Len(s),
         Lexed(s, c, "text")
  PROVE  /\ s[c + 1] = "backslash" => Lexed(s, c + 1, "escape")
         /\ s[c + 1] = "quote" => Lexed(s, c + 1, "end")
         /\ s[c + 1] \notin {"quote", "backslash"} => Lexed(s, c + 1, "text")
  <1>1. c > 0 /\ Scanned(s, c) /\ ~Escaped(s, c + 1)
    BY DEF Lexed
  <1>2. Escaped(s, c + 2) <=> s[c + 1] = "backslash"
    <2> DEFINE d == c + 1
    <2>1. Escaped(s, d + 1) <=> s[d] = "backslash" /\ ~Escaped(s, d)
      <3>1. d \in Nat \ {0} /\ s[1] # "backslash"
        OBVIOUS
      <3> HIDE DEF d
      <3> QED BY <3>1, EscapedNext
    <2>2. (c + 1) + 1 = c + 2
      OBVIOUS
    <2> QED BY <1>1, <2>1, <2>2
  <1>3. s[c + 1] # "quote" => Scanned(s, c + 1)
    BY <1>1 DEF Scanned
  <1> QED BY <1>1, <1>2, <1>3 DEF Lexed

(* What is escaped is read.                                                *)
LEMMA LexedEscape ==
  ASSUME NEW s, Len(s) \in Nat, s[1] = "quote", NEW c \in Nat, c < Len(s),
         Lexed(s, c, "escape")
  PROVE  /\ s[c + 1] = "u" => Lexed(s, c + 1, "unit")
         /\ s[c + 1] # "u" => Lexed(s, c + 1, "text")
  <1>1. c > 0 /\ Scanned(s, c) /\ Escaped(s, c + 1)
    BY DEF Lexed
  <1>2. ~Escaped(s, c + 2)
    BY <1>1, EscapedNext
  <1>3. s[c + 1] # "u" => Scanned(s, c + 1)
    BY <1>1 DEF Scanned
  <1> QED BY <1>1, <1>2, <1>3 DEF Lexed

(* Digits are read.                                                        *)
LEMMA LexedUnit ==
  ASSUME NEW s, Len(s) \in Nat, s[1] = "quote", NEW c \in Nat, c < Len(s),
         Lexed(s, c, "unit"), s[c + 1] \in Units
  PROVE  Lexed(s, c + 1, "text")
  <1>1. c > 1 /\ Scanned(s, c - 1) /\ s[c] = "u" /\ Escaped(s, c)
    BY DEF Lexed
  <1>2. s[c + 1] \notin {"backslash", "quote", "u"}
    BY DEF Units
  <1>3. ~Escaped(s, c + 2)
    <2> DEFINE d == c + 1
    <2>1. Escaped(s, d + 1) <=> s[d] = "backslash" /\ ~Escaped(s, d)
      <3>1. d \in Nat \ {0} /\ s[1] # "backslash"
        OBVIOUS
      <3> HIDE DEF d
      <3> QED BY <3>1, EscapedNext
    <2>2. (c + 1) + 1 = c + 2
      OBVIOUS
    <2> QED BY <1>2, <2>1, <2>2
  <1>4. Scanned(s, c + 1)
    BY <1>1, <1>2 DEF Scanned
  <1> QED BY <1>1, <1>3, <1>4 DEF Lexed

(* A backslash is put back.                                                *)
LEMMA UnlexedEscape ==
  ASSUME NEW s, Len(s) \in Nat, s[1] = "quote", NEW c \in Nat, Lexed(s, c, "pairu")
  PROVE  c > 1 /\ s[c] = "backslash" /\ Lexed(s, c - 1, "text")
  <1>1. c > 0 /\ Scanned(s, c) /\ Escaped(s, c + 1)
    BY DEF Lexed
  <1>2. s[c] = "backslash" /\ ~Escaped(s, c) /\ c # 1
    BY <1>1, EscapedNext
  <1>3. Scanned(s, c - 1)
    BY <1>1, <1>2 DEF Scanned, Units
  <1> QED BY <1>1, <1>2, <1>3 DEF Lexed

(* A backslash and the u after it are put back.                            *)
LEMMA UnlexedUnit ==
  ASSUME NEW s, Len(s) \in Nat, s[1] = "quote", NEW c \in Nat, Lexed(s, c, "low")
  PROVE  /\ c > 2 /\ s[c] = "u" /\ s[c - 1] = "backslash" /\ Lexed(s, c - 2, "text")
  <1>1. c > 1 /\ Scanned(s, c - 1) /\ s[c] = "u" /\ Escaped(s, c)
    BY DEF Lexed
  <1>2. s[c - 1] = "backslash" /\ ~Escaped(s, c - 1) /\ c - 1 # 1
    <2> DEFINE d == c - 1
    <2>1. Escaped(s, d + 1) <=> s[d] = "backslash" /\ ~Escaped(s, d)
      <3>1. d \in Nat \ {0} /\ s[1] # "backslash"
        BY <1>1
      <3> HIDE DEF d
      <3> QED BY <3>1, EscapedNext
    <2> QED BY <1>1, <2>1
  <1>3. Scanned(s, c - 2)
    BY <1>1, <1>2 DEF Scanned, Units
  <1> QED BY <1>1, <1>2, <1>3 DEF Lexed

(* The verdicts.                                                           *)
LEMMA EndedString ==
  ASSUME NEW s, Len(s) \in Nat, Lexed(s, Len(s), "end") PROVE IsString(s)
  <1>1. /\ Len(s) > 1 /\ Scanned(s, Len(s) - 1) /\ s[Len(s)] = "quote"
        /\ ~Escaped(s, Len(s))
    BY DEF Lexed
  <1>2. Endings(s) = {Len(s)}
    BY <1>1 DEF Endings, Scanned
  <1>3. HasDigits(s)
    BY <1>1 DEF HasDigits, Scanned
  <1> QED BY <1>2, <1>3 DEF IsString

LEMMA OpenedString ==
  ASSUME NEW s, Len(s) \in Nat, NEW where \in {"text", "escape", "unit", "low"},
         Lexed(s, Len(s), where)
  PROVE  ~IsString(s)
  <1>1. Len(s) \notin Endings(s)
    BY DEF Lexed, Endings, Scanned
  <1> QED BY <1>1 DEF IsString

LEMMA NoDigits ==
  ASSUME NEW s, Len(s) \in Nat, NEW c \in Nat, c < Len(s), Lexed(s, c, "unit"),
         s[c + 1] \notin Units
  PROVE  ~BeginsString(s)
  BY DEF Lexed, BeginsString, HasDigits

LEMMA EndedEarly ==
  ASSUME NEW s, Len(s) \in Nat, NEW c \in Nat, c < Len(s), Lexed(s, c, "end")
  PROVE  ~BeginsString(s)
  <1>1. c \in Endings(s)
    BY DEF Lexed, Endings
  <1> QED BY <1>1 DEF BeginsString

LEMMA WholeBegins == ASSUME NEW s, IsString(s) PROVE BeginsString(s)
  BY DEF IsString, BeginsString

-----------------------------------------------------------------------------
(* What is put back is the input after the place that was read to.         *)

Signs == Chars \union Escapes \union Units
TextPlaces == {"value", "text", "escape", "unit", "pair", "pairu", "low", "end", "ok", "error"}

Mirrors(s, p) ==
  p \in Seq(Signs) /\ Len(p) <= Len(s) /\ \A k \in 1 .. Len(p) : p[k] = s[Len(s) + 1 - k]

LEMMA MirrorLess ==
  ASSUME NEW s, Len(s) \in Nat, NEW p, Mirrors(s, p), p # <<>>
  PROVE  /\ Mirrors(s, Front(p)) /\ Len(p) \in Nat /\ Len(Front(p)) = Len(p) - 1
         /\ Last(p) = s[Len(s) - Len(p) + 1] /\ Last(p) \in Signs
  <1>1. p \in Seq(Signs)
    BY DEF Mirrors
  <1>2. /\ Len(p) \in Nat /\ Len(p) > 0 /\ Front(p) \in Seq(Signs)
        /\ Len(Front(p)) = Len(p) - 1
        /\ \A i \in 1 .. Len(p) - 1 : Front(p)[i] = p[i]
    <2> HIDE DEF Signs
    <2> QED BY <1>1, FrontFacts
  <1>3. Last(p) \in Signs
    <2> HIDE DEF Signs
    <2> QED BY <1>1, LastAppended
  <1>4. Last(p) = s[Len(s) - Len(p) + 1]
    BY <1>2 DEF Mirrors, Last
  <1>5. Mirrors(s, Front(p))
    BY <1>2 DEF Mirrors
  <1> QED BY <1>2, <1>3, <1>4, <1>5

LEMMA MirrorMore ==
  ASSUME NEW s, Len(s) \in Nat, NEW p, Mirrors(s, p), Len(p) < Len(s),
         NEW t \in Signs, t = s[Len(s) - Len(p)]
  PROVE  Mirrors(s, Append(p, t)) /\ Len(Append(p, t)) = Len(p) + 1
  <1> DEFINE q == Append(p, t)
  <1>1. p \in Seq(Signs)
    BY DEF Mirrors
  <1>2. /\ q \in Seq(Signs) /\ Len(q) = Len(p) + 1 /\ Len(p) \in Nat
        /\ \A i \in 1 .. Len(q) : q[i] = IF i = Len(q) THEN t ELSE p[i]
    <2> HIDE DEF Signs
    <2> QED BY <1>1
  <1> HIDE DEF q
  <1>3. Mirrors(s, q)
    BY <1>2 DEF Mirrors
  <1> QED BY <1>2, <1>3 DEF q

(* One escape fits into what can be put back.                              *)
LEMMA HeldShort ==
  ASSUME NEW p \in Seq(Signs), Len(p) <= 3, \A i \in 2 .. Len(p) : p[i] \notin Units
  PROVE  Held(p) <= RD_PB
  <1> DEFINE D == {i \in DOMAIN p : p[i] \in Units}
  <1>1. Len(p) \in Nat /\ DOMAIN p = 1 .. Len(p)
    <2> HIDE DEF Signs
    <2> QED OBVIOUS
  <1>2. D \subseteq {1}
    BY <1>1
  <1>3. IsFiniteSet({1}) /\ Cardinality({1}) = 1
    BY FS_Singleton
  <1> HIDE DEF D
  <1>4. Cardinality(D) \in Nat /\ Cardinality(D) <= 1
    BY <1>2, <1>3, FS_Subset, FS_CardinalityType
  <1>5. Held(p) = Len(p) + 3 * Cardinality(D)
    BY DEF Held, D
  <1> QED BY <1>1, <1>4, <1>5, PutBackAssumption, J2tAssumption

LEMMA UngetFits ==
  ASSUME NEW s, Len(s) \in Nat, NEW p, Mirrors(s, p), Len(p) < Len(s), Len(p) < 3,
         NEW t \in Signs, t = s[Len(s) - Len(p)], \A i \in 2 .. Len(p) : p[i] \notin Units,
         p = <<>> \/ t \notin Units
  PROVE  /\ Unget(p, t) = Append(p, t) /\ Mirrors(s, Unget(p, t))
         /\ Len(Unget(p, t)) = Len(p) + 1
         /\ \A i \in 2 .. Len(p) + 1 : Unget(p, t)[i] \notin Units
  <1> DEFINE q == Append(p, t)
  <1>1. p \in Seq(Signs)
    BY DEF Mirrors
  <1>2. /\ q \in Seq(Signs) /\ Len(q) = Len(p) + 1 /\ Len(p) \in Nat
        /\ \A i \in 1 .. Len(q) : q[i] = IF i = Len(q) THEN t ELSE p[i]
        /\ p = <<>> => Len(p) = 0
    <2> HIDE DEF Signs
    <2> QED BY <1>1
  <1>3. Mirrors(s, q)
    BY MirrorMore
  <1> HIDE DEF q
  <1>4. \A i \in 2 .. Len(q) : q[i] \notin Units
    BY <1>2
  <1>5. Held(q) <= RD_PB
    BY <1>2, <1>4, HeldShort
  <1> QED BY <1>2, <1>3, <1>4, <1>5 DEF Unget, q

(* A string is read as far as the decoder is, and what was put back fits.  *)
TextRead ==
  /\ at \in TextPlaces /\ Input \in Seq(Signs) /\ Input # <<>> /\ Input[1] = "quote"
  /\ Mirrors(Input, pb) /\ Lexed(Input, Len(Input) - Len(pb), at)
  /\ Len(pb) <= 3 /\ (at = "escape" => Len(pb) <= 2)
  /\ at \in {"unit", "pair", "pairu", "low"} => Len(pb) <= 1
  /\ at = "ok" => IsString(Input)
  /\ at = "error" => IF AtEnd THEN ~IsString(Input) ELSE ~BeginsString(Input)

TextInv ==
  /\ seen = <<>> => at = "value" /\ pb = <<>>
  /\ IsText => TextRead

LEMMA PeekIs ==
  ASSUME TextInv, IsText, Ready, NEW c, c = Len(Input) - Len(pb)
  PROVE  /\ Len(Input) \in Nat /\ Len(pb) \in Nat /\ c \in Nat /\ Lexed(Input, c, at)
         /\ pb = <<>> => Peek = "EOF" /\ AtEnd /\ c = Len(Input)
         /\ pb # <<>> => /\ Peek \in Signs /\ Peek # "EOF" /\ Peek = Input[c + 1]
                        /\ c < Len(Input) /\ Mirrors(Input, Get) /\ Len(Get) = Len(pb) - 1
  <1>1. Mirrors(Input, pb) /\ Input \in Seq(Signs) /\ Lexed(Input, c, at)
    BY DEF TextInv, TextRead
  <1>2. Len(Input) \in Nat /\ Len(pb) \in Nat /\ Len(pb) <= Len(Input)
    <2> HIDE DEF Signs
    <2> QED BY <1>1 DEF Mirrors
  <1>3. CASE pb = <<>>
    <2>1. Len(pb) = 0
      BY <1>3
    <2> QED BY <1>1, <1>2, <1>3, <2>1 DEF Peek, Ready
  <1>4. CASE pb # <<>>
    <2>1. /\ Mirrors(Input, Front(pb)) /\ Len(Front(pb)) = Len(pb) - 1
          /\ Last(pb) = Input[Len(Input) - Len(pb) + 1] /\ Last(pb) \in Signs
      BY <1>1, <1>2, <1>4, MirrorLess
    <2>2. "EOF" \notin Signs
      BY DEF Signs, Chars, Escapes, Units
    <2>3. Len(pb) > 0
      <3> HIDE DEF Signs
      <3> QED BY <1>1, <1>4, FrontFacts DEF Mirrors
    <2> QED BY <1>1, <1>2, <1>4, <2>1, <2>2, <2>3 DEF Peek, Get
  <1> QED BY <1>3, <1>4

LEMMA TextStays ==
  ASSUME TextInv, IsText, seen' = seen, at' \in TextPlaces,
         Mirrors(Input, pb'), Lexed(Input, Len(Input) - Len(pb'), at'),
         Len(pb') <= 3, at' = "escape" => Len(pb') <= 2,
         at' \in {"unit", "pair", "pairu", "low"} => Len(pb') <= 1,
         at' = "ok" => IsString(Input),
         at' = "error" => IF AtEnd THEN ~IsString(Input) ELSE ~BeginsString(Input)
  PROVE  TextInv'
  <1>1. (IsText' <=> IsText) /\ (AtEnd' <=> AtEnd) /\ Input' = Input /\ seen' # <<>>
    BY DEF IsText, AtEnd, Input
  <1> QED BY <1>1 DEF TextInv, TextRead

(* An error in a string is justified, and a success is.                    *)
LEMMA TextFails ==
  ASSUME TextInv, IsText, Ready, Fail,
         \/ at \in {"text", "escape"} /\ Peek = "EOF"
         \/ at \in {"unit", "low"} /\ Peek \notin Units
         \/ at = "end" /\ Peek # "EOF"
  PROVE  TextInv'
  <1> DEFINE s == Input
             c == Len(s) - Len(pb)
  <1>1. /\ Len(s) \in Nat /\ c \in Nat /\ Lexed(s, c, at)
        /\ pb = <<>> => Peek = "EOF" /\ AtEnd /\ c = Len(s)
        /\ pb # <<>> => Peek # "EOF" /\ Peek = s[c + 1] /\ c < Len(s)
    BY PeekIs
  <1>2. at' = "error" /\ pb' = pb /\ seen' = seen
    BY DEF Fail, Keep
  <1>3. Mirrors(s, pb) /\ Len(pb) <= 3
    BY DEF TextInv, TextRead
  <1>4. Lexed(s, c, "error")
    BY <1>1 DEF Lexed
  <1>5. IF AtEnd THEN ~IsString(s) ELSE ~BeginsString(s)
    <2> HIDE DEF s, c
    <2>1. CASE pb = <<>>
      <3>1. at \in {"text", "escape", "unit", "low"}
        BY <1>1, <2>1
      <3> QED BY <1>1, <2>1, <3>1, OpenedString
    <2>2. CASE pb # <<>>
      <3>1. ~BeginsString(s)
        <4>1. CASE at = "end"
          BY <1>1, <2>2, <4>1, EndedEarly
        <4>2. CASE at # "end"
          <5>1. Lexed(s, c, "unit") /\ s[c + 1] \notin Units
            BY <1>1, <2>2, <4>2 DEF Lexed
          <5> QED BY <1>1, <2>2, <5>1, NoDigits
        <4> QED BY <4>1, <4>2
      <3> QED BY <3>1, WholeBegins
    <2> QED BY <2>1, <2>2
  <1> QED BY <1>2, <1>3, <1>4, <1>5, TextStays DEF TextPlaces

(* A token is taken.                                                       *)
LEMMA TextGoes ==
  ASSUME TextInv, IsText, Ready, pb # <<>>, Take, seen' = seen,
         at' \in {"text", "escape", "unit", "pair", "pairu", "low", "end"},
         Lexed(Input, Len(Input) - Len(pb) + 1, at'),
         at' \in {"unit", "pair", "pairu", "low"} => Len(pb) <= 2
  PROVE  TextInv'
  <1>1. /\ Len(Input) \in Nat /\ Len(pb) \in Nat
        /\ Mirrors(Input, Get) /\ Len(Get) = Len(pb) - 1
    BY PeekIs
  <1>2. Len(pb) <= 3 /\ Len(Input) - (Len(pb) - 1) = Len(Input) - Len(pb) + 1
    BY <1>1 DEF TextInv, TextRead
  <1>3. /\ pb' = Get /\ Lexed(Input, Len(Input) - Len(pb'), at')
        /\ Len(pb') <= 2 /\ (at' \in {"unit", "pair", "pairu", "low"} => Len(pb') <= 1)
    BY <1>1, <1>2 DEF Take
  <1> QED BY <1>1, <1>3, TextStays DEF TextPlaces

(* What is put back fits.                                                  *)
LEMMA BackslashFits ==
  ASSUME TextInv, IsText, Ready, at = "pairu", NEW c, c = Len(Input) - Len(pb)
  PROVE  LET p == Unget(pb, "backslash")
         IN  Mirrors(Input, p) /\ Len(p) = Len(pb) + 1 /\ Lexed(Input, c - 1, "text") /\ c > 1
  <1> DEFINE s == Input
  <1>1. /\ Len(s) \in Nat /\ Len(pb) \in Nat /\ c \in Nat /\ Lexed(s, c, at)
        /\ s[1] = "quote" /\ Mirrors(s, pb) /\ Len(pb) <= 1
    BY PeekIs DEF TextInv, TextRead
  <1> HIDE DEF s
  <1>2. c > 1 /\ s[c] = "backslash" /\ Lexed(s, c - 1, "text")
    BY <1>1, UnlexedEscape
  <1>3. "backslash" \in Signs /\ "backslash" \notin Units
    BY DEF Signs, Chars, Units
  <1>4. \A i \in 2 .. Len(pb) : FALSE
    BY <1>1
  <1>5. Len(pb) < Len(s) /\ Len(pb) < 3 /\ s[Len(s) - Len(pb)] = "backslash"
    BY <1>1, <1>2 DEF s
  <1> QED BY <1>1, <1>2, <1>3, <1>4, <1>5, UngetFits DEF s

LEMMA EscapeFits ==
  ASSUME TextInv, IsText, Ready, at = "low", Peek \in Units, NEW c, c = Len(Input) - Len(pb)
  PROVE  LET p == UnreadEscape(Peek)
         IN  Mirrors(Input, p) /\ Len(p) = 3 /\ c = Len(Input) - 1 /\ c > 2
             /\ Lexed(Input, c - 2, "text")
  <1> DEFINE s == Input
  <1>1. /\ Len(s) \in Nat /\ Len(pb) \in Nat /\ c \in Nat /\ Lexed(s, c, "low")
        /\ pb = <<>> => Peek = "EOF"
        /\ pb # <<>> => /\ Peek \in Signs /\ Peek = s[c + 1]
                       /\ c < Len(s) /\ Mirrors(s, Get) /\ Len(Get) = Len(pb) - 1
    BY PeekIs
  <1>2. s[1] = "quote" /\ Len(pb) <= 1 /\ pb # <<>>
    BY <1>1 DEF TextInv, TextRead, Units
  <1>3. /\ Mirrors(s, Get) /\ Len(Get) = 0 /\ c < Len(s) /\ Peek = s[c + 1]
        /\ c = Len(s) - 1 /\ Peek \in Signs /\ Peek = s[Len(s)]
    <2>1. Len(pb) = 1 /\ c = Len(s) - 1
      BY <1>1, <1>2
    <2> QED BY <1>1, <1>2, <2>1
  <1> HIDE DEF s
  <1>4. c > 2 /\ s[c] = "u" /\ s[c - 1] = "backslash" /\ Lexed(s, c - 2, "text")
    BY <1>1, <1>2, UnlexedUnit
  <1>5. Get = <<>>
    BY <1>3 DEF Mirrors
  <1> DEFINE p == Unget(Get, Peek)
             q == Unget(p, "u")
  <1>6. Mirrors(s, p) /\ Len(p) = 1 /\ \A i \in 2 .. 1 : p[i] \notin Units
    <2>1. Len(Get) < Len(s) /\ Len(Get) < 3 /\ Peek = s[Len(s) - Len(Get)]
      BY <1>1, <1>3
    <2>2. \A i \in 2 .. Len(Get) : Get[i] \notin Units
      BY <1>3
    <2>3. Mirrors(s, p) /\ Len(p) = Len(Get) + 1
      <3> DEFINE g == Get
      <3>1. Mirrors(s, g) /\ g = <<>> /\ Len(g) < Len(s) /\ Len(g) < 3
        BY <1>3, <1>5, <2>1
      <3> HIDE DEF g
      <3>2. Mirrors(s, Unget(g, Peek)) /\ Len(Unget(g, Peek)) = Len(g) + 1
        BY <1>1, <1>3, <2>1, <2>2, <3>1, UngetFits DEF g
      <3> QED BY <3>2 DEF g
    <2>4. \A i \in 2 .. 1 : FALSE
      OBVIOUS
    <2> QED BY <1>3, <2>3, <2>4
  <1>7. Mirrors(s, q) /\ Len(q) = 2 /\ \A i \in 2 .. 2 : q[i] \notin Units
    <2>1. "u" \in Signs /\ "u" \notin Units
      BY DEF Signs, Escapes, Units
    <2> HIDE DEF p
    <2>2. "u" = s[Len(s) - Len(p)] /\ Len(p) < Len(s) /\ Len(p) < 3
      <3>1. Len(s) - Len(p) = c
        BY <1>1, <1>3, <1>6
      <3> QED BY <1>1, <1>3, <1>4, <1>6, <3>1
    <2>3. \A i \in 2 .. Len(p) : p[i] \notin Units
      BY <1>6
    <2>4. Mirrors(s, q) /\ Len(q) = Len(p) + 1 /\ \A i \in 2 .. Len(p) + 1 : q[i] \notin Units
      BY <1>1, <1>6, <2>1, <2>2, <2>3, UngetFits
    <2> QED BY <1>6, <2>4
  <1>8. Mirrors(s, UnreadEscape(Peek)) /\ Len(UnreadEscape(Peek)) = 3
    <2>1. "backslash" \in Signs /\ "backslash" \notin Units
      BY DEF Signs, Chars, Units
    <2>2. UnreadEscape(Peek) = Unget(q, "backslash")
      BY DEF UnreadEscape
    <2> HIDE DEF q
    <2>3. "backslash" = s[Len(s) - Len(q)] /\ Len(q) < Len(s) /\ Len(q) < 3
      BY <1>1, <1>3, <1>4, <1>7
    <2>4. \A i \in 2 .. Len(q) : q[i] \notin Units
      BY <1>7
    <2>5. Mirrors(s, Unget(q, "backslash")) /\ Len(Unget(q, "backslash")) = Len(q) + 1
      BY <1>1, <1>7, <2>1, <2>3, <2>4, UngetFits
    <2> QED BY <1>7, <2>2, <2>5
  <1> QED BY <1>3, <1>4, <1>8 DEF s

LEMMA DecodeKeepsText ==
  ASSUME DepthInv, TextInv, IsText, Decode PROVE TextInv'
  <1> DEFINE s == Input
             c == Len(s) - Len(pb)
  <1>1. Ready
    BY DEF Decode, OpenString, Text, CloseString, Escape, Unit, Pair, PairU, Low, BadString,
           Looks
  <1>2. /\ Len(s) \in Nat /\ Len(pb) \in Nat /\ c \in Nat /\ Lexed(s, c, at)
        /\ pb = <<>> => Peek = "EOF" /\ AtEnd /\ c = Len(s)
        /\ pb # <<>> => /\ Peek \in Signs /\ Peek # "EOF" /\ Peek = s[c + 1]
                       /\ c < Len(s) /\ Mirrors(s, Get) /\ Len(Get) = Len(pb) - 1
    BY <1>1, PeekIs
  <1>3. s[1] = "quote" /\ Mirrors(s, pb) /\ Len(pb) <= 3 /\ stack = <<>>
    BY DEF TextInv, TextRead, DepthInv, StringInv
  <1> HIDE DEF s
  <1>4. CASE OpenString
    <2>1. Peek = "quote" /\ at = "value" /\ Take /\ at' = "text" /\ seen' = seen
      BY <1>4 DEF OpenString, Looks, Goes
    <2>2. pb # <<>> /\ c = 0
      BY <1>2, <2>1 DEF Lexed
    <2>3. Lexed(s, c + 1, "text")
      BY <1>2, <1>3, <2>2, LexedStart
    <2> QED BY <1>1, <2>1, <2>2, <2>3, TextGoes DEF s
  <1>5. CASE Text
    <2>1. /\ Peek \notin {"quote", "EOF"} /\ at = "text" /\ Take /\ seen' = seen
          /\ at' = IF Peek = "backslash" THEN "escape" ELSE "text"
      BY <1>5 DEF Text, Looks, Goes
    <2>2. pb # <<>>
      BY <1>2, <2>1
    <2>3. Lexed(s, c + 1, at')
      BY <1>2, <1>3, <2>1, <2>2, LexedText
    <2> QED BY <1>1, <2>1, <2>2, <2>3, TextGoes DEF s
  <1>6. CASE CloseString
    <2>1. Peek = "quote" /\ at = "text" /\ Take /\ seen' = seen /\ at' = "end"
      BY <1>3, <1>6 DEF CloseString, Looks, ValueEnds
    <2>2. pb # <<>>
      BY <1>2, <2>1
    <2>3. Lexed(s, c + 1, "end")
      BY <1>2, <1>3, <2>1, <2>2, LexedText
    <2> QED BY <1>1, <2>1, <2>2, <2>3, TextGoes DEF s
  <1>7. CASE Escape
    <2>1. /\ Peek # "EOF" /\ at = "escape" /\ Take /\ seen' = seen
          /\ at' = IF Peek = "u" THEN "unit" ELSE "text"
      BY <1>7 DEF Escape, Looks, Goes
    <2>2. pb # <<>> /\ Len(pb) <= 2
      BY <1>2, <2>1 DEF TextInv, TextRead
    <2>3. Lexed(s, c + 1, at')
      BY <1>2, <1>3, <2>1, <2>2, LexedEscape
    <2> QED BY <1>1, <2>1, <2>2, <2>3, TextGoes DEF s
  <1>8. CASE Unit
    <2>1. /\ Peek \in Units /\ at = "unit" /\ Take /\ seen' = seen
          /\ at' \in {"pair", "text"}
      BY <1>8 DEF Unit, Looks, Goes, Units
    <2>2. pb # <<>> /\ Len(pb) <= 1
      BY <1>2, <2>1 DEF TextInv, TextRead, Units
    <2>3. Lexed(s, c + 1, "text")
      BY <1>2, <1>3, <2>1, <2>2, LexedUnit
    <2>4. Lexed(s, c + 1, at')
      BY <2>1, <2>3 DEF Lexed
    <2> QED BY <1>1, <2>1, <2>2, <2>4, TextGoes DEF s
  <1>9. CASE Pair
    <2>1. at = "pair" /\ seen' = seen /\ Lexed(s, c, "text") /\ Len(pb) <= 1
      BY <1>2, <1>9 DEF Pair, Looks, Goes, Lexed, TextInv, TextRead
    <2>2. CASE Peek = "backslash"
      <3>1. Take /\ at' = "pairu"
        BY <1>9, <2>2 DEF Pair, Goes
      <3>2. pb # <<>>
        BY <1>2, <2>2
      <3>3. Lexed(s, c + 1, "escape")
        BY <1>2, <1>3, <2>1, <2>2, <3>2, LexedText
      <3>4. Lexed(s, c + 1, "pairu")
        BY <3>3 DEF Lexed
      <3> QED BY <1>1, <2>1, <3>1, <3>2, <3>4, TextGoes DEF s
    <2>3. CASE Peek # "backslash"
      <3>1. pb' = pb /\ at' = "text"
        BY <1>9, <2>3 DEF Pair, Goes, Keep
      <3> QED BY <1>3, <2>1, <3>1, TextStays DEF s, TextPlaces
    <2> QED BY <2>2, <2>3
  <1>10. CASE PairU
    <2>1. at = "pairu" /\ seen' = seen /\ Len(pb) <= 1
      BY <1>10 DEF PairU, Looks, Goes, TextInv, TextRead
    <2>2. CASE Peek = "u"
      <3>1. Take /\ at' = "low"
        BY <1>10, <2>2 DEF PairU, Goes
      <3>2. pb # <<>>
        BY <1>2, <2>2
      <3>3. Lexed(s, c, "escape")
        BY <1>2, <2>1 DEF Lexed
      <3>4. Lexed(s, c + 1, "unit")
        BY <1>2, <1>3, <2>2, <3>2, <3>3, LexedEscape
      <3>5. Lexed(s, c + 1, "low")
        BY <3>4 DEF Lexed
      <3> QED BY <1>1, <2>1, <3>1, <3>2, <3>5, TextGoes DEF s
    <2>3. CASE Peek # "u"
      <3>1. pb' = Unget(pb, "backslash") /\ at' = "text"
        BY <1>10, <2>3 DEF PairU, Goes
      <3>2. Mirrors(s, pb') /\ Len(pb') = Len(pb) + 1 /\ Lexed(s, c - 1, "text")
        BY <1>1, <2>1, <3>1, BackslashFits DEF s, c
      <3>3. Len(s) - Len(pb') = c - 1 /\ Len(pb') <= 2
        BY <1>2, <2>1, <3>2
      <3> QED BY <2>1, <3>1, <3>2, <3>3, TextStays DEF s, TextPlaces
    <2> QED BY <2>2, <2>3
  <1>11. CASE Low
    <2>1. at = "low" /\ seen' = seen /\ Len(pb) <= 1 /\ Peek \in Units /\ at' = "text"
      BY <1>11 DEF Low, Looks, Goes, TextInv, TextRead
    <2>2. pb # <<>>
      BY <1>2, <2>1 DEF Units
    <2>3. CASE Peek = "L"
      <3>1. Take
        BY <1>11, <2>3 DEF Low
      <3>2. Lexed(s, c, "unit")
        BY <1>2, <2>1 DEF Lexed
      <3>3. Lexed(s, c + 1, "text")
        BY <1>2, <1>3, <2>1, <2>2, <3>2, LexedUnit
      <3> QED BY <1>1, <2>1, <2>2, <3>1, <3>3, TextGoes DEF s
    <2>4. CASE Peek # "L"
      <3>1. pb' = UnreadEscape(Peek)
        BY <1>11, <2>4 DEF Low
      <3>2. Mirrors(s, pb') /\ Len(pb') = 3 /\ c = Len(s) - 1 /\ Lexed(s, c - 2, "text")
        BY <1>1, <2>1, <3>1, EscapeFits DEF s, c
      <3>3. Len(s) - Len(pb') = c - 2
        BY <1>2, <3>2
      <3> QED BY <2>1, <3>2, <3>3, TextStays DEF s, TextPlaces
    <2> QED BY <2>3, <2>4
  <1>12. CASE BadString
    BY <1>1, <1>12, TextFails DEF BadString
  <1> QED BY <1>4, <1>5, <1>6, <1>7, <1>8, <1>9, <1>10, <1>11, <1>12 DEF Decode

(* What is read next.                                                    *)
LEMMA FetchIs ==
  ASSUME DepthInv, Fetch
  PROVE  /\ pb = <<>> /\ ~AtEnd /\ at' = at /\ page' = page /\ Input = seen
         /\ seen \in Seq(Tokens) /\ seen' # <<>>
         /\ \E t \in Offered \cap Tokens :
              /\ pb' = IF t = "EOF" THEN <<>> ELSE <<t>>
              /\ AtEnd' <=> t = "EOF"
              /\ Input' = IF t = "EOF" THEN seen ELSE Append(seen, t)
              /\ seen'[1] = IF seen = <<>> THEN t ELSE seen[1]
  <1>1. PICK t \in Offered : seen' = Append(seen, t) /\ pb' = IF t = "EOF" THEN <<>> ELSE <<t>>
    BY DEF Fetch
  <1>2. pb = <<>> /\ ~AtEnd /\ at' = at /\ page' = page /\ Input = seen
    BY DEF Fetch, Input
  <1>3. seen \in Seq(Tokens) /\ t \in Tokens
    <2>1. {t1 \in {"quote"} : seen = <<>>} \subseteq Tokens
      BY DEF Tokens, Chars
    <2>2. Units \cup {"x"} \subseteq Tokens /\ Chars \cup Escapes \subseteq Tokens
          /\ Marks \cup Words \subseteq Tokens /\ "EOF" \in Tokens
      BY DEF Tokens, Chars
    <2> HIDE DEF Tokens
    <2> QED BY <1>1, <2>1, <2>2 DEF Offered, DepthInv, ParserTypes
  <1>4. /\ seen' # <<>> /\ Len(seen) \in Nat /\ seen'[Len(seen) + 1] = t
        /\ Last(seen') = t /\ Front(seen') = seen /\ Len(seen') = Len(seen) + 1
        /\ seen # <<>> => seen'[1] = seen[1] /\ Len(seen) > 0
        /\ seen = <<>> => seen'[1] = t
    <2>1. /\ seen' \in Seq(Tokens) /\ Len(seen) \in Nat /\ Len(seen') = Len(seen) + 1
          /\ \A i \in 1 .. Len(seen) : seen'[i] = seen[i]
          /\ seen'[Len(seen) + 1] = t /\ seen' # <<>>
          /\ seen # <<>> => Len(seen) > 0
          /\ seen = <<>> => Len(seen) = 0
      <3> HIDE DEF Tokens
      <3> QED BY <1>1, <1>3
    <2>2. Front(seen') = seen
      <3>1. /\ Front(seen') \in Seq(Tokens) /\ Len(Front(seen')) = Len(seen)
            /\ \A i \in 1 .. Len(seen) : Front(seen')[i] = seen'[i]
        <4> HIDE DEF Tokens
        <4> QED BY <2>1, FrontFacts
      <3> HIDE DEF Tokens
      <3> QED BY <1>3, <2>1, <3>1, SeqEqual
    <2> QED BY <2>1, <2>2 DEF Last
  <1>5. AtEnd' <=> t = "EOF"
    BY <1>4 DEF AtEnd
  <1>6. Input' = IF t = "EOF" THEN seen ELSE Append(seen, t)
    BY <1>1, <1>4, <1>5 DEF Input
  <1> HIDE DEF Tokens
  <1> QED BY <1>1, <1>2, <1>3, <1>4, <1>5, <1>6

LEMMA FetchKeepsText ==
  ASSUME DepthInv, TextInv, Fetch PROVE TextInv'
  <1> SUFFICES ASSUME IsText' PROVE TextRead'
    BY FetchIs DEF TextInv
  <1>1. pb = <<>> /\ ~AtEnd /\ at' = at /\ Input = seen /\ seen' # <<>>
    BY FetchIs
  <1>2. PICK t \in Offered :
          /\ pb' = IF t = "EOF" THEN <<>> ELSE <<t>>
          /\ Input' = IF t = "EOF" THEN seen ELSE Append(seen, t)
          /\ AtEnd' <=> t = "EOF"
          /\ seen'[1] = IF seen = <<>> THEN t ELSE seen[1]
    BY FetchIs
  <1>3. CASE seen = <<>>
    <2>1. t = "quote" /\ at = "value"
      BY <1>2, <1>3 DEF IsText, TextInv, TextRead
    <2>2. Input' = <<"quote">> /\ pb' = <<"quote">> /\ "quote" \in Signs
      BY <1>2, <1>3, <2>1 DEF Signs, Chars
    <2>3. Len(pb') = 1 /\ Len(Input') = 1 /\ Input'[1] = "quote" /\ Input' \in Seq(Signs)
      BY <2>2
    <2>4. Mirrors(Input', pb')
      BY <2>2, <2>3 DEF Mirrors
    <2>5. Lexed(Input', 0, "value")
      BY <2>3 DEF Lexed
    <2>6. Len(Input') - Len(pb') = 0 /\ at' = "value" /\ Input' # <<>>
      BY <1>1, <2>1, <2>2, <2>3
    <2> QED BY <2>3, <2>4, <2>5, <2>6 DEF TextRead, TextPlaces
  <1>4. CASE seen # <<>>
    <2>1. IsText
      BY <1>2, <1>4 DEF IsText
    <2>2. t = "EOF" \/ t \in Signs
      BY <2>1 DEF Offered, Signs, Chars
    <2>3. /\ seen \in Seq(Signs) /\ seen[1] = "quote" /\ at \in TextPlaces
          /\ Len(seen) \in Nat /\ Lexed(seen, Len(seen), at)
      <3>1. Len(pb) = 0
        BY <1>1
      <3>2. seen \in Seq(Signs) /\ Lexed(seen, Len(seen) - 0, at)
        BY <1>1, <2>1, <3>1 DEF TextInv, TextRead
      <3>3. Len(seen) \in Nat
        <4> HIDE DEF Signs
        <4> QED BY <3>2
      <3> QED BY <1>1, <2>1, <3>2, <3>3 DEF TextInv, TextRead
    <2>4. at \notin {"ok", "error"}
      BY DEF Fetch
    <2>5. CASE t = "EOF"
      <3>1. Input' = seen /\ pb' = <<>> /\ Len(pb') = 0 /\ Mirrors(seen, pb')
        BY <1>2, <2>3, <2>5 DEF Mirrors
      <3> QED BY <1>1, <1>4, <2>3, <2>4, <3>1 DEF TextRead
    <2>6. CASE t # "EOF"
      <3>1. Input' = Append(seen, t) /\ pb' = <<t>> /\ Len(pb') = 1 /\ t \in Signs
        BY <1>2, <2>2, <2>6
      <3>2. Lexed(Input', Len(seen), at)
        BY <2>3, <3>1, LexedKept
      <3>3. Len(Input') = Len(seen) + 1 /\ Input' \in Seq(Signs) /\ Input'[1] = "quote"
            /\ Input'[Len(Input')] = t
        <4>1. Len(seen) > 0
          <5> HIDE DEF Signs
          <5> QED BY <1>4, <2>3
        <4> HIDE DEF Signs
        <4> QED BY <2>3, <3>1, <4>1
      <3>4. Mirrors(Input', pb')
        BY <2>3, <3>1, <3>3 DEF Mirrors
      <3>5. Len(Input') - Len(pb') = Len(seen) /\ Input' # <<>>
        BY <2>3, <3>1, <3>3
      <3> QED BY <1>1, <2>3, <2>4, <3>1, <3>2, <3>3, <3>4, <3>5 DEF TextRead
    <2> QED BY <2>5, <2>6
  <1> QED BY <1>3, <1>4

(* Outside the decoder a string is only begun, and followed by nothing.    *)
LEMMA ParseEndsText ==
  ASSUME DepthInv, TextInv, IsText, Parse PROVE End \/ Trailing
  <1> DEFINE s == Input
             c == Len(s) - Len(pb)
  <1>1. Ready
    BY DEF Parse, SkipBlank, Open, TooDeep, Scalar, Literal, LiteralEnds, NoValue, FirstMember,
           Close, Key, Colon, NoMember, KeyValue, Element, Comma, NoComma, End, Trailing, Looks
  <1>2. /\ Len(s) \in Nat /\ Len(pb) \in Nat /\ c \in Nat /\ Lexed(s, c, at)
        /\ pb = <<>> => Peek = "EOF" /\ AtEnd /\ c = Len(s)
        /\ pb # <<>> => Peek \in Signs /\ Peek # "EOF" /\ Peek = s[c + 1]
    BY <1>1, PeekIs
  <1>3. at \in TextPlaces /\ s[1] = "quote" /\ s # <<>> /\ s \in Seq(Signs)
    BY DEF TextInv, TextRead
  <1>4. Peek # "blank"
    BY <1>2 DEF Signs, Chars, Escapes, Units
  <1>5. at = "value" => Peek = "quote"
    <2> SUFFICES ASSUME at = "value" PROVE Peek = "quote"
      OBVIOUS
    <2>1. c = 0
      BY <1>2 DEF Lexed
    <2>2. Len(s) # 0
      <3> HIDE DEF s, Signs
      <3> QED BY <1>3
    <2> QED BY <1>2, <1>3, <2>1, <2>2
  <1>6. ~(at \in {"literal", "first", "key", "colon", "keyvalue", "element", "next"})
    BY <1>3 DEF TextPlaces
  <1>7. Peek \notin Openers \cup Words \cup {"blank"} \/ at # "value"
    BY <1>5 DEF Openers, Words
  <1> QED BY <1>4, <1>5, <1>6, <1>7 DEF Parse, SkipBlank, Open, TooDeep, Scalar, Literal,
          LiteralEnds, NoValue, FirstMember, Close, Key, Colon, NoMember, KeyValue, Element,
          Comma, NoComma, Looks

LEMMA ParseKeepsText ==
  ASSUME DepthInv, TextInv, IsText, Parse PROVE TextInv'
  <1>1. CASE End
    <2>1. Ready /\ at = "end" /\ Peek = "EOF" /\ pb' = pb /\ at' = "ok" /\ seen' = seen
      BY <1>1 DEF End, Looks, Keep
    <2>2. Len(Input) \in Nat /\ Len(Input) - Len(pb) = Len(Input) /\ Lexed(Input, Len(Input), "end")
      BY <2>1, PeekIs
    <2>3. IsString(Input) /\ Lexed(Input, Len(Input), "ok")
      BY <2>2, EndedString DEF Lexed
    <2>4. Mirrors(Input, pb) /\ Len(pb) <= 3
      BY DEF TextInv, TextRead
    <2> QED BY <2>1, <2>2, <2>3, <2>4, TextStays DEF TextPlaces
  <1>2. CASE Trailing
    BY <1>2, TextFails DEF Trailing, Looks
  <1> QED BY <1>1, <1>2, ParseEndsText

LEMMA TextStep ==
  ASSUME DepthInv, TextInv, [ParserNext]_parserVars PROVE TextInv'
  <1>1. CASE Fetch
    BY <1>1, FetchKeepsText
  <1>2. CASE Parse \/ Decode
    <2>1. Ready /\ seen' = seen
      <3>1. CASE Parse
        BY <3>1 DEF Parse, SkipBlank, Open, TooDeep, Scalar, Literal, LiteralEnds, NoValue,
                FirstMember, Close, Key, Colon, NoMember, KeyValue, Element, Comma, NoComma, End,
                Trailing, Looks, Fail, ValueEnds, StartMember
      <3>2. CASE Decode
        BY <3>2 DEF Decode, OpenString, Text, CloseString, Escape, Unit, Pair, PairU, Low,
                BadString, Looks, Goes, Fail, ValueEnds, Units
      <3> QED BY <1>2, <3>1, <3>2
    <2>2. seen # <<>>
      BY <2>1 DEF Ready, AtEnd, TextInv
    <2>3. CASE IsText
      BY <1>2, <2>3, ParseKeepsText, DecodeKeepsText
    <2>4. CASE ~IsText
      BY <2>1, <2>2, <2>4 DEF IsText, TextInv
    <2> QED BY <2>3, <2>4
  <1>3. CASE UNCHANGED parserVars
    BY <1>3 DEF parserVars, TextInv, TextRead, IsText, AtEnd, Input
  <1> QED BY <1>1, <1>2, <1>3 DEF ParserNext, Stopped

LEMMA TextInit ==
  ASSUME ParserInit PROVE TextInv
  BY DEF ParserInit, TextInv, TextRead, IsText

LEMMA TextHolds == ParserSpec => [](DepthInv /\ TextInv)
  <1>1. ParserInit => DepthInv /\ TextInv
    BY DepthInit, TextInit
  <1>2. (DepthInv /\ TextInv) /\ [ParserNext]_parserVars => (DepthInv /\ TextInv)'
    BY DepthStep, TextStep
  <1> QED BY <1>1, <1>2, PTL DEF ParserSpec

(* How the document begins tells whether it is a string.                   *)
LEMMA QuotedIs ==
  ASSUME DepthInv, TextInv PROVE IsText <=> IsQuoted(Input)
  <1>1. CASE IsText
    BY <1>1 DEF TextInv, TextRead, IsQuoted
  <1>2. CASE ~IsText /\ ~AtEnd
    BY <1>2 DEF IsText, Input, IsQuoted
  <1>3. CASE ~IsText /\ AtEnd
    <2>1. seen \in Seq(Tokens) /\ seen # <<>> /\ Input = Front(seen) /\ seen[1] # "quote"
      BY <1>3 DEF DepthInv, ParserTypes, AtEnd, Input, IsText
    <2>2. /\ Len(seen) \in Nat /\ Input \in Seq(Tokens) /\ Len(Input) = Len(seen) - 1
          /\ \A i \in 1 .. Len(seen) - 1 : Input[i] = seen[i]
      <3> HIDE DEF Tokens
      <3> QED BY <2>1, FrontFacts
    <2>3. Input # <<>> => Input[1] = seen[1]
      <3> SUFFICES ASSUME Input # <<>> PROVE 1 \in 1 .. Len(seen) - 1
        BY <2>2
      <3>1. Len(Input) # 0
        <4> HIDE DEF Tokens
        <4> QED BY <2>2, EmptySeq
      <3> QED BY <2>2, <3>1
    <2> QED BY <1>3, <2>1, <2>3 DEF IsQuoted
  <1> QED BY <1>1, <1>2, <1>3

(* The parser and the decoder decide whether the document is JSON, however *)
(* long it is, however deep the limit and whatever was put back: what they *)
(* accept is one value, and they stop early only where none begins like    *)
(* this, or where the limit is exceeded.                                   *)
THEOREM InputIsDecided == ParserSpec => []DecidesInput
  <1>1. DepthInv /\ GrammarInv /\ ErrorInv /\ TextInv => DecidesInput
    <2> SUFFICES ASSUME DepthInv, GrammarInv, ErrorInv, TextInv PROVE DecidesInput
      OBVIOUS
    <2>1. CASE IsText
      BY <2>1, QuotedIs DEF TextInv, TextRead, DecidesInput, Valid, Viable
    <2>2. CASE ~IsText
      BY <2>2, QuotedIs, AcceptedIsJson DEF ErrorInv, Justified, DecidesInput, Valid, Viable
    <2> QED BY <2>1, <2>2
  <1> QED BY <1>1, GrammarHolds, TextHolds, PTL

(* What can be continued to a string begins one: BeginsString says no more *)
(* than what j2t may reject.                                               *)
THEOREM StringsBegin ==
  ASSUME NEW s \in Seq(Tokens), NEW r \in Seq(Tokens), IsString(s \o r)
  PROVE  BeginsString(s)
  <1> DEFINE v == s \o r
  <1>1. /\ Len(s) \in Nat /\ Len(v) \in Nat /\ Len(s) <= Len(v)
        /\ \A k \in 1 .. Len(s) : v[k] = s[k]
    <2> HIDE DEF Tokens
    <2> QED OBVIOUS
  <1>2. Endings(v) = {Len(v)} /\ HasDigits(v)
    BY DEF IsString
  <1> HIDE DEF v
  <1>3. ASSUME NEW i \in 1 .. Len(s) PROVE Escaped(s, i) <=> Escaped(v, i)
    BY <1>1, EscapedKept
  <1>4. ASSUME NEW i \in Endings(s) PROVE i = Len(s)
    <2>1. i \in 2 .. Len(s) /\ s[i] = "quote" /\ ~Escaped(s, i)
      BY DEF Endings
    <2>2. i \in Endings(v)
      BY <1>1, <1>3, <2>1 DEF Endings
    <2> QED BY <1>1, <1>2, <2>1, <2>2
  <1>5. HasDigits(s)
    BY <1>1, <1>2, <1>3 DEF HasDigits
  <1> QED BY <1>4, <1>5 DEF BeginsString

(* An error before the end of a string is final too: whatever the rest of  *)
(* the document would have been, it is no string.                          *)
THEOREM StringErrorsAreFinal ==
  ParserSpec =>
    [](IsText /\ at = "error" =>
         \/ AtEnd /\ ~IsString(Input)
         \/ \A r \in Seq(Tokens) : ~IsString(Input \o r))
  <1>1. DepthInv /\ TextInv =>
          (IsText /\ at = "error" =>
             \/ AtEnd /\ ~IsString(Input)
             \/ \A r \in Seq(Tokens) : ~IsString(Input \o r))
    <2> SUFFICES ASSUME DepthInv, TextInv, IsText, at = "error"
                 PROVE  \/ AtEnd /\ ~IsString(Input)
                        \/ \A r \in Seq(Tokens) : ~IsString(Input \o r)
      OBVIOUS
    <2>1. IF AtEnd THEN ~IsString(Input) ELSE ~BeginsString(Input)
      BY DEF TextInv, TextRead
    <2>2. Input \in Seq(Tokens)
      BY InputIsTyped DEF DepthInv
    <2> QED BY <2>1, <2>2, StringsBegin
  <1> QED BY <1>1, TextHolds, PTL

-----------------------------------------------------------------------------
(* The page                                                                *)

Glyphs == Tokens \union {"-", "HL"}
Pages == [line : Seq(Glyphs), out : Seq(Seq(Glyphs))]

(* What ends in no blank.                                                  *)
Texts == {l \in Seq(Glyphs) : l # <<>> /\ l[Len(l)] # "blank"}

LEMMA StrippedIs ==
  ASSUME NEW l \in Seq(Glyphs), NEW n \in 0 .. Len(l), n = 0 \/ l[n] # "blank",
         \A i \in n + 1 .. Len(l) : l[i] = "blank"
  PROVE  Stripped(l) = SubSeq(l, 1, n)
  <1> DEFINE S == {0} \union {i \in DOMAIN l : l[i] # "blank"}
  <1>1. DOMAIN l = 1 .. Len(l) /\ Len(l) \in Nat
    <2> HIDE DEF Glyphs
    <2> QED OBVIOUS
  <1>2. n \in S
    BY <1>1
  <1>3. \A i \in S : n >= i /\ i \in Nat
    BY <1>1
  <1>4. \A m \in S : (\A i \in S : m >= i) <=> m = n
    <2> HIDE DEF S
    <2>1. n \in Nat
      BY <1>1
    <2> QED BY <1>2, <1>3, <2>1
  <1> HIDE DEF S
  <1>5. Max(S) = n
    BY <1>2, <1>4 DEF Max
  <1> QED BY <1>5 DEF Stripped, S

LEMMA StrippedWhole ==
  ASSUME NEW l \in Texts PROVE Stripped(l) = l
  <1> USE DEF Texts
  <1>1. Len(l) \in Nat
    OBVIOUS
  <1>2. Stripped(l) = SubSeq(l, 1, Len(l))
    BY <1>1, StrippedIs
  <1> HIDE DEF Glyphs
  <1> QED BY <1>2, SubSeqFull

LEMMA StrippedBlank ==
  ASSUME NEW l \in Texts PROVE Stripped(l \o <<"blank">>) = l
  <1> USE DEF Texts
  <1> DEFINE r == l \o <<"blank">>
             n == Len(l)
  <1>0. "blank" \in Glyphs
    BY DEF Glyphs, Tokens, Marks
  <1>1. /\ r \in Seq(Glyphs) /\ Len(r) = n + 1 /\ n \in Nat /\ r[n + 1] = "blank"
        /\ \A i \in 1 .. n : r[i] = l[i]
    <2> HIDE DEF Glyphs
    <2> QED BY <1>0
  <1>2. n \in 1 .. n
    <2>1. n # 0
      BY EmptySeq
    <2> QED BY <1>1, <2>1
  <1> HIDE DEF r
  <1>3. Stripped(r) = SubSeq(r, 1, n)
    <2>1. n \in 0 .. Len(r) /\ r[n] # "blank"
      BY <1>1, <1>2
    <2>2. \A i \in n + 1 .. Len(r) : r[i] = "blank"
      BY <1>1
    <2> QED BY <1>1, <2>1, <2>2, StrippedIs
  <1>4. SubSeq(r, 1, n) = l
    <2> DEFINE q == SubSeq(r, 1, n)
    <2> HIDE DEF Glyphs, n
    <2>1. \A i \in 1 .. n : r[i] \in Glyphs /\ 1 + i - 1 = i
      BY <1>1 DEF n
    <2>2. n - 1 + 1 = n /\ 1 <= n
      BY <1>1, <1>2
    <2>3. q \in Seq(Glyphs) /\ Len(q) = n /\ \A i \in 1 .. n : q[i] = r[i]
      BY <1>1, <2>1, <2>2, SubSeqProperties
    <2> HIDE DEF q
    <2>4. q = l
      BY <1>1, <2>3, SeqEqual DEF n
    <2> QED BY <2>4 DEF q
  <1> QED BY <1>3, <1>4 DEF r

LEMMA FlushedEmpty ==
  ASSUME NEW p \in Pages
  PROVE  FlushedPage(p).line = <<>> /\ (p.line = <<>> => FlushedPage(p) = p)
  <1>1. FlushedPage(p).line = <<>>
    BY DEF FlushedPage
  <1>2. p = [line |-> p.line, out |-> p.out]
    BY DEF Pages
  <1>3. Stripped(<<>>) = <<>>
    <2>1. <<>> \in Seq(Glyphs) /\ Len(<<>>) = 0
      OBVIOUS
    <2>2. 0 \in 0 .. Len(<<>>) /\ \A i \in 0 + 1 .. Len(<<>>) : <<>>[i] = "blank"
      BY <2>1
    <2>3. Stripped(<<>>) = SubSeq(<<>>, 1, 0)
      BY <2>1, <2>2, StrippedIs
    <2> QED BY <2>3, SubSeqEmpty
  <1> QED BY <1>1, <1>2, <1>3 DEF FlushedPage

LEMMA FlushedIs ==
  ASSUME NEW p \in Pages, NEW l \in Texts, p.line \in {l, l \o <<"blank">>}
  PROVE  FlushedPage(p) \in Pages /\ FlushedPage(p).out = Append(p.out, l)
  <1>1. p.out \in Seq(Seq(Glyphs))
    BY DEF Pages
  <1>2. Stripped(p.line) = l
    BY StrippedWhole, StrippedBlank
  <1>3. FlushedPage(p) = [line |-> <<>>, out |-> Append(p.out, l)]
    BY <1>2 DEF FlushedPage, Texts
  <1>4. Append(p.out, l) \in Seq(Seq(Glyphs)) /\ <<>> \in Seq(Glyphs)
    <2>1. l \in Seq(Glyphs)
      BY DEF Texts
    <2> HIDE DEF Glyphs
    <2> QED BY <1>1, <2>1
  <1> QED BY <1>3, <1>4 DEF Pages

LEMMA WrittenIs ==
  ASSUME NEW p \in Pages, NEW s \in Seq(Glyphs)
  PROVE  /\ Written(p, s) \in Pages
         /\ Written(p, s).line = p.line \o s /\ Written(p, s).out = p.out
  <1>1. p.line \o s \in Seq(Glyphs)
    <2>1. p.line \in Seq(Glyphs)
      BY DEF Pages
    <2> QED BY <2>1, ConcatProperties
  <1>2. ASSUME NEW l \in Seq(Glyphs)
        PROVE  /\ [p EXCEPT !.line = l] \in Pages
               /\ [p EXCEPT !.line = l].line = l /\ [p EXCEPT !.line = l].out = p.out
    BY DEF Pages
  <1> QED BY <1>1, <1>2 DEF Written

LEMMA TextEnds ==
  ASSUME NEW X \in Seq(Glyphs), NEW s \in Texts PROVE X \o s \in Texts
  <1>1. s \in Seq(Glyphs) /\ s # <<>> /\ s[Len(s)] # "blank"
    BY DEF Texts
  <1> HIDE DEF Glyphs
  <1>2. Len(s) \in Nat /\ Len(s) > 0 /\ Len(X) \in Nat
    BY <1>1, EmptySeq
  <1>3. /\ X \o s \in Seq(Glyphs) /\ Len(X \o s) = Len(X) + Len(s)
        /\ \A i \in 1 .. Len(X) + Len(s) : (X \o s)[i] = IF i <= Len(X) THEN X[i]
                                                       ELSE s[i - Len(X)]
    BY <1>1, ConcatProperties
  <1>4. Len(X \o s) \in 1 .. Len(X) + Len(s) /\ Len(X \o s) - Len(X) = Len(s)
        /\ ~(Len(X \o s) <= Len(X))
    BY <1>2, <1>3
  <1>5. (X \o s)[Len(X \o s)] = s[Len(s)]
    BY <1>3, <1>4
  <1>6. X \o s # <<>>
    BY <1>2, <1>3
  <1> QED BY <1>1, <1>3, <1>5, <1>6 DEF Texts

(* What stands at the head of a line, and what follows it.                 *)
LEMMA TextIs ==
  ASSUME NEW d \in Nat
  PROVE  /\ Margin(d) \in Seq(Glyphs)
         /\ \A s \in Texts : Margin(d) \o s \in Texts
  <1> DEFINE m == 2 * IF d < MaxIndent THEN d ELSE MaxIndent
             M == Margin(d)
  <1>1. m \in Nat
    BY J2tAssumption
  <1>2. M = [i \in 1 .. m |-> "blank"] /\ "blank" \in Glyphs
    BY DEF Margin, Blanks, Glyphs, Tokens, Marks
  <1> HIDE DEF m, M
  <1>3. M \in Seq(Glyphs)
    <2> HIDE DEF Glyphs
    <2> QED BY <1>1, <1>2, IsASeq
  <1>4. ASSUME NEW X \in Seq(Glyphs), NEW s \in Texts PROVE X \o s \in Texts
    BY TextEnds
  <1> QED BY <1>3, <1>4 DEF M

-----------------------------------------------------------------------------
(* The members read, and their lines                                       *)

(* L has the lines of the members that begin at the places H, in turn.     *)
Lined(w, H, L) ==
  \E f \in [DOMAIN L -> H] :
    /\ \A i \in H : \E k \in DOMAIN L : f[k] = i
    /\ \A k, l \in DOMAIN L : k < l => f[k] < f[l]
    /\ \A k \in DOMAIN L : IsLineOf(w, f[k], L[k])

(* A token after an opening bracket or a comma begins a member.            *)
LEMMA HeadsNext ==
  ASSUME NEW w \in Seq(Tokens), NEW t \in Tokens
  PROVE  /\ Heads(w) \subseteq 1 .. Len(w)
         /\ \/ t \in Closers \union {"blank"}
            \/ \A h : Follows(w, h, Len(w) + 1) => w[h] \notin Openers \union {"comma"}
            => Heads(Append(w, t)) = Heads(w)
         /\ /\ t \notin Closers \union {"blank"}
            /\ \E h : Follows(w, h, Len(w) + 1) /\ w[h] \in Openers \union {"comma"}
            => Heads(Append(w, t)) = Heads(w) \union {Len(w) + 1}
  <1> DEFINE v == Append(w, t)
             n == Len(w) + 1
  <1>1. /\ Len(w) \in Nat /\ v[n] = t /\ \A k \in 1 .. Len(w) : v[k] = w[k]
        /\ DOMAIN w = 1 .. Len(w) /\ DOMAIN v = 1 .. n /\ Begun(w, v)
    BY AppendedIs
  <1>2. \A i \in 1 .. n : \A h : Follows(v, h, i) <=> Follows(w, h, i)
    BY <1>1, FollowsKept
  <1> HIDE DEF v
  <1>3. \A i \in 1 .. n : \A h \in 1 .. (i - 1) : v[h] = w[h] /\ h \in 1 .. Len(w)
    BY <1>1
  <1>4. Heads(w) \subseteq 1 .. Len(w) /\ Heads(v) \subseteq 1 .. n
    BY <1>1 DEF Heads, Filled
  <1>5. ASSUME NEW i \in 1 .. Len(w) PROVE i \in Heads(v) <=> i \in Heads(w)
    <2>1. i \in 1 .. n /\ v[i] = w[i] /\ i \in DOMAIN w /\ i \in DOMAIN v
      BY <1>1
    <2> QED BY <1>2, <1>3, <2>1 DEF Heads, Filled
  <1>6. n \in Heads(v) <=> /\ t \notin Closers \union {"blank"}
                           /\ \E h : Follows(w, h, n) /\ w[h] \in Openers \union {"comma"}
    <2>1. n \in 1 .. n /\ n \in DOMAIN v
      BY <1>1
    <2>2. \A h : Follows(w, h, n) => h \in 1 .. (n - 1)
      BY DEF Follows
    <2> QED BY <1>1, <1>2, <1>3, <2>1, <2>2 DEF Heads, Filled
  <1>7. \A i \in 1 .. n : i \in 1 .. Len(w) \/ i = n
    BY <1>1
  <1>8. n \notin Heads(v) => Heads(v) = Heads(w)
    BY <1>4, <1>5, <1>7
  <1>9. n \in Heads(v) => Heads(v) = Heads(w) \union {n}
    BY <1>4, <1>5, <1>7
  <1> QED BY <1>4, <1>6, <1>8, <1>9 DEF v

LEMMA LevelKept ==
  ASSUME NEW w \in Seq(Tokens), NEW v, Begun(w, v), NEW i \in 1 .. Len(w) + 1
  PROVE  Level(v, i) = Level(w, i)
  <1>1. /\ Len(w) \in Nat /\ Len(v) \in Nat /\ Len(w) <= Len(v)
        /\ DOMAIN w = 1 .. Len(w) /\ DOMAIN v = 1 .. Len(v)
        /\ \A k \in 1 .. Len(w) : v[k] = w[k] /\ k \in 1 .. Len(v)
    BY BegunFacts
  <1>2. \A j \in 1 .. Len(v) : j < i => j \in 1 .. Len(w)
    BY <1>1
  <1>3. {j \in Openings(v) : j < i} = {j \in Openings(w) : j < i}
    BY <1>1, <1>2 DEF Openings
  <1>4. {j \in Closings(v) : j < i} = {j \in Closings(w) : j < i}
    BY <1>1, <1>2 DEF Closings
  <1> QED BY <1>3, <1>4 DEF Level

(* After what was read, the containers that are open are those of the      *)
(* parser.                                                                 *)
LEMMA LevelNext ==
  ASSUME NEW w \in Seq(Tokens), NEW st \in Seq(Frames), Counted(w, st)
  PROVE  Level(w, Len(w) + 1) = Len(st) /\ Len(st) \in Nat
  <1>1. DOMAIN w = 1 .. Len(w) /\ Len(w) \in Nat
    <2> HIDE DEF Tokens
    <2> QED OBVIOUS
  <1>2. Len(st) \in Nat
    <2> HIDE DEF Frames
    <2> QED OBVIOUS
  <1>3. {j \in Openings(w) : j < Len(w) + 1} = Openings(w)
    BY <1>1 DEF Openings
  <1>4. {j \in Closings(w) : j < Len(w) + 1} = Closings(w)
    BY <1>1 DEF Closings
  <1>5. Cardinality(Closings(w)) \in Nat
    BY FS_CardinalityType DEF Counted
  <1>6. Level(w, Len(w) + 1) = Cardinality(Openings(w)) - Cardinality(Closings(w))
    BY <1>3, <1>4, Zenon DEF Level
  <1>7. Cardinality(Openings(w)) = Cardinality(Closings(w)) + Len(st)
    BY DEF Counted
  <1> QED BY <1>2, <1>5, <1>6, <1>7

(* The line of a member stays what it is, if no colon follows its head.    *)
LEMMA LineKept ==
  ASSUME NEW w \in Seq(Tokens), NEW t \in Tokens, NEW i \in 1 .. Len(w), NEW l,
         t # "colon" \/ ~Follows(w, i, Len(w) + 1), IsLineOf(w, i, l)
  PROVE  IsLineOf(Append(w, t), i, l)
  <1> DEFINE v == Append(w, t)
             n == Len(w) + 1
  <1>1. /\ Len(w) \in Nat /\ v[n] = t /\ \A k \in 1 .. Len(w) : v[k] = w[k]
        /\ DOMAIN w = 1 .. Len(w) /\ DOMAIN v = 1 .. n /\ Begun(w, v)
    BY AppendedIs
  <1>2. \A j \in 1 .. n : \A h : Follows(v, h, j) <=> Follows(w, h, j)
    BY <1>1, FollowsKept
  <1>3. Level(v, i) = Level(w, i)
    <2>1. i \in 1 .. n
      BY <1>1
    <2> QED BY <1>1, <2>1, LevelKept
  <1> HIDE DEF v
  <1>4. \A c \in Filled(w) : c \in Filled(v) /\ c \in 1 .. n /\ v[c] = w[c]
    BY <1>1 DEF Filled
  <1>5. \A c \in Filled(v) : c \in Filled(w) \/ (c = n /\ v[c] = t)
    BY <1>1 DEF Filled
  <1>6. v[i] = w[i]
    BY <1>1
  <1>7. n \in 1 .. n
    BY <1>1
  <1>8. CASE /\ \A c \in Filled(w) : Follows(w, i, c) => w[c] # "colon"
             /\ l = Margin(Level(w, i) - 1) \o <<"-">> \o Said(w[i])
    <2>1. ASSUME NEW c \in Filled(v), Follows(v, i, c) PROVE v[c] # "colon"
      <3>1. CASE c \in Filled(w)
        BY <1>2, <1>4, <1>8, <2>1, <3>1
      <3>2. CASE c = n /\ v[c] = t
        BY <1>2, <1>7, <2>1, <3>2
      <3> QED BY <1>5, <3>1, <3>2
    <2> QED BY <1>3, <1>6, <1>8, <2>1 DEF IsLineOf, v
  <1>9. CASE \E c, g \in Filled(w) :
               /\ Follows(w, i, c) /\ w[c] = "colon" /\ Follows(w, c, g)
               /\ l = Margin(Level(w, i) - 1) \o <<"str", "colon">> \o Said(w[g])
    <2>1. PICK c \in Filled(w), g \in Filled(w) :
               /\ Follows(w, i, c) /\ w[c] = "colon" /\ Follows(w, c, g)
               /\ l = Margin(Level(w, i) - 1) \o <<"str", "colon">> \o Said(w[g])
      BY <1>9
    <2>2. /\ Follows(v, i, c) /\ v[c] = "colon" /\ Follows(v, c, g) /\ v[g] = w[g]
          /\ c \in Filled(v) /\ g \in Filled(v)
      BY <1>2, <1>4, <2>1
    <2> QED BY <1>3, <2>1, <2>2 DEF IsLineOf, v
  <1> QED BY <1>8, <1>9 DEF IsLineOf

LEMMA LinedKept ==
  ASSUME NEW w \in Seq(Tokens), NEW t \in Tokens, NEW H \in SUBSET (1 .. Len(w)), NEW L,
         Lined(w, H, L), t # "colon" \/ \A i \in H : ~Follows(w, i, Len(w) + 1)
  PROVE  Lined(Append(w, t), H, L)
  <1>1. PICK f \in [DOMAIN L -> H] :
          /\ \A i \in H : \E k \in DOMAIN L : f[k] = i
          /\ \A k, l \in DOMAIN L : k < l => f[k] < f[l]
          /\ \A k \in DOMAIN L : IsLineOf(w, f[k], L[k])
    BY DEF Lined
  <1>2. ASSUME NEW k \in DOMAIN L PROVE IsLineOf(Append(w, t), f[k], L[k])
    <2>1. f[k] \in H /\ f[k] \in 1 .. Len(w)
      BY <1>1
    <2> QED BY <1>1, <2>1, LineKept
  <1> QED BY <1>1, <1>2 DEF Lined

(* One line more.                                                          *)
LEMMA LinedMore ==
  ASSUME NEW w, NEW H \in SUBSET Nat, NEW L \in Seq(Seq(Glyphs)), NEW i \in Nat,
         Lined(w, H, L), \A h \in H : h < i, NEW l \in Seq(Glyphs), IsLineOf(w, i, l)
  PROVE  Lined(w, H \union {i}, Append(L, l))
  <1> DEFINE n == Len(L)
             M == Append(L, l)
  <1>1. /\ n \in Nat /\ DOMAIN L = 1 .. n /\ DOMAIN M = 1 .. n + 1 /\ M[n + 1] = l
        /\ \A k \in 1 .. n : M[k] = L[k]
    <2> HIDE DEF Glyphs
    <2> QED OBVIOUS
  <1> HIDE DEF n, M
  <1>2. PICK f \in [1 .. n -> H] :
          /\ \A j \in H : \E k \in 1 .. n : f[k] = j
          /\ \A k, m \in 1 .. n : k < m => f[k] < f[m]
          /\ \A k \in 1 .. n : IsLineOf(w, f[k], L[k])
    BY <1>1 DEF Lined
  <1> DEFINE g == [k \in 1 .. n + 1 |-> IF k = n + 1 THEN i ELSE f[k]]
  <1>3. /\ g \in [1 .. n + 1 -> H \union {i}] /\ g[n + 1] = i
        /\ \A k \in 1 .. n : g[k] = f[k] /\ f[k] \in H /\ k \in 1 .. n + 1
        /\ n + 1 \in 1 .. n + 1 /\ \A k \in 1 .. n + 1 : k \in 1 .. n \/ k = n + 1
    BY <1>1, <1>2
  <1> HIDE DEF g
  <1>4. \A j \in H \union {i} : \E k \in 1 .. n + 1 : g[k] = j
    BY <1>2, <1>3
  <1>5. ASSUME NEW k \in 1 .. n + 1, NEW m \in 1 .. n + 1, k < m PROVE g[k] < g[m]
    <2>1. k \in 1 .. n
      BY <1>1, <1>5
    <2>2. CASE m = n + 1
      BY <1>3, <2>1, <2>2
    <2>3. CASE m \in 1 .. n
      BY <1>2, <1>3, <1>5, <2>1, <2>3
    <2> QED BY <1>3, <2>2, <2>3
  <1>6. ASSUME NEW k \in 1 .. n + 1 PROVE IsLineOf(w, g[k], M[k])
    <2>1. CASE k = n + 1
      BY <1>1, <1>3, <2>1
    <2>2. CASE k \in 1 .. n
      BY <1>1, <1>2, <1>3, <2>2
    <2> QED BY <1>3, <2>1, <2>2
  <1>7. Lined(w, H \union {i}, M)
    BY <1>1, <1>3, <1>4, <1>5, <1>6 DEF Lined
  <1> QED BY <1>7 DEF M

-----------------------------------------------------------------------------
(* What is on the page when the tokens w were read                         *)

(* The last member of w has a key at i, and L has the lines before it.     *)
KeyRead(w, i, L) ==
  /\ i \in Heads(w) /\ \A h \in Heads(w) : h <= i
  /\ Lined(w, Heads(w) \ {i}, L) /\ Level(w, i) \in Nat \ {0}

(* A colon follows the key at i, and nothing follows the colon.            *)
ColonRead(w, i) ==
  \E c : Follows(w, i, c) /\ w[c] = "colon" /\ Follows(w, c, Len(w) + 1)

(* The value is due of the member whose line begins with X.                *)
Awaits(w, st, L, X) ==
  \/ /\ st[Len(st)].kind = "lbracket" /\ Lined(w, Heads(w), L)
     /\ X = Margin(Len(st) - 1) \o <<"-">>
  \/ /\ st[Len(st)].kind = "lbrace"
     /\ \E i : /\ KeyRead(w, i, L) /\ ColonRead(w, i)
               /\ X = Margin(Level(w, i) - 1) \o <<"str", "colon">>

(* What its line begins with is in the line buffer, or printed.            *)
Headed(p, flush, L, X) ==
  IF flush THEN p.out = L /\ p.line = X \o <<"blank">>
           ELSE p.out = Append(L, X) /\ p.line = <<>>

InMember(w, st, where, p) ==
  \/ where = "value" /\ \E L \in Seq(Seq(Glyphs)), X \in Texts :
                           Awaits(w, st, L, X) /\ Headed(p, st[Len(st)].flush, L, X)
  \/ where = "literal" /\ st[Len(st)].flush
       /\ \E X \in Texts : /\ p.line = X \o <<"blank">>
                           /\ Lined(w, Heads(w), Append(p.out, X \o <<"blank", "true">>))

InKey(w, where, p) ==
  /\ where \in {"colon", "keyvalue"}
  /\ \E i : /\ KeyRead(w, i, p.out) /\ p.line = Margin(Level(w, i) - 1) \o <<"str">>
            /\ IF where = "colon" THEN Follows(w, i, Len(w) + 1) ELSE ColonRead(w, i)

(* A value that is no container is not printed before the end.             *)
Alone(w, where, p) ==
  /\ p.out = <<>>
  /\ \/ where = "value" /\ p.line = <<>>
     \/ where = "literal" /\ p.line = <<>> /\ \E i \in Filled(w) : w[i] = "true"
     \/ where = "end" /\ \E i \in Filled(w) : p.line = <<w[i]>>
  /\ Openings(w) = {}

Drawn(w, st, where, p) ==
  \/ where = "error"
  \/ where = "ok" /\ Layout(w, p.out)
  \/ /\ where \in {"first", "next", "key", "element"} \/ (where = "end" /\ Openings(w) # {})
     /\ p.line = <<>> /\ Lined(w, Heads(w), p.out)
  \/ InKey(w, where, p)
  \/ st # <<>> /\ InMember(w, st, where, p)
  \/ st = <<>> /\ Alone(w, where, p)

(* A container has its line before it is read, another value its line      *)
(* buffer.                                                                 *)
FlushInv ==
  at \in {"value", "literal"} /\ stack # <<>> =>
    IF Top.flush THEN at = "value" => depth = Top.depth
                 ELSE at = "value" /\ Ready /\ Peek \in Openers

PageInv ==
  ~IsText /\ Slipped(seen) = 0 => page \in Pages /\ Drawn(Read, stack, at, page)

LEMMA KeyReadKept ==
  ASSUME NEW w \in Seq(Tokens), NEW t \in Tokens, NEW i, NEW L, KeyRead(w, i, L),
         Heads(Append(w, t)) = Heads(w), t # "colon" \/ Follows(w, i, Len(w) + 1)
  PROVE  /\ KeyRead(Append(w, t), i, L) /\ Level(Append(w, t), i) = Level(w, i)
         /\ i \in 1 .. Len(w)
  <1> DEFINE v == Append(w, t)
  <1>1. Len(w) \in Nat /\ Begun(w, v)
    BY AppendedIs
  <1>2. Heads(w) \subseteq 1 .. Len(w) /\ i \in 1 .. Len(w)
    BY HeadsNext DEF KeyRead
  <1>3. Level(v, i) = Level(w, i)
    <2>1. i \in 1 .. Len(w) + 1
      BY <1>1, <1>2
    <2> QED BY <1>1, <2>1, LevelKept
  <1>4. t # "colon" \/ \A h \in Heads(w) \ {i} : ~Follows(w, h, Len(w) + 1)
    <2>1. Len(w) + 1 \in Nat
      BY <1>1
    <2> QED BY <2>1, FollowsOne
  <1>5. Heads(w) \ {i} \in SUBSET (1 .. Len(w))
    BY <1>2
  <1>6. Lined(v, Heads(w) \ {i}, L)
    BY <1>4, <1>5, LinedKept DEF KeyRead
  <1> HIDE DEF v
  <1>7. KeyRead(v, i, L)
    BY <1>3, <1>6 DEF KeyRead, v
  <1> QED BY <1>2, <1>3, <1>7 DEF v

(* A value that begins completes the line of its member, but for what a    *)
(* container does not leave there.                                         *)
LEMMA ValueLine ==
  ASSUME NEW w \in Seq(Tokens), NEW t \in Openers \union Words, NEW close, NEW opens,
         NEW st \in Seq(Frames), WellRead(w, close, opens, st),
         Due(w, close, opens, st, "value"), st # <<>>,
         NEW L \in Seq(Seq(Glyphs)), NEW X \in Texts, Awaits(w, st, L, X)
  PROVE  /\ X \o Said(t) \in Seq(Glyphs)
         /\ Lined(Append(w, t), Heads(Append(w, t)), Append(L, X \o Said(t)))
  <1> DEFINE v == Append(w, t)
             n == Len(w) + 1
             l == X \o Said(t)
  <1>0. t \in Tokens /\ t \notin Closers \union {"blank", "colon"}
    BY DEF Tokens, Closers, Openers, Words
  <1>1. /\ Len(w) \in Nat /\ v[n] = t /\ Begun(w, v) /\ v \in Seq(Tokens)
        /\ DOMAIN w = 1 .. Len(w) /\ DOMAIN v = 1 .. n /\ Len(v) = n
        /\ \A k \in 1 .. Len(w) : v[k] = w[k]
    BY <1>0, AppendedIs
  <1>2. l \in Seq(Glyphs)
    <2>1. Said(t) \in Seq(Glyphs)
      <3>1. "blank" \in Glyphs /\ t \in Glyphs
        BY <1>0 DEF Glyphs, Tokens, Marks
      <3> HIDE DEF Glyphs
      <3> QED BY <3>1 DEF Said
    <2>2. X \in Seq(Glyphs)
      BY DEF Texts
    <2> QED BY <2>1, <2>2, ConcatProperties
  <1>3. Heads(w) \subseteq 1 .. Len(w)
    BY <1>0, HeadsNext
  <1>4. PICK h \in 1 .. Len(w) :
          /\ Follows(w, h, n)
          /\ \/ st[Len(st)].kind = "lbracket" /\ w[h] \in {"lbracket", "comma"}
             \/ st[Len(st)].kind = "lbrace" /\ w[h] = "colon"
    BY DEF Due
  <1>5. \A g : Follows(w, g, n) => g = h
    <2>1. n \in Nat
      BY <1>1
    <2> QED BY <1>4, <2>1, FollowsOne
  <1>6. n \in Filled(v) /\ n \in Nat
    BY <1>0, <1>1 DEF Filled
  <1>7. CASE st[Len(st)].kind = "lbracket"
    <2>1. Lined(w, Heads(w), L) /\ X = Margin(Len(st) - 1) \o <<"-">>
      BY <1>7 DEF Awaits
    <2>2. Heads(v) = Heads(w) \union {n}
      BY <1>0, <1>4, <1>7, HeadsNext DEF Openers
    <2>3. Lined(v, Heads(w), L)
      BY <1>0, <1>3, <2>1, LinedKept
    <2>4. Level(v, n) = Len(st)
      <3>1. Level(w, n) = Len(st)
        BY LevelNext DEF WellRead
      <3>2. n \in 1 .. Len(w) + 1
        BY <1>1
      <3> QED BY <1>1, <3>1, <3>2, LevelKept
    <2> HIDE DEF v, n
    <2>5. \A c \in Filled(v) : ~Follows(v, n, c)
      <3>1. \A c \in Filled(v) : c \in 1 .. n
        BY <1>1 DEF Filled
      <3> QED BY <1>6, <3>1 DEF Follows
    <2>6. IsLineOf(v, n, l)
      BY <1>1, <2>1, <2>4, <2>5 DEF IsLineOf
    <2>7. Heads(w) \in SUBSET Nat /\ \A i \in Heads(w) : i < n
      BY <1>1, <1>3 DEF n
    <2> HIDE DEF l
    <2>8. Lined(v, Heads(v), Append(L, l))
      BY <1>2, <1>6, <2>2, <2>3, <2>6, <2>7, LinedMore
    <2> QED BY <1>2, <2>8 DEF v, l
  <1>8. CASE st[Len(st)].kind = "lbrace"
    <2>1. PICK i : /\ KeyRead(w, i, L) /\ ColonRead(w, i)
                   /\ X = Margin(Level(w, i) - 1) \o <<"str", "colon">>
      BY <1>8 DEF Awaits
    <2>2. Heads(v) = Heads(w)
      BY <1>0, <1>4, <1>5, <1>8, HeadsNext DEF Openers
    <2>3. /\ KeyRead(v, i, L) /\ Level(v, i) = Level(w, i) /\ i \in 1 .. Len(w)
      BY <1>0, <2>1, <2>2, KeyReadKept
    <2>4. PICK c : Follows(w, i, c) /\ w[c] = "colon" /\ Follows(w, c, n)
      BY <2>1 DEF ColonRead
    <2>5. c = h
      BY <1>5, <2>4
    <2>6. Follows(v, i, c) /\ v[c] = "colon" /\ Follows(v, c, n) /\ c \in Filled(v)
      <3>1. c \in 1 .. n /\ n \in 1 .. n
        BY <1>1, <2>5
      <3>2. Follows(v, i, c) /\ Follows(v, c, n)
        BY <1>1, <2>4, <3>1, FollowsKept
      <3>3. v[c] = "colon" /\ c \in 1 .. n
        BY <1>1, <2>4, <2>5, <3>1
      <3> QED BY <1>1, <3>2, <3>3 DEF Filled
    <2> HIDE DEF v, n
    <2>7. IsLineOf(v, i, l)
      BY <1>1, <1>6, <2>1, <2>3, <2>6 DEF IsLineOf
    <2>8. /\ Heads(w) \ {i} \in SUBSET Nat /\ i \in Nat
          /\ \A g \in Heads(w) \ {i} : g < i
          /\ Heads(v) = (Heads(v) \ {i}) \union {i} /\ Heads(v) \ {i} = Heads(w) \ {i}
      BY <1>3, <2>2, <2>3 DEF KeyRead
    <2>9. Lined(v, Heads(v) \ {i}, L)
      BY <2>3 DEF KeyRead
    <2> HIDE DEF l
    <2>10. Lined(v, Heads(v), Append(L, l))
      <3>1. Lined(v, (Heads(v) \ {i}) \union {i}, Append(L, l))
        BY <1>2, <2>7, <2>8, <2>9, LinedMore
      <3> QED BY <2>8, <3>1, Zenon
    <2> QED BY <1>2, <2>10 DEF v, l
  <1> QED BY <1>4, <1>7, <1>8

(* Blanks change nothing.                                                  *)
LEMMA DrawnAfterBlank ==
  ASSUME NEW w \in Seq(Tokens), NEW st, NEW where, NEW p, Drawn(w, st, where, p), where # "ok"
  PROVE  Drawn(Append(w, "blank"), st, where, p)
  <1> DEFINE v == Append(w, "blank")
             n == Len(w) + 1
  <1>0. "blank" \in Tokens
    BY DEF Tokens, Marks
  <1>1. /\ Len(w) \in Nat /\ v[n] = "blank" /\ Begun(w, v) /\ v \in Seq(Tokens)
        /\ DOMAIN w = 1 .. Len(w) /\ DOMAIN v = 1 .. n /\ Len(v) = n
        /\ \A k \in 1 .. Len(w) : v[k] = w[k]
    BY <1>0, AppendedIs
  <1>2. Heads(v) = Heads(w) /\ Heads(w) \in SUBSET (1 .. Len(w))
    BY <1>0, HeadsNext
  <1>3. \A h : Follows(w, h, n) => Follows(v, h, Len(v) + 1)
    <2>1. Len(v) + 1 = Len(w) + 2
      BY <1>1
    <2> QED BY <1>0, <2>1, FollowsNext
  <1>4. ASSUME NEW L, Lined(w, Heads(w), L) PROVE Lined(v, Heads(v), L)
    BY <1>0, <1>2, <1>4, LinedKept
  <1>5. ASSUME NEW i, NEW L, KeyRead(w, i, L)
        PROVE  KeyRead(v, i, L) /\ Level(v, i) = Level(w, i)
    BY <1>0, <1>2, <1>5, KeyReadKept
  <1>6. ASSUME NEW i, ColonRead(w, i) PROVE ColonRead(v, i)
    <2>1. PICK c : Follows(w, i, c) /\ w[c] = "colon" /\ Follows(w, c, n)
      BY <1>6 DEF ColonRead
    <2>2. c \in 1 .. Len(w) /\ c \in 1 .. Len(w) + 1
      BY <1>1, <2>1 DEF Follows
    <2>3. Follows(v, i, c) /\ v[c] = "colon"
      BY <1>1, <2>1, <2>2, FollowsKept
    <2> QED BY <1>3, <2>1, <2>3 DEF ColonRead
  <1>7. /\ Openings(v) = Openings(w)
        /\ \A i \in Filled(w) : i \in Filled(v) /\ v[i] = w[i]
    BY <1>1 DEF Openings, Openers, Filled
  <1> HIDE DEF v, n
  <1>8. ASSUME NEW L, NEW X, Awaits(w, st, L, X) PROVE Awaits(v, st, L, X)
    BY <1>4, <1>5, <1>6, <1>8 DEF Awaits
  <1>9. st # <<>> /\ InMember(w, st, where, p) => InMember(v, st, where, p)
    BY <1>4, <1>8 DEF InMember
  <1>10. ASSUME InKey(w, where, p) PROVE InKey(v, where, p)
    <2>1. PICK i : /\ KeyRead(w, i, p.out) /\ p.line = Margin(Level(w, i) - 1) \o <<"str">>
                   /\ IF where = "colon" THEN Follows(w, i, n) ELSE ColonRead(w, i)
      BY <1>10 DEF InKey, n
    <2>2. KeyRead(v, i, p.out) /\ p.line = Margin(Level(v, i) - 1) \o <<"str">>
      BY <1>5, <2>1
    <2> QED BY <1>3, <1>6, <1>10, <2>1, <2>2 DEF InKey
  <1>11. Alone(w, where, p) => Alone(v, where, p)
    BY <1>7 DEF Alone
  <1>12. Drawn(v, st, where, p)
    BY <1>4, <1>7, <1>9, <1>10, <1>11 DEF Drawn
  <1> QED BY <1>12 DEF v

(* With nothing slipped, a container lies as deep as it is nested.         *)
LEMMA TopDepth ==
  ASSUME DepthInv, ErrorInv, ~IsText, Slipped(seen) = 0, stack # <<>>
  PROVE  Top.depth = Len(stack) - 1 /\ Top.depth \in Nat /\ Len(stack) \in Nat \ {0}
  <1>1. Len(stack) \in 1 .. Len(stack) /\ Top = stack[Len(stack)]
    BY FrontFacts, StackTop DEF DepthInv, ParserTypes
  <1>2. stack[Len(stack)].depth \in Nat /\ Len(stack) \in Nat
    BY <1>1, StackTypes DEF DepthInv
  <1>3. Len(stack) <= stack[Len(stack)].depth + 1 + Slipped(seen)
    BY <1>1 DEF DepthInv, OpenInv
  <1>4. stack[Len(stack)].depth < Len(stack)
    BY <1>1 DEF ErrorInv, DepthLow
  <1> QED BY <1>1, <1>2, <1>3, <1>4

(* A container that is opened has its line already.                        *)
LEMMA OpenHasLine ==
  ASSUME DepthInv, ErrorInv, FlushInv, Open, ~IsText, Slipped(seen) = 0, stack # <<>>
  PROVE  ~Top.flush
  <1>1. /\ Top.depth = Len(stack) - 1 /\ Len(stack) \in Nat
    BY TopDepth
  <1>2. at = "value" /\ Ready /\ Peek \in Openers
    BY DEF Open, Looks
  <1>3. ~AtEnd /\ pb # <<>>
    BY <1>2, ReadyFacts DEF Openers
  <1>4. Len(stack) <= depth + Slipped(seen)
    BY <1>2, <1>3 DEF DepthInv, ValueInv
  <1>5. depth \in Nat
    BY DEF DepthInv, ParserTypes
  <1>6. depth # Top.depth
    BY <1>1, <1>4, <1>5
  <1> QED BY <1>2, <1>6 DEF FlushInv

(* The head of the line of a member is complete.                           *)
LEMMA StartMemberDraws ==
  ASSUME NEW p \in Pages, NEW X \in Texts, p.line = X \o <<"blank">>, StartMember(p)
  PROVE  page' \in Pages /\ Headed(page', ~(Peek \in Openers), p.out, X)
  <1>1. page' = IF Peek \in Openers THEN FlushedPage(p) ELSE p
    BY DEF StartMember
  <1>2. /\ FlushedPage(p) \in Pages /\ FlushedPage(p).out = Append(p.out, X)
        /\ FlushedPage(p).line = <<>>
    BY FlushedIs, FlushedEmpty
  <1> QED BY <1>1, <1>2 DEF Headed

LEMMA FlushStep ==
  ASSUME DepthInv, FlushInv, [ParserNext]_parserVars PROVE FlushInv'
  <1> USE DEF DepthInv
  <1>1. CASE Fetch
    BY <1>1 DEF Fetch, FlushInv, Top, Ready
  <1>2. CASE SkipBlank
    BY <1>2 DEF SkipBlank, FlushInv, Top, Openers
  <1>3. CASE KeyValue \/ Element
    <2>1. PICK p : StartMember(p) /\ Ready /\ at \in {"keyvalue", "element"}
      BY <1>3 DEF KeyValue, Element, Looks
    <2> DEFINE k == Len(stack)
               top == [stack[k] EXCEPT !.flush = ~(Peek \in Openers)]
    <2>2. stack \in Seq(Frames) /\ stack # <<>> /\ k \in 1 .. k
      BY <2>1, FrontFacts DEF ParserTypes
    <2>3. stack[k] \in Frames
      BY <2>2
    <2>4. /\ top \in Frames /\ top.depth = stack[k].depth
          /\ top.flush = ~(Peek \in Openers)
      BY <2>3 DEF Frames
    <2>5. stack' = [stack EXCEPT ![k] = top]
      BY <2>1 DEF StartMember
    <2>6. /\ at' = "value" /\ (Ready' <=> Ready) /\ Peek' = Peek /\ Top = stack[k]
          /\ depth' = IF Peek \in Openers THEN stack[k].depth + 1 ELSE stack[k].depth
      BY <2>1 DEF StartMember, Keep, Ready, Peek, AtEnd, Top, Last
    <2> HIDE DEF top, k
    <2>7. Len(stack') = k /\ stack'[k] = top
      <3> HIDE DEF Frames
      <3>1. k = Len(stack)
        BY DEF k
      <3> QED BY <2>2, <2>4, <2>5, <3>1, ExceptSeq
    <2>8. Top' = top
      BY <2>7 DEF Top, Last
    <2> QED BY <2>1, <2>4, <2>6, <2>8 DEF FlushInv
  <1>4. CASE Literal
    BY <1>4 DEF Literal, Looks, FlushInv, Top, Openers
  <1>5. CASE UNCHANGED parserVars
    BY <1>5 DEF parserVars, FlushInv, Top, Ready, Peek, AtEnd
  <1>6. CASE Decode
    <2>1. IsText /\ stack = <<>>
      BY <1>6, DecodesText DEF StringInv
    <2>2. stack' = <<>>
      BY <1>6, <2>1 DEF Decode, OpenString, Text, CloseString, Escape, Unit, Pair, PairU, Low,
         BadString, Goes, ValueEnds, Fail, Units
    <2> QED BY <2>2 DEF FlushInv
  <1>7. CASE /\ Open \/ TooDeep \/ Scalar \/ LiteralEnds \/ NoValue \/ FirstMember \/ Close \/ Key
                \/ Colon \/ NoMember \/ Comma \/ NoComma \/ End \/ Trailing
    <2>1. at' \notin {"value", "literal"}
      BY <1>7 DEF Open, TooDeep, Scalar, LiteralEnds, NoValue, FirstMember, Close, Key, Colon,
         NoMember, Comma, NoComma, End, Trailing, Fail, ValueEnds, MemberStart
    <2> QED BY <2>1 DEF FlushInv
  <1> QED BY <1>1, <1>2, <1>3, <1>4, <1>5, <1>6, <1>7 DEF ParserNext, Parse, Stopped

LEMMA Glued ==
  ASSUME NEW X \in Seq(Glyphs), NEW a \in Glyphs, NEW b \in Glyphs
  PROVE  /\ (X \o <<a>>) \o <<b>> = X \o <<a, b>>
         /\ \A c \in Glyphs : (X \o <<a>>) \o <<b, c>> = (X \o <<a, b>>) \o <<c>>
  <1> HIDE DEF Glyphs
  <1>1. ASSUME NEW d \in Glyphs, NEW e \in Glyphs PROVE <<d>> \o <<e>> = <<d, e>>
    <2>1. /\ Len(<<d>> \o <<e>>) = 2 /\ (<<d>> \o <<e>>)[1] = d /\ (<<d>> \o <<e>>)[2] = e
          /\ <<d>> \o <<e>> \in Seq(Glyphs) /\ <<d, e>> \in Seq(Glyphs)
      BY ConcatProperties
    <2>2. \A i \in 1 .. 2 : (<<d>> \o <<e>>)[i] = <<d, e>>[i]
      BY <2>1
    <2> QED BY <2>1, <2>2, SeqEqual
  <1>2. ASSUME NEW d \in Glyphs, NEW e \in Glyphs PROVE (X \o <<d>>) \o <<e>> = X \o <<d, e>>
    <2> DEFINE D == <<d>>
               E == <<e>>
    <2>1. D \in Seq(Glyphs) /\ E \in Seq(Glyphs)
      OBVIOUS
    <2>2. D \o E = <<d, e>>
      BY <1>1
    <2> HIDE DEF D, E
    <2>3. (X \o D) \o E = X \o (D \o E)
      BY <2>1, ConcatAssociative
    <2>4. (X \o D) \o E = X \o <<d, e>>
      BY <2>2, <2>3, Zenon
    <2> QED BY <2>4 DEF D, E
  <1>3. ASSUME NEW c \in Glyphs
        PROVE  (X \o <<a>>) \o <<b, c>> = (X \o <<a, b>>) \o <<c>>
    <2>1. /\ <<a>> \in Seq(Glyphs) /\ <<b>> \in Seq(Glyphs) /\ <<c>> \in Seq(Glyphs)
          /\ X \o <<a>> \in Seq(Glyphs)
      BY ConcatProperties
    <2>2. (X \o <<a>>) \o <<b, c>> = (X \o <<a>>) \o (<<b>> \o <<c>>)
      BY <1>1
    <2>3. @ = ((X \o <<a>>) \o <<b>>) \o <<c>>
      BY <2>1, ConcatAssociative
    <2>4. @ = (X \o <<a, b>>) \o <<c>>
      BY <1>2
    <2> QED BY <2>2, <2>3, <2>4
  <1> QED BY <1>2, <1>3

(* A plain value ends the line of its member.                              *)
LEMMA ValueFlushed ==
  ASSUME NEW p \in Pages, NEW X \in Texts, NEW t \in Words, p.line = X \o <<"blank">>
  PROVE  LET q == FlushedPage(Written(p, <<t>>))
         IN  q \in Pages /\ q.line = <<>> /\ q.out = Append(p.out, X \o <<"blank", t>>)
  <1> DEFINE r == Written(p, <<t>>)
             l == X \o <<"blank", t>>
  <1>1. "blank" \in Glyphs /\ t \in Glyphs /\ t # "blank" /\ X \in Seq(Glyphs)
    BY DEF Glyphs, Tokens, Marks, Words, Texts
  <1>2. <<t>> \in Seq(Glyphs) /\ <<"blank", t>> \in Texts
    <2>1. /\ <<t>> \in Seq(Glyphs) /\ <<"blank", t>> \in Seq(Glyphs)
          /\ <<"blank", t>>[Len(<<"blank", t>>)] = t /\ <<"blank", t>> # <<>>
      <3> HIDE DEF Glyphs
      <3> QED BY <1>1
    <2> QED BY <1>1, <2>1 DEF Texts
  <1>3. r \in Pages /\ r.line = p.line \o <<t>> /\ r.out = p.out
    BY <1>2, WrittenIs
  <1>4. r.line = l /\ l \in Texts
    <2>1. (X \o <<"blank">>) \o <<t>> = l
      BY <1>1, Glued
    <2>2. l \in Texts
      BY <1>1, <1>2, TextEnds
    <2> QED BY <1>3, <2>1, <2>2
  <1> HIDE DEF r, l
  <1>5. FlushedPage(r) \in Pages /\ FlushedPage(r).out = Append(r.out, l)
    BY <1>3, <1>4, FlushedIs
  <1>6. FlushedPage(r).line = <<>>
    BY <1>3, FlushedEmpty
  <1> QED BY <1>3, <1>5, <1>6 DEF r, l

(* The head of a line.                                                     *)
LEMMA HeadWritten ==
  ASSUME NEW p \in Pages, p.line = <<>>, NEW d \in Nat, NEW s \in Seq(Glyphs)
  PROVE  LET q == Written(Indented(p, d), s)
         IN  q \in Pages /\ q.line = Margin(d) \o s /\ q.out = p.out
  <1> DEFINE r == Indented(p, d)
  <1>1. Margin(d) \in Seq(Glyphs)
    BY TextIs
  <1>2. r = Written(p, Margin(d))
    BY DEF Indented
  <1>3. r \in Pages /\ r.line = Margin(d) /\ r.out = p.out
    <2>1. r \in Pages /\ r.line = <<>> \o Margin(d) /\ r.out = p.out
      BY <1>1, <1>2, WrittenIs
    <2> QED BY <1>1, <2>1, ConcatEmptySeq
  <1> HIDE DEF r
  <1> QED BY <1>3, WrittenIs DEF r

(* What stands before a value is no blank.                                 *)
LEMMA HeadsAreTexts ==
  ASSUME NEW d \in Nat
  PROVE  /\ Margin(d) \in Seq(Glyphs)
         /\ Margin(d) \o <<"-">> \in Texts /\ Margin(d) \o <<"str", "colon">> \in Texts
         /\ Margin(d) \o <<"-", "blank">> = (Margin(d) \o <<"-">>) \o <<"blank">>
         /\ (Margin(d) \o <<"str">>) \o <<"colon", "blank">>
              = (Margin(d) \o <<"str", "colon">>) \o <<"blank">>
  <1>1. {"-", "str", "colon", "blank"} \subseteq Glyphs
    BY DEF Glyphs, Tokens, Words, Marks
  <1>2. <<"-">> \in Texts /\ <<"str", "colon">> \in Texts
    <2>1. <<"-">> \in Seq(Glyphs) /\ <<"str", "colon">> \in Seq(Glyphs)
      <3> HIDE DEF Glyphs
      <3> QED BY <1>1
    <2> QED BY <2>1 DEF Texts
  <1>3. Margin(d) \in Seq(Glyphs)
    BY TextIs
  <1> HIDE DEF Glyphs
  <1> QED BY <1>1, <1>2, <1>3, TextEnds, Glued

(* The innermost call remembers whether its line is still to be flushed.   *)
LEMMA MemberStack ==
  ASSUME DepthInv, stack # <<>>, NEW p, StartMember(p)
  PROVE  /\ stack' # <<>> /\ Len(stack') = Len(stack)
         /\ stack'[Len(stack')].kind = stack[Len(stack)].kind
         /\ stack'[Len(stack')].flush = ~(Peek \in Openers)
  <1> DEFINE k == Len(stack)
             top == [stack[k] EXCEPT !.flush = ~(Peek \in Openers)]
  <1>1. stack \in Seq(Frames) /\ k \in 1 .. k
    BY FrontFacts DEF DepthInv, ParserTypes
  <1>2. stack[k] \in Frames
    BY <1>1
  <1>3. /\ top \in Frames /\ top.kind = stack[k].kind /\ top.flush = ~(Peek \in Openers)
    BY <1>2 DEF Frames
  <1>4. stack' = [stack EXCEPT ![k] = top]
    BY DEF StartMember
  <1>5. k = Len(stack)
    OBVIOUS
  <1> HIDE DEF top, k
  <1>6. Len(stack') = k /\ stack'[k] = top /\ stack' \in Seq(Frames)
    <2> HIDE DEF Frames
    <2> QED BY <1>1, <1>3, <1>4, <1>5, ExceptSeq
  <1>7. stack' # <<>>
    <2>1. Len(stack') # 0
      BY <1>1, <1>6
    <2> QED BY <2>1
  <1> QED BY <1>3, <1>5, <1>6, <1>7

(* The document begins with a container.                                   *)
LEMMA NothingBefore ==
  ASSUME NEW w \in Seq(Tokens), NEW t \in Tokens, Filled(w) = {}
  PROVE  /\ Heads(Append(w, t)) = {} /\ Lined(Append(w, t), {}, <<>>)
         /\ \A i \in 1 .. Len(w) : w[i] = "blank"
  <1>1. DOMAIN w = 1 .. Len(w) /\ Len(w) \in Nat
    BY AppendedIs
  <1>2. Heads(w) = {} /\ \A i \in 1 .. Len(w) : w[i] = "blank"
    BY <1>1 DEF Heads, Filled
  <1>3. \A h : ~Follows(w, h, Len(w) + 1)
    BY <1>1, <1>2 DEF Follows
  <1>4. Heads(Append(w, t)) = {}
    BY <1>2, <1>3, HeadsNext
  <1>5. Lined(Append(w, t), {}, <<>>)
    <2> DEFINE none == [k \in {} |-> 1]
    <2>1. none \in [{} -> {}] /\ DOMAIN <<>> = {}
      OBVIOUS
    <2> HIDE DEF none
    <2> QED BY <2>1 DEF Lined
  <1> QED BY <1>2, <1>4, <1>5

LEMMA ParseKeepsPage ==
  ASSUME DepthInv, GrammarInv, ErrorInv, FlushInv, PageInv, Parse, ~IsText PROVE PageInv'
  <1> USE DEF DepthInv
  <1>1. Ready /\ seen' = seen
    BY DEF Parse, SkipBlank, Open, TooDeep, Scalar, Literal, LiteralEnds, NoValue, FirstMember,
           Close, Key, Colon, NoMember, KeyValue, Element, Comma, NoComma, End, Trailing, Looks,
           Fail, ValueEnds, StartMember
  <1> SUFFICES ASSUME Slipped(seen) = 0 PROVE PageInv'
    BY <1>1 DEF PageInv
  <1> DEFINE w == Read
             v == Append(w, Peek)
             n == Len(w) + 1
  <1>2. PICK close, opens : WellRead(w, close, opens, stack) /\ Due(w, close, opens, stack, at)
    BY DEF GrammarInv
  <1>3. page \in Pages /\ Drawn(w, stack, at, page)
    BY DEF PageInv
  <1>4. /\ w \in Seq(Tokens) /\ Peek \in Tokens
        /\ Keep => Read' = w
        /\ Take /\ Peek # "EOF" => Read' = v
    BY <1>1, ReadSteps
  <1>5. stack \in Seq(Frames)
    BY DEF ParserTypes
  <1>6. stack # <<>> => /\ Top = stack[Len(stack)] /\ Top.kind \in Openers
                        /\ Top.depth = Len(stack) - 1 /\ Top.depth \in Nat
                        /\ Len(stack) \in Nat \ {0}
    BY StackTop, TopDepth
  <1>7. /\ Len(w) \in Nat /\ n \in Nat /\ v \in Seq(Tokens) /\ Begun(w, v) /\ Len(v) = n
        /\ v[n] = Peek /\ DOMAIN w = 1 .. Len(w) /\ DOMAIN v = 1 .. n
        /\ \A k \in 1 .. Len(w) : v[k] = w[k]
    BY <1>4, AppendedIs
  <1>8. Heads(w) \in SUBSET (1 .. Len(w))
    BY <1>4, HeadsNext
  <1>9. \A g, h : Follows(w, g, n) /\ Follows(w, h, n) => g = h
    BY <1>4, <1>7, FollowsOne
  <1>10. Peek # "blank" => Follows(v, n, Len(v) + 1)
    BY <1>4, <1>7, LastFollows DEF v
  (* After a value nothing begins.                                         *)
  <1>11. ASSUME NEW h \in 1 .. Len(w), Follows(w, h, n),
                EndsValue(w, close, h) \/ w[h] \in {"str", "colon"}
         PROVE  Heads(v) = Heads(w)
    <2>1. w[h] \notin Openers \union {"comma"}
      BY <1>11 DEF EndsValue, Openers, Closers, Words
    <2> QED BY <1>4, <1>9, <1>11, <2>1, HeadsNext DEF v
  <1>12. ASSUME Heads(v) = Heads(w), Peek # "colon", Lined(w, Heads(w), page.out)
         PROVE  Lined(v, Heads(v), page.out)
    BY <1>4, <1>8, <1>12, LinedKept DEF v
  <1> HIDE DEF w, v, n
  <1>13. ASSUME NEW r, Read' = r, page' \in Pages, Drawn(r, stack', at', page') PROVE PageInv'
    BY <1>13 DEF PageInv
  <1>14. ASSUME Fail PROVE PageInv'
    BY <1>3, <1>4, <1>13, <1>14 DEF Fail, Drawn
  <1>15. CASE SkipBlank
    <2>1. Peek = "blank" /\ Take /\ UNCHANGED <<at, stack, page>> /\ at # "ok"
      BY <1>15 DEF SkipBlank
    <2>2. Drawn(v, stack, at, page)
      BY <1>3, <1>4, <2>1, DrawnAfterBlank DEF v
    <2> QED BY <1>3, <1>4, <1>13, <2>1, <2>2
  <1>16. ASSUME at = "value", Peek \in Openers \union Words, stack # <<>>
         PROVE  \E L \in Seq(Seq(Glyphs)), X \in Texts :
                  /\ Headed(page, Top.flush, L, X)
                  /\ Lined(v, Heads(v), Append(L, X \o Said(Peek)))
    <2>1. PICK L \in Seq(Seq(Glyphs)), X \in Texts :
                  Awaits(w, stack, L, X) /\ Headed(page, Top.flush, L, X)
      BY <1>3, <1>6, <1>16 DEF Drawn, InKey, InMember
    <2>2. Lined(v, Heads(v), Append(L, X \o Said(Peek)))
      BY <1>2, <1>4, <1>5, <1>16, <2>1, ValueLine DEF v
    <2> QED BY <2>1, <2>2
  <1>17. ASSUME at \in {"value", "literal"}, stack = <<>> PROVE Alone(w, at, page)
    BY <1>3, <1>17 DEF Drawn, InKey
  <1>18. ASSUME at = "value", stack = <<>> PROVE Filled(w) = {}
    BY <1>2, <1>18 DEF Due
  <1>19. ASSUME stack = <<>>, Peek \in Words
         PROVE  Openings(v) = Openings(w) /\ n \in Filled(v) /\ v[n] = Peek
    <2>1. Peek # "blank" /\ Peek \notin Openers
      BY <1>19 DEF Words, Openers
    <2> QED BY <1>7, <2>1 DEF Openings, Filled, n
  <1>20. CASE Open
    <2> DEFINE frame == [kind |-> Peek, depth |-> depth, flush |-> FALSE]
    <2>1. /\ at = "value" /\ at' = "first" /\ Take /\ Peek \in Openers /\ page' = page
      BY <1>20 DEF Open, Looks
    <2>2. Peek # "EOF"
      BY <2>1 DEF Openers
    <2>3. CASE stack = <<>>
      <3>1. page.line = <<>> /\ page.out = <<>>
        BY <1>17, <2>1, <2>3 DEF Alone
      <3>2. Lined(v, Heads(v), page.out)
        BY <1>4, <1>18, <2>1, <2>3, <3>1, NothingBefore DEF v
      <3> QED BY <1>3, <1>4, <1>13, <2>1, <2>2, <3>1, <3>2 DEF Drawn
    <2>4. CASE stack # <<>>
      <3>1. ~Top.flush
        BY <1>20, <2>4, OpenHasLine
      <3>2. PICK L \in Seq(Seq(Glyphs)), X \in Texts :
                  /\ Headed(page, Top.flush, L, X)
                  /\ Lined(v, Heads(v), Append(L, X \o Said(Peek)))
        BY <1>16, <2>1, <2>4
      <3>3. X \o Said(Peek) = X
        <4>1. Said(Peek) = <<>>
          BY <2>1 DEF Said, Openers, Words
        <4>2. X \in Seq(Glyphs)
          BY DEF Texts
        <4> QED BY <4>1, <4>2, ConcatEmptySeq
      <3>4. page.line = <<>> /\ Lined(v, Heads(v), page.out)
        BY <3>1, <3>2, <3>3 DEF Headed
      <3> QED BY <1>3, <1>4, <1>13, <2>1, <2>2, <3>4 DEF Drawn
    <2> QED BY <2>3, <2>4
  <1>21. CASE TooDeep \/ NoValue \/ NoMember \/ NoComma \/ Trailing
    BY <1>14, <1>21 DEF TooDeep, NoValue, NoMember, NoComma, Trailing
  <1>22. CASE Scalar
    <2>1. at = "value" /\ Peek \in Words /\ Take /\ ValueEnds(stack, Written(page, <<Peek>>))
      BY <1>22 DEF Scalar, Looks, Words
    <2>2. Peek # "EOF" /\ Peek \notin Openers
      BY <2>1 DEF Words, Openers
    <2>3. CASE stack = <<>>
      <3>1. page.line = <<>> /\ page.out = <<>> /\ Openings(w) = {}
        BY <1>17, <2>1, <2>3 DEF Alone
      <3>2. page' = Written(page, <<Peek>>) /\ at' = "end" /\ stack' = <<>>
        BY <2>1, <2>3 DEF ValueEnds
      <3>3. page' \in Pages /\ page'.out = <<>> /\ page'.line = <<Peek>>
        <4>1. <<Peek>> \in Seq(Glyphs)
          BY <1>4 DEF Glyphs
        <4>2. page' \in Pages /\ page'.out = <<>> /\ page'.line = <<>> \o <<Peek>>
          BY <1>3, <3>1, <3>2, <4>1, WrittenIs
        <4> QED BY <4>1, <4>2, ConcatEmptySeq
      <3>4. Alone(v, "end", page')
        BY <1>19, <2>1, <2>3, <3>1, <3>3 DEF Alone
      <3> QED BY <1>4, <1>13, <2>1, <2>2, <3>2, <3>3, <3>4 DEF Drawn
    <2>4. CASE stack # <<>>
      <3>1. Top.flush
        BY <2>1, <2>2, <2>4 DEF FlushInv
      <3>2. PICK L \in Seq(Seq(Glyphs)), X \in Texts :
                  /\ Headed(page, Top.flush, L, X)
                  /\ Lined(v, Heads(v), Append(L, X \o Said(Peek)))
        BY <1>16, <2>1, <2>4
      <3>3. page.out = L /\ page.line = X \o <<"blank">> /\ Said(Peek) = <<"blank", Peek>>
        BY <2>1, <3>1, <3>2 DEF Headed, Said
      <3>4. page' = FlushedPage(Written(page, <<Peek>>)) /\ at' = "next"
        BY <2>1, <2>4, <3>1 DEF ValueEnds, Top
      <3>5. page' \in Pages /\ page'.line = <<>> /\ page'.out = Append(L, X \o <<"blank", Peek>>)
        BY <1>3, <2>1, <3>3, <3>4, ValueFlushed
      <3>6. Lined(v, Heads(v), page'.out)
        BY <3>2, <3>3, <3>5
      <3> QED BY <1>4, <1>13, <2>1, <2>2, <3>4, <3>5, <3>6 DEF Drawn
    <2> QED BY <2>3, <2>4
  <1>23. CASE Literal
    <2>1. /\ at = "value" /\ Peek = "true" /\ Take /\ at' = "literal"
          /\ UNCHANGED <<stack, page>>
      BY <1>23 DEF Literal, Looks
    <2>2. Peek # "EOF" /\ Peek \notin Openers /\ Peek \in Words
      BY <2>1 DEF Words, Openers
    <2>3. CASE stack = <<>>
      <3>1. Alone(v, "literal", page)
        BY <1>17, <1>19, <2>1, <2>2, <2>3 DEF Alone
      <3> QED BY <1>3, <1>4, <1>13, <2>1, <2>2, <2>3, <3>1 DEF Drawn
    <2>4. CASE stack # <<>>
      <3>1. Top.flush
        BY <2>1, <2>2, <2>4 DEF FlushInv
      <3>2. PICK L \in Seq(Seq(Glyphs)), X \in Texts :
                  /\ Headed(page, Top.flush, L, X)
                  /\ Lined(v, Heads(v), Append(L, X \o Said(Peek)))
        BY <1>16, <2>1, <2>2, <2>4
      <3>3. page.out = L /\ page.line = X \o <<"blank">> /\ Said(Peek) = <<"blank", "true">>
        BY <2>1, <2>2, <3>1, <3>2 DEF Headed, Said
      <3>4. InMember(v, stack, "literal", page)
        BY <1>6, <2>4, <3>1, <3>2, <3>3 DEF InMember
      <3> QED BY <1>3, <1>4, <1>13, <2>1, <2>2, <2>4, <3>4 DEF Drawn
    <2> QED BY <2>3, <2>4
  <1>24. CASE LiteralEnds
    <2>1. CASE Fail
      BY <1>14, <2>1
    <2>2. CASE ~Fail
      <3>1. at = "literal" /\ Keep /\ ValueEnds(stack, Written(page, <<"true">>))
        BY <1>24, <2>2 DEF LiteralEnds, Looks
      <3>2. CASE stack = <<>>
        <4>1. /\ page.line = <<>> /\ page.out = <<>> /\ Openings(w) = {}
              /\ \E i \in Filled(w) : w[i] = "true"
          BY <1>17, <3>1, <3>2 DEF Alone
        <4>2. page' = Written(page, <<"true">>) /\ at' = "end" /\ stack' = <<>>
          BY <3>1, <3>2 DEF ValueEnds
        <4>3. page' \in Pages /\ page'.out = <<>> /\ page'.line = <<"true">>
          <5>1. <<"true">> \in Seq(Glyphs)
            BY DEF Glyphs, Tokens, Words
          <5>2. page' \in Pages /\ page'.out = <<>> /\ page'.line = <<>> \o <<"true">>
            BY <1>3, <4>1, <4>2, <5>1, WrittenIs
          <5> QED BY <5>1, <5>2, ConcatEmptySeq
        <4>4. Alone(w, "end", page')
          BY <4>1, <4>3 DEF Alone
        <4> QED BY <1>4, <1>13, <3>1, <4>2, <4>3, <4>4 DEF Drawn
      <3>3. CASE stack # <<>>
        <4>1. Top.flush /\ InMember(w, stack, "literal", page)
          BY <1>3, <1>6, <3>1, <3>3 DEF Drawn, InKey, InMember
        <4>2. PICK X \in Texts :
                /\ page.line = X \o <<"blank">>
                /\ Lined(w, Heads(w), Append(page.out, X \o <<"blank", "true">>))
          BY <4>1 DEF InMember
        <4>3. page' = FlushedPage(Written(page, <<"true">>)) /\ at' = "next"
          BY <3>1, <3>3, <4>1 DEF ValueEnds, Top
        <4>4. /\ page' \in Pages /\ page'.line = <<>>
              /\ page'.out = Append(page.out, X \o <<"blank", "true">>)
          BY <1>3, <4>2, <4>3, ValueFlushed DEF Words
        <4> QED BY <1>4, <1>13, <3>1, <4>2, <4>3, <4>4 DEF Drawn
      <3> QED BY <3>2, <3>3
    <2> QED BY <2>1, <2>2
  <1>25. ASSUME at \in {"first", "next", "key", "element"}
         PROVE  page.line = <<>> /\ Lined(w, Heads(w), page.out)
    BY <1>3, <1>25 DEF Drawn, InKey, InMember, Alone
  <1>26. CASE FirstMember
    <2>1. at = "first" /\ Keep /\ at' \in {"key", "element"} /\ page' = page
      BY <1>26 DEF FirstMember, Looks, MemberStart
    <2> QED BY <1>3, <1>4, <1>13, <1>25, <2>1 DEF Drawn
  <1>27. CASE Close
    <2>1. /\ at \in {"first", "next"} /\ Take /\ stack # <<>> /\ at' \in {"next", "end"}
          /\ Peek = Closer(stack[Len(stack)].kind) /\ ValueEnds(Front(stack), page)
      BY <1>6, <1>27 DEF Close, ParserTypes, ValueEnds
    <2>2. Peek \in Closers /\ Peek \notin {"EOF", "colon"}
      BY <2>1 DEF Closer, Closers
    <2>3. page.line = <<>> /\ Lined(w, Heads(w), page.out)
      BY <1>25, <2>1
    <2>4. page' = page
      BY <1>3, <2>1, <2>3, FlushedEmpty DEF ValueEnds
    <2>5. Heads(v) = Heads(w)
      BY <1>4, <2>2, HeadsNext DEF v
    <2>6. Openings(v) # {}
      <3>1. opens[Len(stack)] \in 1 .. Len(w) /\ w[opens[Len(stack)]] \in Openers
        <4>1. Len(stack) \in 1 .. Len(stack)
          BY <1>6, <2>1
        <4> QED BY <1>2, <1>6, <2>1, <4>1 DEF WellRead
      <3> DEFINE j == opens[Len(stack)]
      <3>2. j \in DOMAIN v /\ v[j] \in Openers
        <4> HIDE DEF j
        <4>1. j \in 1 .. Len(w) /\ w[j] \in Openers
          BY <3>1 DEF j
        <4> QED BY <1>7, <4>1 DEF n
      <3> QED BY <3>2 DEF Openings
    <2>7. Lined(v, Heads(v), page.out)
      BY <1>12, <2>2, <2>3, <2>5
    <2> QED BY <1>3, <1>4, <1>13, <2>1, <2>2, <2>3, <2>4, <2>6, <2>7 DEF Drawn
  <1>28. CASE Key
    <2> DEFINE M == Margin(Top.depth)
    <2>1. /\ at = "key" /\ Peek = "str" /\ Take /\ at' = "colon"
          /\ page' = Written(Indented(page, Top.depth), <<"str">>)
      BY <1>28 DEF Key, Looks
    <2>2. PICK h \in 1 .. Len(w) : /\ Follows(w, h, n) /\ w[h] \in {"lbrace", "comma"}
                                   /\ stack # <<>>
      BY <1>2, <2>1 DEF Due, n
    <2>3. page.line = <<>> /\ Lined(w, Heads(w), page.out)
      BY <1>25, <2>1
    <2>4. page' \in Pages /\ page'.line = M \o <<"str">> /\ page'.out = page.out
      <3>1. <<"str">> \in Seq(Glyphs)
        BY DEF Glyphs, Tokens, Words
      <3> QED BY <1>3, <1>6, <2>1, <2>2, <2>3, <3>1, HeadWritten
    <2>5. Heads(v) = Heads(w) \union {n}
      <3>1. Peek \notin Closers \union {"blank"} /\ w[h] \in Openers \union {"comma"}
        BY <2>1, <2>2 DEF Closers, Openers
      <3> QED BY <1>4, <2>2, <3>1, HeadsNext DEF v, n
    <2>6. Level(v, n) = Len(stack)
      <3>1. Level(w, n) = Len(stack)
        BY <1>2, <1>4, <1>5, LevelNext DEF WellRead, n
      <3>2. n \in 1 .. Len(w) + 1
        BY <1>7 DEF n
      <3> QED BY <1>4, <1>7, <3>1, <3>2, LevelKept
    <2>7. KeyRead(v, n, page.out)
      <3>1. /\ Heads(v) \ {n} = Heads(w) /\ n \in Heads(v) /\ \A i \in Heads(v) : i <= n
        BY <1>7, <1>8, <2>5 DEF n
      <3>2. Lined(v, Heads(w), page.out)
        BY <1>4, <1>8, <2>1, <2>3, LinedKept DEF v
      <3> QED BY <1>6, <2>2, <2>6, <3>1, <3>2 DEF KeyRead
    <2>8. M = Margin(Level(v, n) - 1)
      BY <1>6, <2>2, <2>6
    <2>9. InKey(v, "colon", page')
      BY <1>10, <2>1, <2>4, <2>7, <2>8 DEF InKey
    <2> QED BY <1>4, <1>13, <2>1, <2>4, <2>9 DEF Drawn
  <1>29. CASE Colon
    <2>1. at = "colon" /\ Peek = "colon" /\ Take /\ at' = "keyvalue" /\ page' = page
      BY <1>29 DEF Colon, Looks
    <2>2. PICK i : /\ KeyRead(w, i, page.out) /\ page.line = Margin(Level(w, i) - 1) \o <<"str">>
                   /\ Follows(w, i, n)
      BY <1>3, <2>1 DEF Drawn, InKey, InMember, Alone, n
    <2>3. PICK h \in 1 .. Len(w) : Follows(w, h, n) /\ w[h] = "str"
      BY <1>2, <2>1 DEF Due, IsKey, n
    <2>4. Heads(v) = Heads(w)
      BY <1>11, <2>3
    <2>5. KeyRead(v, i, page.out) /\ Level(v, i) = Level(w, i) /\ i \in 1 .. Len(w)
      BY <1>4, <2>2, <2>4, KeyReadKept DEF v, n
    <2>6. ColonRead(v, i)
      <3>1. n \in 1 .. Len(w) + 1
        BY <1>7 DEF n
      <3>2. Follows(v, i, n)
        BY <1>4, <1>7, <2>2, <3>1, FollowsKept
      <3> QED BY <1>7, <1>10, <2>1, <3>2 DEF ColonRead
    <2>7. InKey(v, "keyvalue", page)
      BY <2>2, <2>5, <2>6 DEF InKey
    <2> QED BY <1>3, <1>4, <1>13, <2>1, <2>7 DEF Drawn
  (* The value of a member is due.                                         *)
  <1>30. ASSUME NEW p \in Pages, StartMember(p), stack # <<>>, NEW X \in Texts,
                p.line = X \o <<"blank">>,
                \A st : Len(st) = Len(stack) /\ st[Len(st)].kind = stack[Len(stack)].kind
                        => Awaits(w, st, p.out, X)
         PROVE  PageInv'
    <2>1. page' \in Pages /\ Headed(page', ~(Peek \in Openers), p.out, X)
      BY <1>30, StartMemberDraws
    <2>2. /\ stack' # <<>> /\ Len(stack') = Len(stack)
          /\ stack'[Len(stack')].kind = stack[Len(stack)].kind
          /\ stack'[Len(stack')].flush = ~(Peek \in Openers)
      BY <1>30, MemberStack
    <2>3. at' = "value" /\ Keep
      BY <1>30 DEF StartMember
    <2>4. Awaits(w, stack', p.out, X) /\ p.out \in Seq(Seq(Glyphs))
      BY <1>30, <2>2 DEF Pages
    <2>5. Headed(page', stack'[Len(stack')].flush, p.out, X)
      BY <2>1, <2>2
    <2>6. InMember(w, stack', "value", page')
      BY <2>4, <2>5 DEF InMember
    <2> QED BY <1>4, <1>13, <2>1, <2>2, <2>3, <2>6 DEF Drawn
  <1>31. CASE KeyValue
    <2> DEFINE p == Written(page, <<"colon", "blank">>)
    <2>1. at = "keyvalue" /\ StartMember(p)
      BY <1>31 DEF KeyValue, Looks
    <2>2. PICK i : /\ KeyRead(w, i, page.out) /\ page.line = Margin(Level(w, i) - 1) \o <<"str">>
                   /\ ColonRead(w, i)
      BY <1>3, <2>1 DEF Drawn, InKey, InMember, Alone
    <2>3. stack # <<>> /\ stack[Len(stack)].kind = "lbrace"
      BY <1>2, <2>1 DEF Due
    <2> DEFINE X == Margin(Level(w, i) - 1) \o <<"str", "colon">>
    <2>4. X \in Texts /\ page.line \o <<"colon", "blank">> = X \o <<"blank">>
      <3>1. Level(w, i) - 1 \in Nat
        BY <2>2 DEF KeyRead
      <3> QED BY <2>2, <3>1, HeadsAreTexts
    <2>5. p \in Pages /\ p.line = X \o <<"blank">> /\ p.out = page.out
      <3>1. <<"colon", "blank">> \in Seq(Glyphs)
        BY DEF Glyphs, Tokens, Marks
      <3> QED BY <1>3, <2>4, <3>1, WrittenIs
    <2> HIDE DEF p
    <2>6. \A st : Len(st) = Len(stack) /\ st[Len(st)].kind = stack[Len(stack)].kind
                  => Awaits(w, st, p.out, X)
      <3> TAKE st
      <3> HAVE Len(st) = Len(stack) /\ st[Len(st)].kind = stack[Len(stack)].kind
      <3>1. KeyRead(w, i, p.out) /\ ColonRead(w, i)
        BY <2>2, <2>5
      <3>2. st[Len(st)].kind = "lbrace"
        BY <2>3
      <3> QED BY <3>1, <3>2 DEF Awaits
    <2> HIDE DEF X
    <2> QED BY <1>30, <2>1, <2>3, <2>4, <2>5, <2>6
  <1>32. CASE Element
    <2> DEFINE p == Written(Indented(page, Top.depth), <<"-", "blank">>)
               X == Margin(Top.depth) \o <<"-">>
    <2>1. at = "element" /\ StartMember(p)
      BY <1>32 DEF Element, Looks
    <2>2. page.line = <<>> /\ Lined(w, Heads(w), page.out)
      BY <1>25, <2>1
    <2>3. stack # <<>> /\ stack[Len(stack)].kind = "lbracket"
      BY <1>2, <2>1 DEF Due
    <2>4. X \in Texts /\ Margin(Top.depth) \o <<"-", "blank">> = X \o <<"blank">>
      BY <1>6, <2>3, HeadsAreTexts
    <2>5. p \in Pages /\ p.line = X \o <<"blank">> /\ p.out = page.out
      <3>1. <<"-", "blank">> \in Seq(Glyphs)
        BY DEF Glyphs, Tokens, Marks
      <3> QED BY <1>3, <1>6, <2>2, <2>3, <2>4, <3>1, HeadWritten
    <2> HIDE DEF p
    <2>6. \A st : Len(st) = Len(stack) /\ st[Len(st)].kind = stack[Len(stack)].kind
                  => Awaits(w, st, p.out, X)
      <3> TAKE st
      <3> HAVE Len(st) = Len(stack) /\ st[Len(st)].kind = stack[Len(stack)].kind
      <3>1. Lined(w, Heads(w), p.out)
        BY <2>2, <2>5
      <3>2. st[Len(st)].kind = "lbracket"
        BY <2>3
      <3>3. X = Margin(Len(st) - 1) \o <<"-">>
        BY <1>6, <2>3
      <3> QED BY <3>1, <3>2, <3>3 DEF Awaits
    <2> HIDE DEF X
    <2> QED BY <1>30, <2>1, <2>3, <2>4, <2>5, <2>6
  <1>33. CASE Comma
    <2>1. at = "next" /\ Peek = "comma" /\ Take /\ at' \in {"key", "element"} /\ page' = page
      BY <1>33 DEF Comma, Looks, MemberStart
    <2>2. PICK h \in 1 .. Len(w) : Follows(w, h, n) /\ EndsValue(w, close, h)
      BY <1>2, <2>1 DEF Due, n
    <2>3. page.line = <<>> /\ Lined(v, Heads(v), page.out)
      BY <1>11, <1>12, <1>25, <2>1, <2>2
    <2> QED BY <1>3, <1>4, <1>13, <2>1, <2>3 DEF Drawn
  <1>34. CASE End
    <2>1. at = "end" /\ Keep /\ at' = "ok" /\ page' = FlushedPage(page)
      BY <1>34 DEF End, Looks
    <2>2. CASE page.line = <<>> /\ Openings(w) # {} /\ Lined(w, Heads(w), page.out)
      <3>1. page' = page
        BY <1>3, <2>1, <2>2, FlushedEmpty
      <3>2. Layout(w, page.out)
        BY <2>2 DEF Layout, Lined
      <3> QED BY <1>3, <1>4, <1>13, <2>1, <3>1, <3>2 DEF Drawn
    <2>3. CASE Alone(w, "end", page)
      <3>1. PICK i \in Filled(w) : page.line = <<w[i]>>
        BY <2>3 DEF Alone
      <3>2. page.out = <<>> /\ Openings(w) = {}
        BY <2>3 DEF Alone
      <3>3. <<w[i]>> \in Texts
        <4>1. w[i] # "blank" /\ w[i] \in Tokens
          BY <1>4, <1>7, <3>1 DEF Filled
        <4>2. <<w[i]>> \in Seq(Glyphs)
          BY <4>1 DEF Glyphs
        <4> QED BY <4>1, <4>2 DEF Texts
      <3>4. page' \in Pages /\ page'.out = <<<<w[i]>>>>
        <4>1. page' \in Pages /\ page'.out = Append(<<>>, <<w[i]>>)
          BY <1>3, <2>1, <3>1, <3>2, <3>3, FlushedIs
        <4> QED BY <4>1
      <3>5. Layout(w, page'.out)
        BY <3>1, <3>2, <3>4 DEF Layout
      <3> QED BY <1>4, <1>13, <2>1, <3>4, <3>5 DEF Drawn
    <2> QED BY <1>3, <2>1, <2>2, <2>3 DEF Drawn, InKey, InMember
  <1> QED BY <1>15, <1>20, <1>21, <1>22, <1>23, <1>24, <1>26, <1>27, <1>28, <1>29, <1>31, <1>32,
             <1>33, <1>34 DEF Parse

LEMMA PageInit ==
  ASSUME ParserInit PROVE FlushInv /\ PageInv
  <1>1. /\ seen = <<>> /\ pb = <<>> /\ stack = <<>> /\ at = "value" /\ Read = <<>>
        /\ page.line = <<>> /\ page.out = <<>> /\ page \in Pages
    BY DEF ParserInit, Read, AtEnd, Pages
  <1>2. Openings(<<>>) = {}
    BY DEF Openings
  <1>3. Drawn(Read, stack, at, page)
    BY <1>1, <1>2 DEF Drawn, Alone
  <1> QED BY <1>1, <1>3 DEF FlushInv, PageInv

LEMMA PageStep ==
  ASSUME DepthInv, GrammarInv, ErrorInv, FlushInv, PageInv, [ParserNext]_parserVars
  PROVE  PageInv'
  <1> SUFFICES ASSUME ~IsText', Slipped(seen)' = 0 PROVE PageInv'
    BY DEF PageInv
  <1>1. CASE Fetch
    <2>1. ~IsText /\ Read' = Read
      BY <1>1, FetchReadsNothing
    <2>2. at' = at /\ stack' = stack /\ page' = page
      BY <1>1 DEF Fetch
    <2>3. Slipped(seen) = 0
      <3>1. PICK t \in Offered : seen' = Append(seen, t)
        BY <1>1 DEF Fetch
      <3>2. seen \in Seq(Tokens) /\ seen' \in Seq(Tokens)
        BY <1>1, FetchKeepsInv DEF DepthInv, ParserTypes
      <3> HIDE DEF Tokens
      <3>3. t \in Tokens
        <4>1. Len(seen) + 1 \in DOMAIN seen' /\ seen'[Len(seen) + 1] = t
          BY <3>1, <3>2
        <4> QED BY <3>2, <4>1
      <3>4. Cardinality(Slips(seen)) <= Cardinality(Slips(Append(seen, t)))
        BY <3>2, <3>3, SlipsGrow
      <3>5. Cardinality(Slips(Append(seen, t))) = 0
        BY <3>1 DEF Slipped
      <3>6. Cardinality(Slips(seen)) \in Nat
        BY <3>2, SlipsCounted
      <3> QED BY <3>4, <3>5, <3>6 DEF Slipped
    <2> QED BY <2>1, <2>2, <2>3 DEF PageInv
  <1>2. CASE Parse
    <2>1. ~IsText
      <3>1. seen' = seen
        BY <1>2 DEF Parse, SkipBlank, Open, TooDeep, Scalar, Literal, LiteralEnds, NoValue,
           FirstMember, Close, Key, Colon, NoMember, KeyValue, Element, Comma, NoComma, End,
           Trailing, Fail, ValueEnds, StartMember
      <3> QED BY <3>1 DEF IsText
    <2> QED BY <1>2, <2>1, ParseKeepsPage
  <1>3. CASE Decode
    <2>1. IsText /\ seen' = seen
      BY <1>3, DecodesText DEF Decode, OpenString, Text, CloseString, Escape, Unit, Pair, PairU,
         Low, BadString, Goes, ValueEnds, Fail, Units
    <2> QED BY <2>1 DEF IsText
  <1>4. CASE UNCHANGED parserVars
    BY <1>4 DEF parserVars, PageInv, IsText, AtEnd, Read
  <1> QED BY <1>1, <1>2, <1>3, <1>4 DEF ParserNext, Stopped

(* A document that is accepted is printed member by member, however many   *)
(* there are, however they are nested and whatever the limits: each line   *)
(* is where the member is, with what it is, and no member is lost, none is *)
(* printed twice.                                                          *)
THEOREM MembersArePrinted == ParserSpec => []PrintsTheMembers
  <1> DEFINE Drawing == DepthInv /\ GrammarInv /\ ErrorInv /\ FlushInv /\ PageInv
  <1>1. ParserInit => Drawing
    BY DepthInit, GrammarInit, ErrorInit, PageInit
  <1>2. Drawing /\ [ParserNext]_parserVars => Drawing'
    BY DepthStep, GrammarStep, ErrorStep, FlushStep, PageStep
  <1>3. Drawing => PrintsTheMembers
    <2> SUFFICES ASSUME DepthInv, GrammarInv, PageInv, at = "ok", ~IsText, Slipped(Input) = 0
                 PROVE  Layout(Input, page.out)
      BY DEF PrintsTheMembers
    <2>1. Slipped(seen) = 0
      BY InputSlips DEF DepthInv
    <2>2. Input = Read
      BY DEF GrammarInv, Input, Read
    <2>3. Drawn(Read, stack, "ok", page)
      BY <2>1 DEF PageInv
    <2> QED BY <2>2, <2>3 DEF Drawn, InKey, InMember, Alone
  <1> QED BY <1>1, <1>2, <1>3, PTL DEF ParserSpec

-----------------------------------------------------------------------------
(* What is printed of a string                                             *)

(* The places up to d at which there is something to print, and how many.  *)
Voiced(s, d) == {i \in Solid(s) \union Gaps(s) : i <= d}

LEMMA Ranks ==
  ASSUME NEW n \in Nat, NEW P \in SUBSET (1 .. n)
  PROVE  /\ IsFiniteSet(P) /\ Cardinality(P) \in Nat /\ (Cardinality(P) = 0 <=> P = {})
         /\ \A i \in P : Cardinality({j \in P : j <= i}) \in 1 .. Cardinality(P)
         /\ \A i \in Nat : (\A j \in P : j < i) =>
              Cardinality(P \union {i}) = Cardinality(P) + 1
  <1>1. IsFiniteSet(1 .. n)
    BY FS_Interval
  <1>2. IsFiniteSet(P) /\ Cardinality(P) \in Nat
    BY <1>1, FS_Subset, FS_CardinalityType
  <1>3. Cardinality(P) = 0 <=> P = {}
    BY <1>2, FS_EmptySet
  <1>4. ASSUME NEW i \in P PROVE Cardinality({j \in P : j <= i}) \in 1 .. Cardinality(P)
    <2> DEFINE Q == {j \in P : j <= i}
    <2>1. i \in Q /\ Q \in SUBSET P
      OBVIOUS
    <2> HIDE DEF Q
    <2>2. IsFiniteSet(Q) /\ Cardinality(Q) <= Cardinality(P) /\ Cardinality(Q) \in Nat
      BY <1>2, <2>1, FS_Subset, FS_CardinalityType
    <2>3. Cardinality(Q) # 0
      BY <2>1, <2>2, FS_EmptySet
    <2>4. Cardinality(Q) \in 1 .. Cardinality(P)
      BY <1>2, <2>2, <2>3
    <2> QED BY <2>4 DEF Q
  <1>5. ASSUME NEW i \in Nat, \A j \in P : j < i
        PROVE  Cardinality(P \union {i}) = Cardinality(P) + 1
    <2>1. i \notin P
      BY <1>5
    <2> QED BY <1>2, <2>1, FS_AddElement
  <1> QED BY <1>2, <1>3, <1>4, <1>5

LEMMA RankKept ==
  ASSUME NEW n \in Nat, NEW P \in SUBSET (1 .. n), NEW i \in Nat, \A j \in P : j < i, NEW j \in P
  PROVE  {k \in P \union {i} : k <= j} = {k \in P : k <= j}
  <1>1. j \in Nat /\ ~(i <= j)
    OBVIOUS
  <1>2. \A k : k \in P \union {i} /\ k <= j <=> k \in P /\ k <= j
    BY <1>1
  <1> QED BY <1>2

LEMMA SpellsMore ==
  ASSUME NEW s, NEW n \in Nat, NEW P \in SUBSET (1 .. n), NEW i \in Nat, \A j \in P : j < i,
         NEW l \in Seq(Glyphs), Sign(s, i) \in Glyphs, Spells(s, P, l)
  PROVE  Spells(s, P \union {i}, Append(l, Sign(s, i)))
  <1> DEFINE Q == P \union {i}
             x == Sign(s, i)
             r == Append(l, x)
  <1>1. /\ Len(l) = Cardinality(P) /\ Cardinality(Q) = Cardinality(P) + 1
        /\ \A j \in P : Cardinality({k \in P : k <= j}) \in 1 .. Len(l)
    <2>1. Len(l) = Cardinality(P)
      BY DEF Spells
    <2>2. /\ Cardinality(Q) = Cardinality(P) + 1
          /\ \A j \in P : Cardinality({k \in P : k <= j}) \in 1 .. Cardinality(P)
      BY Ranks
    <2> QED BY <2>1, <2>2
  <1>2. /\ Len(l) \in Nat /\ Len(r) = Len(l) + 1 /\ r[Len(l) + 1] = x
        /\ \A k \in 1 .. Len(l) : r[k] = l[k]
    <2>1. \A y \in Glyphs : LET q == Append(l, y)
                           IN  /\ Len(l) \in Nat /\ Len(q) = Len(l) + 1 /\ q[Len(l) + 1] = y
                               /\ \A k \in 1 .. Len(l) : q[k] = l[k]
      <3> HIDE DEF Glyphs
      <3> QED OBVIOUS
    <2> QED BY <2>1
  <1>3. {k \in Q : k <= i} = Q
    <2>1. \A k \in Q : k <= i
      OBVIOUS
    <2> HIDE DEF Q
    <2> QED BY <2>1
  <1>4. ASSUME NEW j \in P PROVE {k \in Q : k <= j} = {k \in P : k <= j}
    BY RankKept
  <1> HIDE DEF r, x
  <1>5. ASSUME NEW j \in P PROVE r[Cardinality({k \in Q : k <= j})] = Sign(s, j)
    BY <1>1, <1>2, <1>4 DEF Spells
  <1>6. r[Cardinality({k \in Q : k <= i})] = Sign(s, i)
    BY <1>1, <1>2, <1>3 DEF x
  <1>7. Spells(s, Q, r)
    BY <1>1, <1>2, <1>5, <1>6 DEF Spells
  <1> QED BY <1>7 DEF r, x

LEMMA SpellsLess ==
  ASSUME NEW s, NEW n \in Nat, NEW P \in SUBSET (1 .. n), NEW i \in Nat, \A j \in P : j < i,
         NEW l \in Seq(Glyphs), NEW x \in Glyphs, Spells(s, P \union {i}, Append(l, x))
  PROVE  Spells(s, P, l) /\ Sign(s, i) = x
  <1> DEFINE Q == P \union {i}
             r == Append(l, x)
  <1>1. /\ Cardinality(Q) = Cardinality(P) + 1 /\ Cardinality(P) \in Nat
        /\ \A j \in P : Cardinality({k \in P : k <= j}) \in 1 .. Cardinality(P)
    BY Ranks
  <1>2. /\ Len(l) \in Nat /\ Len(r) = Len(l) + 1 /\ r[Len(l) + 1] = x
        /\ \A k \in 1 .. Len(l) : r[k] = l[k]
    <2> HIDE DEF Glyphs
    <2> QED OBVIOUS
  <1>3. {k \in Q : k <= i} = Q
    <2>1. \A k \in Q : k <= i
      OBVIOUS
    <2> HIDE DEF Q
    <2> QED BY <2>1
  <1>4. ASSUME NEW j \in P PROVE {k \in Q : k <= j} = {k \in P : k <= j}
    BY RankKept
  <1>5. Len(r) = Cardinality(Q) /\ \A j \in Q : r[Cardinality({k \in Q : k <= j})] = Sign(s, j)
    BY DEF Spells
  <1> HIDE DEF r
  <1>6. Len(l) = Cardinality(P)
    BY <1>1, <1>2, <1>5
  <1>7. Sign(s, i) = x
    BY <1>1, <1>2, <1>3, <1>5, <1>6
  <1>8. ASSUME NEW j \in P PROVE l[Cardinality({k \in P : k <= j})] = Sign(s, j)
    BY <1>1, <1>2, <1>4, <1>5, <1>6
  <1> QED BY <1>6, <1>7, <1>8 DEF Spells

LEMMA SpellsKept ==
  ASSUME NEW s, NEW v, NEW P, \A i \in P : Sign(s, i) = Sign(v, i), NEW l, Spells(s, P, l)
  PROVE  Spells(v, P, l)
  BY DEF Spells

LEMMA SpellsNone ==
  ASSUME NEW s PROVE Spells(s, {}, <<>>)
  BY FS_EmptySet DEF Spells

(* The line when all up to place d is decoded.                             *)
Drafted(s, d, l) ==
  /\ l \in Seq(Glyphs) /\ Spells(s, Voiced(s, d), l)
  /\ IF Hanging(s, d) THEN l \in Texts
                      ELSE l = <<>> \/ \E t \in Texts : l = Append(t, "blank")

LEMMA VoicedIs ==
  ASSUME NEW s, NEW d \in Nat, Len(s) \in Nat
  PROVE  Voiced(s, d) \in SUBSET (1 .. d) /\ Solid(s) \subseteq 2 .. Len(s)
         /\ Gaps(s) \subseteq 2 .. Len(s)
  BY DEF Voiced, Solid, Gaps

LEMMA SolidIs ==
  ASSUME NEW s, NEW i \in Solid(s)
  PROVE  ~IsLineEnd(s, i) /\ (IsUnit(s, i) => s[i + 1] \in {"H", "B"})
  BY DEF Solid, IsLineEnd, IsUnit

(* Nothing to print.                                                       *)
LEMMA DraftStays ==
  ASSUME NEW s, Len(s) \in Nat, NEW d \in Nat, NEW e \in Nat, d <= e,
         \A i \in d + 1 .. e : i \notin Solid(s) /\ ~IsLineEnd(s, i),
         NEW l, Drafted(s, d, l)
  PROVE  Drafted(s, e, l)
  <1>1. Solid(s) \subseteq 2 .. Len(s) /\ Gaps(s) \subseteq 2 .. Len(s)
    BY VoicedIs
  <1>2. \A i \in Gaps(s) : IsLineEnd(s, i)
    BY DEF Gaps
  <1>3. Voiced(s, e) = Voiced(s, d)
    <2>1. \A i \in Solid(s) \union Gaps(s) : i <= e <=> i <= d
      BY <1>1, <1>2
    <2> QED BY <2>1 DEF Voiced
  <1>4. Hanging(s, e) <=> Hanging(s, d)
    <2>1. ASSUME NEW h \in Solid(s)
          PROVE  (h <= e /\ \A k \in h + 1 .. e : ~IsLineEnd(s, k))
                   <=> (h <= d /\ \A k \in h + 1 .. d : ~IsLineEnd(s, k))
      <3>1. h \in Nat /\ (h <= e <=> h <= d)
        BY <1>1
      <3>2. CASE h <= d
        <4>1. \A k \in h + 1 .. e : k \in h + 1 .. d \/ k \in d + 1 .. e
          BY <3>1, <3>2
        <4>2. \A k \in h + 1 .. d : k \in h + 1 .. e
          BY <3>1, <3>2
        <4> QED BY <3>1, <4>1, <4>2
      <3> QED BY <3>1, <3>2
    <2> QED BY <2>1 DEF Hanging
  <1> QED BY <1>3, <1>4 DEF Drafted

LEMMA AppendLast ==
  ASSUME NEW l \in Seq(Glyphs), NEW x \in Glyphs
  PROVE  /\ Append(l, x) \in Seq(Glyphs) /\ Append(l, x) # <<>> /\ Last(Append(l, x)) = x
         /\ x # "blank" => Append(l, x) \in Texts
  <1> DEFINE r == Append(l, x)
  <1>1. r \in Seq(Glyphs) /\ r # <<>> /\ r[Len(r)] = x
    <2> HIDE DEF Glyphs
    <2> QED OBVIOUS
  <1> HIDE DEF r
  <1>2. Last(r) = x /\ (x # "blank" => r \in Texts)
    BY <1>1 DEF Last, Texts
  <1> QED BY <1>1, <1>2 DEF r

(* One character.                                                          *)
LEMMA DraftGrows ==
  ASSUME NEW s, Len(s) \in Nat, NEW d \in Nat, NEW e \in Nat, NEW i \in d + 1 .. e,
         i \in Solid(s), Sign(s, i) \in Glyphs \ {"blank"},
         \A j \in d + 1 .. e : j # i => j \notin Solid(s) /\ ~IsLineEnd(s, j),
         NEW l, Drafted(s, d, l)
  PROVE  Drafted(s, e, Append(l, Sign(s, i)))
  <1>1. Solid(s) \subseteq 2 .. Len(s) /\ Gaps(s) \subseteq 2 .. Len(s)
        /\ Voiced(s, d) \in SUBSET (1 .. d)
    BY VoicedIs
  <1>2. /\ \A j \in Gaps(s) : IsLineEnd(s, j)
        /\ ~IsLineEnd(s, i)
    BY SolidIs DEF Gaps
  <1>3. Voiced(s, e) = Voiced(s, d) \union {i}
    <2>1. \A j \in Solid(s) \union Gaps(s) : j <= e <=> j <= d \/ j = i
      BY <1>1, <1>2
    <2> QED BY <2>1 DEF Voiced
  <1>4. Hanging(s, e)
    <2>1. \A k \in i + 1 .. e : k \in d + 1 .. e /\ k # i
      OBVIOUS
    <2> QED BY <2>1 DEF Hanging
  <1>5. Spells(s, Voiced(s, e), Append(l, Sign(s, i)))
    <2>1. \A j \in Voiced(s, d) : j < i
      BY <1>1
    <2>2. l \in Seq(Glyphs) /\ Spells(s, Voiced(s, d), l) /\ i \in Nat
      BY DEF Drafted
    <2> DEFINE P == Voiced(s, d)
    <2> HIDE DEF P
    <2>3. Spells(s, P \union {i}, Append(l, Sign(s, i)))
      BY <1>1, <2>1, <2>2, SpellsMore DEF P
    <2> QED BY <1>3, <2>3 DEF P
  <1> QED BY <1>4, <1>5, AppendLast DEF Drafted

(* A line end.                                                             *)
LEMMA DraftBreaks ==
  ASSUME NEW s, Len(s) \in Nat, NEW d \in Nat, d + 1 \in 2 .. Len(s), IsLineEnd(s, d + 1),
         NEW l, Drafted(s, d, l)
  PROVE  Drafted(s, d + 1, Spaced(l))
  <1> DEFINE e == d + 1
  <1>1. Solid(s) \subseteq 2 .. Len(s) /\ Gaps(s) \subseteq 2 .. Len(s)
        /\ Voiced(s, d) \in SUBSET (1 .. d)
    BY VoicedIs
  <1>2. e \notin Solid(s) /\ Sign(s, e) = "blank" /\ e - 1 = d
    BY SolidIs DEF Sign, IsLineEnd, IsUnit
  <1>3. ~Hanging(s, e)
    <2> SUFFICES ASSUME NEW h \in Solid(s), h <= e, \A k \in h + 1 .. e : ~IsLineEnd(s, k)
                 PROVE  FALSE
      BY DEF Hanging
    <2>1. e \in h + 1 .. e
      BY <1>1, <1>2
    <2> QED BY <2>1
  <1>4. e \in Gaps(s) <=> Hanging(s, d)
    BY <1>2 DEF Gaps
  <1>5. Voiced(s, e) = Voiced(s, d) \union (IF Hanging(s, d) THEN {e} ELSE {})
    <2>1. \A j \in Solid(s) \union Gaps(s) : j <= e <=> j <= d \/ j = e
      BY <1>1
    <2> QED BY <1>2, <1>4, <2>1 DEF Voiced
  <1>6. "blank" \in Glyphs
    BY DEF Glyphs, Tokens, Marks
  <1>7. CASE Hanging(s, d)
    <2>1. l \in Texts /\ l \in Seq(Glyphs) /\ Spells(s, Voiced(s, d), l)
      BY <1>7 DEF Drafted
    <2>2. Spaced(l) = Append(l, "blank")
      BY <2>1 DEF Texts, Spaced, Last
    <2>3. Spells(s, Voiced(s, e), Append(l, "blank"))
      <3>1. \A j \in Voiced(s, d) : j < e
        BY <1>1
      <3>2. Spells(s, Voiced(s, d) \union {e}, Append(l, Sign(s, e)))
        <4> DEFINE P == Voiced(s, d)
        <4>1. /\ P \in SUBSET (1 .. d) /\ \A j \in P : j < e
              /\ e \in Nat /\ l \in Seq(Glyphs) /\ Spells(s, P, l) /\ Sign(s, e) \in Glyphs
          BY <1>1, <1>2, <1>6, <2>1, <3>1
        <4> HIDE DEF P, e
        <4>2. Spells(s, P \union {e}, Append(l, Sign(s, e)))
          BY <4>1, SpellsMore
        <4> QED BY <4>2 DEF P
      <3> QED BY <1>2, <1>5, <1>7, <3>2
    <2> QED BY <1>3, <1>6, <2>1, <2>2, <2>3, AppendLast DEF Drafted
  <1>8. CASE ~Hanging(s, d)
    <2>1. l = <<>> \/ \E t \in Texts : l = Append(t, "blank")
      BY <1>8 DEF Drafted
    <2>2. l = <<>> \/ Last(l) = "blank"
      BY <1>6, <2>1, AppendLast DEF Texts
    <2>3. Spaced(l) = l
      BY <2>2 DEF Spaced
    <2>4. Voiced(s, e) = Voiced(s, d)
      BY <1>5, <1>8
    <2> QED BY <1>3, <2>1, <2>3, <2>4 DEF Drafted
  <1> QED BY <1>7, <1>8

(* The low surrogate that would follow the escape at u does not.           *)
Denied(s, u) ==
  \/ u + 2 <= Len(s) /\ s[u + 2] # "backslash"
  \/ u + 3 <= Len(s) /\ s[u + 3] # "u"
  \/ u + 4 <= Len(s) /\ s[u + 4] # "L"

(* What the escapes up to d stand for does not depend on what follows.     *)
Settled(s, d, whole) ==
  \A u \in 2 .. d : IsUnit(s, u) =>
    u < Len(s) /\ (s[u + 1] = "H" => Joined(s, u) \/ whole \/ Denied(s, u))

LEMMA DraftKept ==
  ASSUME NEW S, NEW s \in Seq(S), NEW t \in S, NEW d \in Nat, d <= Len(s),
         Settled(s, d, FALSE), NEW l, Drafted(s, d, l), NEW whole \in BOOLEAN
  PROVE  Drafted(Append(s, t), d, l) /\ Settled(Append(s, t), d, whole)
         /\ Settled(s, d, whole)
  <1> DEFINE v == Append(s, t)
  <1>1. Len(v) = Len(s) + 1 /\ Len(s) \in Nat /\ \A k \in 1 .. Len(s) : v[k] = s[k]
    OBVIOUS
  <1> HIDE DEF v
  <1>2. ASSUME NEW i \in 1 .. d
        PROVE  /\ s[i] = v[i] /\ (Escaped(s, i) <=> Escaped(v, i))
               /\ (IsUnit(s, i) <=> IsUnit(v, i)) /\ (IsLineEnd(s, i) <=> IsLineEnd(v, i))
    <2>1. s[i] = v[i] /\ i \in Int /\ \A k \in 1 .. i - 1 : s[k] = v[k]
      BY <1>1
    <2>2. Escaped(s, i) <=> Escaped(v, i)
      BY <2>1, EscapedKept
    <2> QED BY <2>1, <2>2 DEF IsUnit, IsLineEnd
  <1>3. ASSUME NEW u \in 2 .. d, IsUnit(s, u)
        PROVE  /\ u < Len(s) /\ v[u + 1] = s[u + 1]
               /\ s[u + 1] = "H" => (Joined(s, u) <=> Joined(v, u))
               /\ s[u + 1] = "H" => Joined(v, u) \/ Denied(v, u)
    <2>1. u < Len(s) /\ (s[u + 1] = "H" => Joined(s, u) \/ Denied(s, u))
      BY <1>3 DEF Settled
    <2>2. \A k \in {1, 2, 3, 4} : u + k <= Len(s) => v[u + k] = s[u + k]
      BY <1>1
    <2> QED BY <1>1, <2>1, <2>2 DEF Joined, Denied
  <1>4. ASSUME NEW i \in 2 .. d PROVE i \in Solid(s) <=> i \in Solid(v)
    <2>1. /\ s[i] = v[i] /\ (Escaped(s, i) <=> Escaped(v, i))
          /\ (IsUnit(s, i) <=> IsUnit(v, i)) /\ (IsUnit(s, i - 1) <=> IsUnit(v, i - 1))
      BY <1>2
    <2>2. i \in 2 .. Len(s) /\ i \in 2 .. Len(v)
      BY <1>1
    <2>3. IsUnit(s, i) => /\ i < Len(s) /\ i < Len(v) /\ v[i + 1] = s[i + 1]
                          /\ (s[i + 1] = "H" => (Joined(s, i) <=> Joined(v, i)))
      <3> SUFFICES ASSUME IsUnit(s, i)
                   PROVE  /\ i < Len(s) /\ i < Len(v) /\ v[i + 1] = s[i + 1]
                          /\ (s[i + 1] = "H" => (Joined(s, i) <=> Joined(v, i)))
        OBVIOUS
      <3>1. i < Len(s) /\ i \in Nat
        BY <1>3
      <3> QED BY <1>1, <1>3, <3>1
    <2> QED BY <2>1, <2>2, <2>3 DEF Solid
  <1>5. /\ Solid(s) \subseteq 2 .. Len(s) /\ Solid(v) \subseteq 2 .. Len(v)
        /\ Gaps(s) \subseteq 2 .. Len(s) /\ Gaps(v) \subseteq 2 .. Len(v)
    BY <1>1 DEF Solid, Gaps
  <1>6. ASSUME NEW e \in 0 .. d PROVE Hanging(s, e) <=> Hanging(v, e)
    <2>1. ASSUME NEW h \in 2 .. e
          PROVE  h \in Solid(s) /\ (\A k \in h + 1 .. e : ~IsLineEnd(s, k))
                   <=> h \in Solid(v) /\ (\A k \in h + 1 .. e : ~IsLineEnd(v, k))
      <3>1. h \in 2 .. d /\ \A k \in h + 1 .. e : k \in 1 .. d
        OBVIOUS
      <3> QED BY <1>2, <1>4, <3>1
    <2>2. \A h \in Solid(s) \union Solid(v) : h <= e <=> h \in 2 .. e
      BY <1>1, <1>5
    <2> QED BY <2>1, <2>2 DEF Hanging
  <1>7. ASSUME NEW i \in 2 .. d PROVE i \in Gaps(s) <=> i \in Gaps(v)
    <2>1. i - 1 \in 0 .. d /\ i \in 1 .. d /\ i \in 2 .. Len(s) /\ i \in 2 .. Len(v)
      BY <1>1
    <2> QED BY <1>2, <1>6, <2>1 DEF Gaps
  <1>8. Voiced(s, d) = Voiced(v, d) /\ Voiced(s, d) \subseteq 2 .. d
    <2>1. \A i \in Solid(s) \union Gaps(s) \union Solid(v) \union Gaps(v) : i <= d <=> i \in 2 .. d
      BY <1>1, <1>5
    <2> QED BY <1>4, <1>7, <2>1 DEF Voiced
  <1>9. ASSUME NEW i \in 2 .. d PROVE Sign(s, i) = Sign(v, i)
    BY <1>2, <1>3 DEF Sign
  <1>10. Spells(v, Voiced(v, d), l)
    <2>1. Spells(s, Voiced(s, d), l)
      BY DEF Drafted
    <2> QED BY <1>8, <1>9, <2>1, SpellsKept
  <1>11. Drafted(v, d, l)
    <2>1. d \in 0 .. d
      OBVIOUS
    <2> QED BY <1>6, <1>10, <2>1 DEF Drafted
  <1>12. Settled(v, d, whole) /\ Settled(s, d, whole)
    BY <1>1, <1>2, <1>3 DEF Settled
  <1> QED BY <1>11, <1>12 DEF v

LEMMA SignIs ==
  ASSUME NEW s \in Seq(Signs), NEW i \in Solid(s)
  PROVE  /\ Sign(s, i) \in Glyphs \ {"blank"}
         /\ ~IsUnit(s, i) => Sign(s, i) = s[i]
         /\ IsUnit(s, i) => Sign(s, i) = IF s[i + 1] = "H" THEN "HL" ELSE "B"
  <1>1. Len(s) \in Nat /\ \A k \in 1 .. Len(s) : s[k] \in Signs
    <2> HIDE DEF Signs
    <2> QED OBVIOUS
  <1>2. s[i] \in Signs /\ ~IsLineEnd(s, i)
    BY <1>1, VoicedIs, SolidIs
  <1>3. "blank" \notin Signs /\ Signs \union {"HL", "B"} \subseteq Glyphs
    BY DEF Signs, Chars, Escapes, Units, Glyphs, Tokens
  <1> HIDE DEF Signs, Glyphs
  <1> QED BY <1>2, <1>3 DEF Sign

(* What has nothing to print.                                              *)
Quiet(s, i) == i \notin Solid(s) /\ ~IsLineEnd(s, i) /\ ~IsUnit(s, i)

LEMMA QuietIs ==
  ASSUME NEW s, s[1] = "quote", NEW i \in Nat \ {0}
  PROVE  /\ i = 1 => Quiet(s, i)
         /\ ~Escaped(s, i) /\ s[i] \in {"quote", "backslash"} => Quiet(s, i)
         /\ IsUnit(s, i) => ~IsLineEnd(s, i)
         /\ IsUnit(s, i) /\ s[i + 1] \in Units => Quiet(s, i + 1)
         /\ IsUnit(s, i) /\ (i < Len(s) => s[i + 1] \in Units) /\ i \in Solid(s) =>
              i < Len(s) /\ (s[i + 1] = "B" \/ (s[i + 1] = "H" /\ Joined(s, i)))
  <1>1. ~Escaped(s, 1)
    BY DEF Escaped
  <1>2. s[i] = "u" => ~Escaped(s, i + 1)
    BY EscapedNext
  <1>3. (i + 1) - 1 = i
    OBVIOUS
  <1> QED BY <1>1, <1>2, <1>3 DEF Quiet, Solid, IsUnit, IsLineEnd, Units

-----------------------------------------------------------------------------
(* The line of a string while it is decoded                                *)

(* An escape at u is a high surrogate.                                     *)
High(s, u) == u \in 2 .. Len(s) - 1 /\ IsUnit(s, u) /\ s[u + 1] = "H"

(* When the decoder is at place c, the line has all up to d.               *)
Pending(s, c, where, d) ==
  \/ where \in {"value", "text", "escape", "end"} /\ c = d
  \/ where = "unit" /\ c = d + 1
  \/ where = "pair" /\ c = d + 2 /\ High(s, d + 1)
  \/ where = "pairu" /\ c = d + 3 /\ High(s, d + 1) /\ s[c] = "backslash"
  \/ where = "low" /\ c = d + 4 /\ High(s, d + 1) /\ s[c - 1] = "backslash" /\ s[c] = "u"

SpeechInv ==
  /\ seen = <<>> => page = [line |-> <<>>, out |-> <<>>]
  /\ IsText /\ at # "error" =>
       IF at = "ok" THEN Speech(Input, page.out)
       ELSE /\ page \in Pages /\ page.out = <<>>
            /\ \E d \in Nat : /\ Pending(Input, Len(Input) - Len(pb), at, d)
                              /\ Settled(Input, d, AtEnd) /\ Drafted(Input, d, page.line)

LEMMA SpeechGoes ==
  ASSUME IsText, seen' = seen, page' \in Pages, page'.out = <<>>, at' \notin {"ok", "error"},
         NEW c, c = Len(Input) - Len(pb'), NEW d \in Nat, Pending(Input, c, at', d),
         Settled(Input, d, AtEnd), Drafted(Input, d, page'.line)
  PROVE  SpeechInv'
  <1>1. /\ IsText' /\ (AtEnd' <=> AtEnd) /\ Input' = Input /\ seen' # <<>>
    BY DEF IsText, AtEnd, Input
  <1>2. Settled(Input, d, AtEnd')
    BY <1>1 DEF Settled
  <1>3. Pending(Input', Len(Input') - Len(pb'), at', d) /\ Drafted(Input', d, page'.line)
        /\ Settled(Input', d, AtEnd')
    BY <1>1, <1>2
  <1> QED BY <1>1, <1>3 DEF SpeechInv

LEMMA SettledMore ==
  ASSUME NEW s, NEW d \in Nat, NEW e \in Nat, NEW whole \in BOOLEAN, Settled(s, d, whole),
         \A u \in d + 1 .. e : IsUnit(s, u) =>
           u < Len(s) /\ (s[u + 1] = "H" => Joined(s, u) \/ whole \/ Denied(s, u))
  PROVE  Settled(s, e, whole)
  <1>1. \A u \in 2 .. e : u \in 2 .. d \/ u \in d + 1 .. e
    OBVIOUS
  <1> QED BY <1>1 DEF Settled

LEMMA LineGrows ==
  ASSUME NEW p \in Pages
  PROVE  /\ \A x \in Glyphs : /\ Written(p, <<x>>) \in Pages
                              /\ Written(p, <<x>>).line = Append(p.line, x)
                              /\ Written(p, <<x>>).out = p.out
         /\ LET q == [p EXCEPT !.line = Spaced(@)]
            IN  q \in Pages /\ q.line = Spaced(p.line) /\ q.out = p.out
  <1>1. p.line \in Seq(Glyphs)
    BY DEF Pages
  <1>2. ASSUME NEW x \in Glyphs
        PROVE  /\ Written(p, <<x>>) \in Pages /\ Written(p, <<x>>).out = p.out
               /\ Written(p, <<x>>).line = Append(p.line, x)
    <2>1. <<x>> \in Seq(Glyphs) /\ p.line \o <<x>> = Append(p.line, x)
      <3> HIDE DEF Glyphs
      <3> QED BY <1>1
    <2> QED BY <2>1, WrittenIs
  <1>3. Spaced(p.line) \in Seq(Glyphs)
    <2>1. "blank" \in Glyphs
      BY DEF Glyphs, Tokens, Marks
    <2> QED BY <1>1, <2>1, AppendLast DEF Spaced
  <1>4. LET q == [p EXCEPT !.line = Spaced(@)]
        IN  q \in Pages /\ q.line = Spaced(p.line) /\ q.out = p.out
    BY <1>3 DEF Pages
  <1> QED BY <1>2, <1>4

LEMMA DecodeKeepsSpeech ==
  ASSUME DepthInv, TextInv, SpeechInv, IsText, Decode PROVE SpeechInv'
  <1> DEFINE s == Input
             c == Len(s) - Len(pb)
             l == page.line
  <1>1. Ready /\ seen' = seen /\ at \notin {"ok", "error"}
    BY DEF Decode, OpenString, Text, CloseString, Escape, Unit, Pair, PairU, Low, BadString,
           Looks, Goes, Fail, ValueEnds, Units
  <1>2. /\ Len(s) \in Nat /\ Len(pb) \in Nat /\ c \in Nat /\ Lexed(s, c, at)
        /\ pb = <<>> => Peek = "EOF" /\ AtEnd /\ c = Len(s)
        /\ pb # <<>> => /\ Peek \in Signs /\ Peek # "EOF" /\ Peek = s[c + 1]
                       /\ c < Len(s) /\ Len(Get) = Len(pb) - 1
    BY <1>1, PeekIs
  <1>3. s[1] = "quote" /\ stack = <<>> /\ s \in Seq(Signs)
    BY DEF TextInv, TextRead, DepthInv, StringInv
  <1>4. PICK d \in Nat : Pending(s, c, at, d) /\ Settled(s, d, AtEnd) /\ Drafted(s, d, l)
    BY <1>1 DEF SpeechInv
  <1>5. page \in Pages /\ page.out = <<>> /\ AtEnd \in BOOLEAN
    BY <1>1 DEF SpeechInv, AtEnd
  <1>6. pb # <<>> /\ Take => Len(s) - Len(pb') = c + 1
    BY <1>2 DEF Take
  <1> HIDE DEF s, c, l
  (* The step prints nothing, or the character at i, and is at place e.    *)
  <1>7. ASSUME NEW e \in Nat, NEW g \in Nat, d <= g, at' \notin {"ok", "error"},
               e = Len(s) - Len(pb'), Pending(s, e, at', g), page' = page,
               \A i \in d + 1 .. g : Quiet(s, i) \/ (IsUnit(s, i) /\ i \notin Solid(s)
                 /\ i < Len(s) /\ (s[i + 1] = "H" => Joined(s, i) \/ AtEnd \/ Denied(s, i)))
        PROVE  SpeechInv'
    <2>1. Drafted(s, g, l)
      <3>1. \A i \in d + 1 .. g : i \notin Solid(s) /\ ~IsLineEnd(s, i)
        BY <1>7 DEF Quiet, IsUnit, IsLineEnd
      <3> QED BY <1>2, <1>4, <1>7, <3>1, DraftStays
    <2>2. Settled(s, g, AtEnd)
      BY <1>4, <1>5, <1>7, SettledMore DEF Quiet
    <2> QED BY <1>1, <1>5, <1>7, <2>1, <2>2, SpeechGoes DEF s, l
  <1>8. ASSUME NEW e \in Nat, NEW g \in Nat, d < g, at' \notin {"ok", "error"},
               e = Len(s) - Len(pb'), Pending(s, e, at', g),
               NEW i \in d + 1 .. g, i \in Solid(s), page' = Written(page, <<Sign(s, i)>>),
               IsUnit(s, i) => i < Len(s) /\ (s[i + 1] = "H" => Joined(s, i)),
               \A j \in d + 1 .. g : j # i => Quiet(s, j) \/ (IsUnit(s, j) /\ j \notin Solid(s)
                 /\ j < Len(s) /\ s[j + 1] # "H")
        PROVE  SpeechInv'
    <2>1. Sign(s, i) \in Glyphs \ {"blank"}
      BY <1>3, <1>8, SignIs
    <2>2. /\ page' \in Pages /\ page'.out = <<>> /\ page'.line = Append(l, Sign(s, i))
      BY <1>5, <1>8, <2>1, LineGrows DEF l
    <2>3. Drafted(s, g, Append(l, Sign(s, i)))
      <3>1. \A j \in d + 1 .. g : j # i => j \notin Solid(s) /\ ~IsLineEnd(s, j)
        BY <1>8 DEF Quiet, IsUnit, IsLineEnd
      <3> QED BY <1>2, <1>4, <1>8, <2>1, <3>1, DraftGrows
    <2>4. Settled(s, g, AtEnd)
      <3>1. \A u \in d + 1 .. g : IsUnit(s, u) =>
              u < Len(s) /\ (s[u + 1] = "H" => Joined(s, u) \/ AtEnd \/ Denied(s, u))
        BY <1>8 DEF Quiet
      <3> QED BY <1>4, <1>5, <3>1, SettledMore
    <2> QED BY <1>1, <1>5, <1>8, <2>2, <2>3, <2>4, SpeechGoes DEF s
  <1>9. \A i \in Nat \ {0} :
          /\ i = 1 => Quiet(s, i)
          /\ ~Escaped(s, i) /\ s[i] \in {"quote", "backslash"} => Quiet(s, i)
          /\ IsUnit(s, i) /\ s[i + 1] \in Units => Quiet(s, i + 1)
          /\ IsUnit(s, i) /\ (i < Len(s) => s[i + 1] \in Units) /\ i \in Solid(s) =>
               i < Len(s) /\ (s[i + 1] = "B" \/ (s[i + 1] = "H" /\ Joined(s, i)))
    BY <1>3, QuietIs
  <1>10. CASE OpenString
    <2>1. Peek = "quote" /\ at = "value" /\ Take /\ at' = "text" /\ page' = page
      BY <1>10 DEF OpenString, Looks, Goes
    <2>2. pb # <<>> /\ c = 0 /\ d = 0
      BY <1>2, <1>4, <2>1 DEF Lexed, Pending
    <2>3. Len(s) - Len(pb') = 1 /\ Pending(s, 1, at', 1)
      BY <1>6, <2>1, <2>2 DEF Pending
    <2>4. Quiet(s, 1)
      BY <1>9
    <2> QED BY <1>7, <2>1, <2>2, <2>3, <2>4
  <1>11. CASE Text
    <2>1. /\ Peek \notin {"quote", "EOF"} /\ at = "text" /\ Take
          /\ at' = IF Peek = "backslash" THEN "escape" ELSE "text"
          /\ page' = IF Peek = "backslash" THEN page ELSE Written(page, <<Peek>>)
      BY <1>11 DEF Text, Looks, Goes
    <2>2. pb # <<>> /\ c = d /\ Len(s) - Len(pb') = c + 1 /\ Peek = s[c + 1] /\ c < Len(s)
      BY <1>2, <1>4, <1>6, <2>1 DEF Pending
    <2>3. c > 0 /\ Scanned(s, c) /\ ~Escaped(s, c + 1)
      BY <1>2, <2>1 DEF Lexed
    <2>4. Pending(s, c + 1, at', c + 1)
      BY <2>1 DEF Pending
    <2>5. CASE Peek = "backslash"
      <3>1. Quiet(s, c + 1)
        <4>1. c + 1 \in Nat \ {0} /\ s[c + 1] = "backslash"
          BY <1>2, <2>2, <2>5
        <4> QED BY <1>9, <2>3, <4>1
      <3> QED BY <1>2, <1>7, <2>1, <2>2, <2>4, <2>5, <3>1
    <2>6. CASE Peek # "backslash"
      <3>1. ~IsUnit(s, c + 1) /\ ~IsUnit(s, c)
        BY <1>2, <2>3 DEF IsUnit, Scanned
      <3>2. c + 1 \in Solid(s)
        <4>1. c + 1 \in 2 .. Len(s) /\ (c + 1) - 1 = c
          BY <1>2, <2>2, <2>3
        <4> QED BY <2>1, <2>2, <2>3, <2>6, <3>1, <4>1 DEF Solid
      <3>3. Sign(s, c + 1) = Peek
        BY <1>3, <2>2, <3>1, <3>2, SignIs
      <3> QED BY <1>2, <1>8, <2>1, <2>2, <2>4, <2>6, <3>1, <3>2, <3>3
    <2> QED BY <2>5, <2>6
  <1>12. CASE CloseString
    <2>1. Peek = "quote" /\ at = "text" /\ Take /\ at' = "end" /\ page' = page
      BY <1>3, <1>12 DEF CloseString, Looks, ValueEnds
    <2>2. pb # <<>> /\ c = d /\ Len(s) - Len(pb') = c + 1 /\ Peek = s[c + 1]
      BY <1>2, <1>4, <1>6, <2>1 DEF Pending
    <2>3. ~Escaped(s, c + 1) /\ Pending(s, c + 1, at', c + 1)
      BY <1>2, <2>1 DEF Lexed, Pending
    <2>4. Quiet(s, c + 1)
      BY <1>2, <1>9, <2>1, <2>2, <2>3
    <2> QED BY <1>2, <1>7, <2>1, <2>2, <2>3, <2>4
  <1>13. CASE Escape
    <2>1. /\ Peek # "EOF" /\ at = "escape" /\ Take
          /\ Peek = "u" => at' = "unit" /\ page' = page
          /\ Peek = "n" => at' = "text" /\ page' = [page EXCEPT !.line = Spaced(@)]
          /\ Peek \notin {"u", "n"} => at' = "text" /\ page' = Written(page, <<Peek>>)
      BY <1>13 DEF Escape, Looks, Goes
    <2>2. pb # <<>> /\ c = d /\ Len(s) - Len(pb') = c + 1 /\ Peek = s[c + 1] /\ c < Len(s)
      BY <1>2, <1>4, <1>6, <2>1 DEF Pending
    <2>3. c > 0 /\ Escaped(s, c + 1) /\ c + 1 \in 2 .. Len(s)
      BY <1>2, <2>1, <2>2 DEF Lexed
    <2>4. CASE Peek = "u"
      <3>1. Pending(s, c + 1, at', d) /\ at' = "unit" /\ page' = page
        BY <2>1, <2>2, <2>4 DEF Pending
      <3>2. \A i \in d + 1 .. d : FALSE
        OBVIOUS
      <3> QED BY <1>2, <1>7, <2>2, <3>1, <3>2
    <2>5. CASE Peek = "n"
      <3>1. IsLineEnd(s, d + 1) /\ ~IsUnit(s, d + 1)
        BY <2>2, <2>3, <2>5 DEF IsLineEnd, IsUnit
      <3>2. /\ page' \in Pages /\ page'.line = Spaced(l) /\ page'.out = <<>> /\ at' = "text"
        <4>1. page' = [page EXCEPT !.line = Spaced(@)] /\ at' = "text"
          BY <2>1, <2>5
        <4> QED BY <1>5, <4>1, LineGrows DEF l
      <3>3. Drafted(s, d + 1, Spaced(l))
        BY <1>2, <1>4, <2>2, <2>3, <3>1, DraftBreaks
      <3>4. Settled(s, d + 1, AtEnd)
        <4> DEFINE e == d + 1
        <4>1. e \in Nat /\ \A u \in d + 1 .. e : ~IsUnit(s, u)
          BY <3>1
        <4> HIDE DEF e
        <4>2. Settled(s, e, AtEnd)
          BY <1>4, <1>5, <4>1, SettledMore
        <4> QED BY <4>2 DEF e
      <3>5. Pending(s, d + 1, at', d + 1)
        BY <3>2 DEF Pending
      <3> QED BY <1>1, <2>2, <3>2, <3>3, <3>4, <3>5, SpeechGoes DEF s
    <2>6. CASE Peek \notin {"u", "n"}
      <3>1. ~IsUnit(s, c + 1) /\ c + 1 \in Solid(s)
        BY <2>2, <2>3, <2>6 DEF IsUnit, Solid
      <3>2. Sign(s, c + 1) = Peek
        BY <1>3, <2>2, <3>1, SignIs
      <3>3. Pending(s, c + 1, at', c + 1) /\ at' = "text" /\ page' = Written(page, <<Peek>>)
        BY <2>1, <2>6 DEF Pending
      <3> QED BY <1>2, <1>8, <2>2, <3>1, <3>2, <3>3
    <2> QED BY <2>4, <2>5, <2>6
  <1>14. CASE Unit
    <2>1. /\ Peek \in Units /\ at = "unit" /\ Take
          /\ Peek = "H" => at' = "pair" /\ page' = page
          /\ Peek = "L" => at' = "text" /\ page' = page
          /\ Peek = "B" => at' = "text" /\ page' = Written(page, <<"B">>)
      BY <1>14 DEF Unit, Looks, Goes
    <2>2. pb # <<>> /\ c = d + 1 /\ Len(s) - Len(pb') = c + 1 /\ Peek = s[c + 1] /\ c < Len(s)
      BY <1>2, <1>4, <1>6, <2>1 DEF Pending, Units
    <2>3. c > 1 /\ IsUnit(s, c) /\ c \in Nat \ {0}
      BY <1>2, <2>1 DEF Lexed, IsUnit
    <2>4. Quiet(s, c + 1)
      BY <1>9, <2>1, <2>2, <2>3
    <2>5. c \in Solid(s) => Peek \in {"B", "H"}
      BY <1>9, <2>1, <2>2, <2>3
    <2>6. CASE Peek = "H"
      <3>1. High(s, d + 1)
        BY <1>2, <2>2, <2>3, <2>6 DEF High
      <3>2. Pending(s, c + 1, at', d) /\ at' = "pair" /\ page' = page
        BY <2>1, <2>2, <2>6, <3>1 DEF Pending
      <3>3. \A i \in d + 1 .. d : FALSE
        OBVIOUS
      <3> QED BY <1>2, <1>7, <2>2, <3>2, <3>3
    <2>7. CASE Peek = "L"
      <3>1. Pending(s, c + 1, at', c + 1) /\ at' = "text" /\ page' = page
        BY <2>1, <2>7 DEF Pending
      <3>2. \A i \in d + 1 .. c + 1 : i = c \/ i = c + 1
        BY <2>2
      <3>3. c + 1 \in Nat /\ d <= c + 1 /\ s[c + 1] # "H" /\ c \notin Solid(s)
        BY <1>2, <2>2, <2>5, <2>7
      <3> QED BY <1>7, <2>2, <2>3, <2>4, <3>1, <3>2, <3>3
    <2>8. CASE Peek = "B"
      <3>1. Pending(s, c + 1, at', c + 1) /\ at' = "text" /\ page' = Written(page, <<"B">>)
        BY <2>1, <2>8 DEF Pending
      <3>2. \A i \in d + 1 .. c + 1 : i = c \/ i = c + 1
        BY <2>2
      <3>3. c \in Solid(s) /\ c \in d + 1 .. c + 1
        <4>1. c \in 2 .. Len(s) /\ c < Len(s) /\ s[c + 1] = "B" /\ c \in d + 1 .. c + 1
          BY <1>2, <2>2, <2>3, <2>8
        <4> QED BY <2>3, <4>1 DEF Solid
      <3>4. Sign(s, c) = "B"
        BY <1>3, <2>2, <2>3, <2>8, <3>3, SignIs
      <3>5. c + 1 \in Nat /\ d < c + 1 /\ s[c + 1] # "H"
        BY <1>2, <2>2, <2>8
      <3> QED BY <1>8, <2>2, <2>3, <2>4, <3>1, <3>2, <3>3, <3>4, <3>5
    <2> QED BY <2>1, <2>6, <2>7, <2>8 DEF Units
  (* A high surrogate is at d + 1, its digits are at d + 2.                *)
  <1>15. ASSUME High(s, d + 1), NEW g \in Nat, g = d + 2
         PROVE  /\ IsUnit(s, d + 1) /\ d + 1 < Len(s) /\ s[d + 2] = "H" /\ Quiet(s, d + 2)
                /\ ~Joined(s, d + 1) => d + 1 \notin Solid(s)
                /\ \A i \in d + 1 .. g : i = d + 1 \/ i = d + 2
    <2>1. IsUnit(s, d + 1) /\ d + 1 < Len(s) /\ s[d + 2] = "H" /\ d + 1 \in Nat \ {0}
      BY <1>2, <1>15 DEF High
    <2> QED BY <1>9, <1>15, <2>1 DEF Units
  (* It is no part of a pair.                                              *)
  <1>16. ASSUME High(s, d + 1), ~Joined(s, d + 1), AtEnd \/ Denied(s, d + 1), at' = "text",
                d + 2 = Len(s) - Len(pb'), page' = page
         PROVE  SpeechInv'
    <2>1. d + 2 \in Nat /\ d + 2 = d + 2 /\ d <= d + 2 /\ Pending(s, d + 2, at', d + 2)
      BY <1>16 DEF Pending
    <2>2. (d + 1) + 1 = d + 2
      OBVIOUS
    <2>3. \A i \in d + 1 .. d + 2 : Quiet(s, i) \/ (IsUnit(s, i) /\ i \notin Solid(s)
             /\ i < Len(s) /\ (s[i + 1] = "H" => Joined(s, i) \/ AtEnd \/ Denied(s, i)))
      BY <1>15, <1>16, <2>1
    <2> QED BY <1>7, <1>16, <2>1, <2>3
  <1>17. CASE Pair
    <2>1. /\ at = "pair"
          /\ Peek = "backslash" => Take /\ at' = "pairu" /\ page' = page
          /\ Peek # "backslash" => pb' = pb /\ at' = "text" /\ page' = page
      BY <1>17 DEF Pair, Looks, Goes, Keep
    <2>2. c = d + 2 /\ High(s, d + 1)
      BY <1>4, <2>1 DEF Pending
    <2>3. CASE Peek = "backslash"
      <3>1. pb # <<>> /\ Len(s) - Len(pb') = c + 1 /\ s[c + 1] = "backslash"
        BY <1>2, <1>6, <2>1, <2>3
      <3>2. Pending(s, c + 1, at', d) /\ at' = "pairu" /\ page' = page
        BY <2>1, <2>2, <2>3, <3>1 DEF Pending
      <3>3. \A i \in d + 1 .. d : FALSE
        OBVIOUS
      <3> QED BY <1>2, <1>7, <3>1, <3>2, <3>3
    <2>4. CASE Peek # "backslash"
      <3>1. IF pb = <<>> THEN AtEnd /\ Len(s) = d + 2 ELSE d + 3 <= Len(s) /\ s[d + 3] # "backslash"
        BY <1>2, <2>2, <2>4
      <3>2. ~Joined(s, d + 1) /\ (AtEnd \/ Denied(s, d + 1))
        BY <1>2, <3>1 DEF Joined, Denied
      <3>3. d + 2 = Len(s) - Len(pb')
        BY <2>1, <2>2, <2>4 DEF c
      <3> QED BY <1>16, <2>1, <2>2, <2>4, <3>2, <3>3
    <2> QED BY <2>3, <2>4
  <1>18. CASE PairU
    <2>1. /\ at = "pairu"
          /\ Peek = "u" => Take /\ at' = "low" /\ page' = page
          /\ Peek # "u" => pb' = Unget(pb, "backslash") /\ at' = "text" /\ page' = page
      BY <1>18 DEF PairU, Looks, Goes
    <2>2. c = d + 3 /\ High(s, d + 1) /\ s[c] = "backslash"
      BY <1>4, <2>1 DEF Pending
    <2>3. CASE Peek = "u"
      <3>1. pb # <<>> /\ Len(s) - Len(pb') = c + 1 /\ s[c + 1] = "u" /\ (c + 1) - 1 = c
        BY <1>2, <1>6, <2>1, <2>3
      <3>2. Pending(s, c + 1, at', d) /\ at' = "low" /\ page' = page
        BY <2>1, <2>2, <2>3, <3>1 DEF Pending
      <3>3. \A i \in d + 1 .. d : FALSE
        OBVIOUS
      <3> QED BY <1>2, <1>7, <3>1, <3>2, <3>3
    <2>4. CASE Peek # "u"
      <3>1. IF pb = <<>> THEN AtEnd /\ Len(s) = d + 3 ELSE d + 4 <= Len(s) /\ s[d + 4] # "u"
        BY <1>2, <2>2, <2>4
      <3>2. ~Joined(s, d + 1) /\ (AtEnd \/ Denied(s, d + 1))
        BY <1>2, <3>1 DEF Joined, Denied
      <3>3. Len(pb') = Len(pb) + 1
        BY <1>1, <2>1, <2>4, BackslashFits DEF c, s
      <3>4. d + 2 = Len(s) - Len(pb')
        BY <1>2, <2>2, <3>3 DEF c
      <3> QED BY <1>16, <2>1, <2>2, <2>4, <3>2, <3>4
    <2> QED BY <2>3, <2>4
  <1>19. CASE Low
    <2>1. /\ at = "low" /\ Peek \in Units /\ at' = "text"
          /\ Peek = "L" => Take /\ page' = Written(page, <<"HL">>)
          /\ Peek # "L" => pb' = UnreadEscape(Peek) /\ page' = page
      BY <1>19 DEF Low, Looks, Goes
    <2>2. c = d + 4 /\ High(s, d + 1) /\ s[c - 1] = "backslash" /\ s[c] = "u"
      BY <1>4, <2>1 DEF Pending
    <2>3. pb # <<>> /\ Peek = s[d + 5] /\ d + 5 <= Len(s)
      BY <1>2, <2>1, <2>2 DEF Units
    <2>4. s[d + 3] = "backslash" /\ s[d + 4] = "u"
      BY <2>2
    <2>5. CASE Peek = "L"
      <3>1. Joined(s, d + 1)
        <4>1. /\ (d + 1) + 2 = d + 3 /\ (d + 1) + 3 = d + 4 /\ (d + 1) + 4 = d + 5
              /\ s[d + 5] = "L"
          BY <2>3, <2>5
        <4> QED BY <2>3, <2>4, <4>1 DEF Joined
      <3>2. IsUnit(s, d + 4)
        BY <1>2, <2>1, <2>2 DEF Lexed, IsUnit
      <3>3. IsUnit(s, d + 1) /\ d + 1 < Len(s) /\ s[d + 2] = "H" /\ Quiet(s, d + 2)
        BY <1>15, <2>2
      <3>4. Quiet(s, d + 3)
        <4> DEFINE b == d + 2
        <4>1. b \in Nat \ {0} /\ s[b] # "backslash" /\ s[1] # "backslash"
          BY <1>3, <3>3
        <4> HIDE DEF b
        <4>2. ~Escaped(s, b + 1)
          BY <4>1, EscapedNext
        <4>3. b + 1 = d + 3 /\ d + 3 \in Nat \ {0}
          BY DEF b
        <4> QED BY <1>9, <2>4, <4>2, <4>3
      <3>5. Quiet(s, d + 5) /\ d + 4 \notin Solid(s)
        <4> DEFINE b == d + 4
        <4>1. b \in Nat \ {0} /\ IsUnit(s, b) /\ s[b + 1] = "L" /\ b + 1 = d + 5
          <5>1. b + 1 = d + 5 /\ b \in Nat \ {0}
            OBVIOUS
          <5>2. s[b + 1] = "L"
            BY <2>3, <2>5, <5>1
          <5> QED BY <3>2, <5>1, <5>2
        <4> HIDE DEF b
        <4>2. Quiet(s, b + 1) /\ b \notin Solid(s)
          BY <1>9, <4>1 DEF Units
        <4> QED BY <4>1, <4>2 DEF b
      <3>6. d + 1 \in Solid(s)
        BY <1>2, <2>2, <3>1, <3>3 DEF Solid, High
      <3>7. Sign(s, d + 1) = "HL" /\ page' = Written(page, <<Sign(s, d + 1)>>)
        <4>1. Sign(s, d + 1) = "HL"
          BY <1>3, <3>3, <3>6, SignIs
        <4> QED BY <2>1, <2>5, <4>1
      <3>8. Len(s) - Len(pb') = d + 5 /\ Pending(s, d + 5, at', d + 5)
        BY <1>6, <2>1, <2>2, <2>3, <2>5 DEF Pending
      <3>9. \A i \in d + 1 .. d + 5 : i \in {d + 1, d + 2, d + 3, d + 4, d + 5}
        OBVIOUS
      <3>10. \A j \in d + 1 .. d + 5 : j # d + 1 =>
               Quiet(s, j) \/ (IsUnit(s, j) /\ j \notin Solid(s)
                 /\ j < Len(s) /\ s[j + 1] # "H")
        <4>1. (d + 4) + 1 = d + 5 /\ s[d + 5] # "H" /\ d + 4 < Len(s)
          BY <1>2, <2>3, <2>5
        <4> QED BY <3>2, <3>3, <3>4, <3>5, <3>9, <4>1
      <3>11. d + 5 \in Nat /\ d < d + 5 /\ d + 1 \in d + 1 .. d + 5 /\ s[(d + 1) + 1] = "H"
        BY <3>3
      <3> QED BY <1>8, <2>1, <3>1, <3>3, <3>6, <3>7, <3>8, <3>10, <3>11
    <2>6. CASE Peek # "L"
      <3>1. ~Joined(s, d + 1) /\ Denied(s, d + 1)
        BY <2>3, <2>6 DEF Joined, Denied
      <3>2. Len(pb') = 3 /\ c = Len(s) - 1
        BY <1>1, <2>1, <2>6, EscapeFits DEF c, s
      <3>3. d + 2 = Len(s) - Len(pb')
        BY <1>2, <2>2, <3>2
      <3> QED BY <1>16, <2>1, <2>2, <2>6, <3>1, <3>3
    <2> QED BY <2>5, <2>6
  <1>20. CASE BadString
    <2>1. at' = "error" /\ seen' = seen /\ seen # <<>>
      BY <1>1, <1>20 DEF BadString, Fail, IsText
    <2> QED BY <2>1 DEF SpeechInv
  <1> QED BY <1>10, <1>11, <1>12, <1>13, <1>14, <1>17, <1>18, <1>19, <1>20 DEF Decode

LEMMA PendingKept ==
  ASSUME NEW S, NEW s \in Seq(S), NEW t \in S, NEW where, NEW d \in Nat,
         Pending(s, Len(s), where, d)
  PROVE  Pending(Append(s, t), Len(s), where, d) /\ d <= Len(s)
  <1> DEFINE v == Append(s, t)
             c == Len(s)
  <1>1. Len(v) = c + 1 /\ c \in Nat /\ \A k \in 1 .. c : v[k] = s[k]
    OBVIOUS
  <1> HIDE DEF v, c
  <1>2. d <= c
    BY <1>1 DEF Pending, c
  <1>3. High(s, d + 1) => High(v, d + 1)
    <2> SUFFICES ASSUME High(s, d + 1) PROVE High(v, d + 1)
      OBVIOUS
    <2> DEFINE u == d + 1
    <2>1. u \in 2 .. c - 1 /\ IsUnit(s, u) /\ s[u + 1] = "H" /\ u \in Int
      BY <1>1 DEF High, c
    <2> HIDE DEF u
    <2>2. /\ v[u] = s[u] /\ v[u + 1] = s[u + 1] /\ u \in 2 .. Len(v) - 1
          /\ \A k \in 1 .. u - 1 : s[k] = v[k]
      BY <1>1, <2>1
    <2>3. Escaped(s, u) <=> Escaped(v, u)
      BY <2>1, <2>2, EscapedKept
    <2>4. High(v, u)
      BY <2>1, <2>2, <2>3 DEF High, IsUnit
    <2> QED BY <2>4 DEF u
  <1>4. Pending(s, c, where, d)
    BY DEF c
  <1>5. c = d + 3 \/ c = d + 4 => v[c] = s[c] /\ v[c - 1] = s[c - 1]
    BY <1>1
  <1>6. Pending(v, c, where, d)
    BY <1>3, <1>4, <1>5 DEF Pending
  <1> QED BY <1>2, <1>6 DEF v, c

LEMMA FetchKeepsSpeech ==
  ASSUME DepthInv, TextInv, SpeechInv, Fetch PROVE SpeechInv'
  <1>1. pb = <<>> /\ ~AtEnd /\ at' = at /\ page' = page /\ Input = seen /\ seen' # <<>>
    BY FetchIs
  <1>2. PICK t \in Offered :
          /\ pb' = IF t = "EOF" THEN <<>> ELSE <<t>>
          /\ Input' = IF t = "EOF" THEN seen ELSE Append(seen, t)
          /\ AtEnd' <=> t = "EOF"
          /\ seen'[1] = IF seen = <<>> THEN t ELSE seen[1]
    BY FetchIs
  <1>3. at \notin {"ok", "error"}
    BY DEF Fetch
  <1> SUFFICES ASSUME IsText'
               PROVE  /\ page' \in Pages /\ page'.out = <<>>
                      /\ \E d \in Nat : /\ Pending(Input', Len(Input') - Len(pb'), at', d)
                                        /\ Settled(Input', d, AtEnd')
                                        /\ Drafted(Input', d, page'.line)
    BY <1>1, <1>3 DEF SpeechInv
  <1>4. CASE seen = <<>>
    <2>1. t = "quote" /\ at = "value" /\ page = [line |-> <<>>, out |-> <<>>]
      BY <1>2, <1>4 DEF IsText, TextInv, SpeechInv
    <2>2. Input' = <<"quote">> /\ pb' = <<"quote">>
      BY <1>2, <1>4, <2>1
    <2>3. Len(Input') = 1 /\ Len(Input') - Len(pb') = 0
      BY <2>2
    <2>4. page' \in Pages /\ page'.out = <<>> /\ page'.line = <<>>
      BY <1>1, <2>1 DEF Pages
    <2>5. Pending(Input', 0, at', 0) /\ Settled(Input', 0, AtEnd')
      BY <1>1, <2>1 DEF Pending, Settled
    <2>6. Drafted(Input', 0, <<>>)
      <3> DEFINE v == Input'
      <3>1. Len(v) = 1
        BY <2>3
      <3> HIDE DEF v
      <3>2. \A i \in Solid(v) \union Gaps(v) : i \in 2 .. 1
        BY <3>1 DEF Solid, Gaps
      <3>3. Voiced(v, 0) = {} /\ ~Hanging(v, 0)
        BY <3>2 DEF Voiced, Hanging
      <3>4. <<>> \in Seq(Glyphs) /\ Spells(v, {}, <<>>)
        BY SpellsNone
      <3> QED BY <3>3, <3>4 DEF Drafted, v
    <2>7. Drafted(Input', 0, page'.line)
      BY <2>4, <2>6
    <2>8. Pending(Input', Len(Input') - Len(pb'), at', 0)
      BY <2>3, <2>5
    <2> QED BY <2>4, <2>5, <2>7, <2>8
  <1>5. CASE seen # <<>>
    <2>1. IsText
      BY <1>2, <1>5 DEF IsText
    <2>2. seen \in Seq(Signs) /\ (t = "EOF" \/ t \in Signs)
      BY <1>1, <2>1 DEF Offered, Signs, Chars, TextInv, TextRead
    <2>3. Len(seen) \in Nat /\ Len(seen) - Len(pb) = Len(seen)
      <3>1. Len(seen) \in Nat
        <4> HIDE DEF Signs
        <4> QED BY <2>2
      <3> QED BY <1>1, <3>1
    <2>4. PICK d \in Nat : /\ Pending(seen, Len(seen), at, d)
                           /\ Settled(seen, d, FALSE) /\ Drafted(seen, d, page.line)
      <3>1. PICK d \in Nat : /\ Pending(seen, Len(seen) - Len(pb), at, d)
                             /\ Settled(seen, d, AtEnd) /\ Drafted(seen, d, page.line)
        BY <1>1, <1>3, <2>1 DEF SpeechInv
      <3>2. Settled(seen, d, FALSE)
        BY <1>1, <3>1 DEF Settled
      <3> QED BY <2>3, <3>1, <3>2
    <2>5. page' \in Pages /\ page'.out = <<>>
      BY <1>1, <1>3, <2>1 DEF SpeechInv
    <2>6. CASE t = "EOF"
      <3>1. Input' = seen /\ Len(Input') - Len(pb') = Len(seen)
        <4>1. Input' = seen /\ pb' = <<>>
          BY <1>2, <2>6
        <4> QED BY <2>3, <4>1
      <3>2. Settled(seen, d, AtEnd')
        BY <2>4 DEF Settled
      <3> QED BY <1>1, <2>4, <2>5, <3>1, <3>2
    <2>7. CASE t # "EOF"
      <3>1. Input' = Append(seen, t) /\ pb' = <<t>> /\ t \in Signs /\ AtEnd' \in BOOLEAN
        BY <1>2, <2>2, <2>7
      <3>2. Len(Input') - Len(pb') = Len(seen)
        <4>1. Len(Append(seen, t)) = Len(seen) + 1 /\ Len(<<t>>) = 1
          <5> HIDE DEF Signs
          <5> QED BY <2>2, <3>1
        <4> QED BY <2>3, <3>1, <4>1
      <3>3. Pending(Input', Len(seen), at', d) /\ d <= Len(seen)
        <4> HIDE DEF Signs
        <4> QED BY <1>1, <2>2, <2>4, <3>1, PendingKept
      <3>4. Drafted(Input', d, page'.line) /\ Settled(Input', d, AtEnd')
        <4> DEFINE l == page.line
                   whole == AtEnd'
        <4>1. Drafted(seen, d, l) /\ whole \in BOOLEAN
          BY <2>4, <3>1
        <4> HIDE DEF Signs, l, whole
        <4>2. Drafted(Append(seen, t), d, l) /\ Settled(Append(seen, t), d, whole)
          BY <2>2, <2>4, <3>1, <3>3, <4>1, DraftKept
        <4> QED BY <1>1, <3>1, <4>2 DEF l, whole
      <3> QED BY <2>5, <3>2, <3>3, <3>4
    <2> QED BY <2>6, <2>7
  <1> QED BY <1>4, <1>5

(* The line of the whole string is printed.                                *)
LEMMA SpeechEnds ==
  ASSUME NEW s \in Seq(Signs), NEW p \in Pages, p.out = <<>>, Drafted(s, Len(s), p.line)
  PROVE  Speech(s, FlushedPage(p).out)
  <1> DEFINE n == Len(s)
             l == p.line
             V == Voiced(s, n)
  <1>1. n \in Nat
    <2> HIDE DEF Signs
    <2> QED OBVIOUS
  <1>2. V = Solid(s) \union Gaps(s) /\ V \in SUBSET (1 .. n) /\ Solid(s) \subseteq 2 .. n
        /\ Gaps(s) \subseteq 2 .. n
    <2>1. Solid(s) \subseteq 2 .. n /\ Gaps(s) \subseteq 2 .. n
      BY <1>1, VoicedIs
    <2> QED BY <1>1, <2>1 DEF Voiced
  <1>3. l \in Seq(Glyphs) /\ Spells(s, V, l)
    BY DEF Drafted
  <1>4. ASSUME NEW e \in 0 .. n, Hanging(s, e), NEW i \in Gaps(s), i <= e
        PROVE  \E h \in Solid(s) : i < h /\ h <= e
    <2>1. PICK h \in Solid(s) : h <= e /\ \A k \in h + 1 .. e : ~IsLineEnd(s, k)
      BY <1>4 DEF Hanging
    <2>2. IsLineEnd(s, i) /\ ~IsLineEnd(s, h)
      BY SolidIs DEF Gaps
    <2>3. i \in Nat /\ h \in Nat /\ ~(i \in h + 1 .. e)
      BY <1>2, <2>1, <2>2
    <2>4. i < h
      BY <1>4, <2>2, <2>3
    <2> QED BY <2>1, <2>4
  <1>5. ASSUME NEW t \in Texts, l \in {t, t \o <<"blank">>},
               Spells(s, Spoken(s), t), Spoken(s) # {}
        PROVE  Speech(s, FlushedPage(p).out)
    <2>1. FlushedPage(p).out = Append(<<>>, t)
      BY <1>5, FlushedIs
    <2>2. FlushedPage(p).out = <<t>>
      BY <2>1
    <2>3. Len(<<t>>) = 1 /\ <<t>>[1] = t
      OBVIOUS
    <2> QED BY <1>5, <2>2, <2>3 DEF Speech
  <1> HIDE DEF n, l, V
  <1>6. CASE Hanging(s, n)
    <2>1. l \in Texts
      BY <1>6 DEF Drafted, n, l
    <2>2. Spoken(s) = V
      <3>1. \A i \in Gaps(s) : \E h \in Solid(s) : i < h
        BY <1>1, <1>2, <1>4, <1>6
      <3> QED BY <1>2, <3>1 DEF Spoken
    <2>3. V # {}
      BY <1>2, <1>6 DEF Hanging
    <2> QED BY <1>3, <1>5, <2>1, <2>2, <2>3
  <1>7. CASE l = <<>>
    <2>1. V = {}
      <3>1. Cardinality(V) = 0
        BY <1>3, <1>7 DEF Spells
      <3> QED BY <1>1, <1>2, <3>1, Ranks
    <2>2. Spoken(s) = {}
      BY <1>2, <2>1 DEF Spoken
    <2>3. FlushedPage(p) = p
      BY <1>7, FlushedEmpty DEF l
    <2> QED BY <2>2, <2>3 DEF Speech
  <1>8. CASE ~Hanging(s, n) /\ l # <<>>
    <2>1. PICK t \in Texts : l = Append(t, "blank")
      BY <1>8 DEF Drafted, n, l
    <2>2. t \in Seq(Glyphs) /\ "blank" \in Glyphs
      BY DEF Texts, Glyphs, Tokens, Marks
    <2>3. V # {}
      <3>1. Len(l) # 0
        <4>1. Len(Append(t, "blank")) = Len(t) + 1 /\ Len(t) \in Nat
          <5> HIDE DEF Glyphs
          <5> QED BY <2>2
        <4> QED BY <2>1, <4>1
      <3> QED BY <1>1, <1>2, <1>3, <3>1, Ranks DEF Spells
    <2>4. PICK m \in V : \A j \in V : j <= m
      BY <1>1, <1>2, <2>3, Greatest
    <2> DEFINE P == V \ {m}
    <2>5. /\ P \in SUBSET (1 .. n) /\ m \in Nat /\ V = P \union {m}
          /\ \A j \in P : j < m
      BY <1>2, <2>4
    <2> HIDE DEF P
    <2>6. Spells(s, P, t) /\ Sign(s, m) = "blank"
      <3>1. Spells(s, P \union {m}, Append(t, "blank"))
        BY <1>3, <2>1, <2>5
      <3> HIDE DEF Glyphs
      <3> QED BY <1>1, <2>2, <2>5, <3>1, SpellsLess
    <2>7. m \notin Solid(s) /\ m \in Gaps(s)
      BY <1>2, <2>6, SignIs
    <2>8. m - 1 \in 0 .. n /\ Hanging(s, m - 1)
      BY <1>1, <1>2, <2>7 DEF Gaps
    <2>9. Spoken(s) = P
      <3>1. ASSUME NEW i \in Gaps(s), i # m PROVE \E h \in Solid(s) : i < h
        <4>1. i \in P
          BY <1>2, <3>1 DEF P
        <4>2. i <= m - 1
          BY <1>1, <1>2, <2>5, <4>1
        <4> QED BY <1>4, <2>8, <4>2
      <3>2. \A h \in Solid(s) : ~(m < h)
        BY <1>1, <1>2, <2>4, <2>5
      <3> QED BY <1>2, <2>7, <3>1, <3>2 DEF Spoken, P
    <2>10. P # {}
      <3>1. PICK h \in Solid(s) : h <= m - 1
        BY <2>8 DEF Hanging
      <3> QED BY <1>2, <2>7, <3>1 DEF P
    <2>11. Append(t, "blank") = t \o <<"blank">>
      <3> HIDE DEF Glyphs
      <3> QED BY <2>2
    <2> QED BY <1>5, <2>1, <2>6, <2>9, <2>10, <2>11
  <1> QED BY <1>6, <1>7, <1>8

LEMMA ParseKeepsSpeech ==
  ASSUME DepthInv, TextInv, SpeechInv, IsText, Parse PROVE SpeechInv'
  <1>1. CASE End
    <2>1. Ready /\ at = "end" /\ Peek = "EOF" /\ at' = "ok" /\ seen' = seen
          /\ page' = FlushedPage(page)
      BY <1>1 DEF End, Looks
    <2>2. IsText' /\ Input' = Input /\ seen' # <<>>
      BY <2>1 DEF IsText, Input, AtEnd
    <2>3. Len(Input) - Len(pb) = Len(Input) /\ Input \in Seq(Signs)
      BY <2>1, PeekIs DEF TextInv, TextRead
    <2>4. Drafted(Input, Len(Input), page.line) /\ page \in Pages /\ page.out = <<>>
      BY <2>1, <2>3 DEF SpeechInv, Pending
    <2>5. Speech(Input, page'.out)
      <3> HIDE DEF Signs
      <3> QED BY <2>1, <2>3, <2>4, SpeechEnds
    <2> QED BY <2>1, <2>2, <2>5 DEF SpeechInv
  <1>2. CASE Trailing
    <2>1. at' = "error" /\ seen' = seen /\ seen # <<>>
      BY <1>2 DEF Trailing, Fail, IsText
    <2> QED BY <2>1 DEF SpeechInv
  <1> QED BY <1>1, <1>2, ParseEndsText

LEMMA SpeechStep ==
  ASSUME DepthInv, TextInv, SpeechInv, [ParserNext]_parserVars PROVE SpeechInv'
  <1>1. CASE Fetch
    BY <1>1, FetchKeepsSpeech
  <1>2. CASE Parse
    <2>1. Ready /\ seen' = seen
      BY <1>2 DEF Parse, SkipBlank, Open, TooDeep, Scalar, Literal, LiteralEnds, NoValue,
              FirstMember, Close, Key, Colon, NoMember, KeyValue, Element, Comma, NoComma, End,
              Trailing, Looks, Fail, ValueEnds, StartMember
    <2>2. seen # <<>>
      BY <2>1 DEF Ready, AtEnd, TextInv
    <2>3. CASE ~IsText
      BY <2>1, <2>2, <2>3 DEF IsText, SpeechInv
    <2> QED BY <1>2, <2>3, ParseKeepsSpeech
  <1>3. CASE Decode
    BY <1>3, DecodesText, DecodeKeepsSpeech
  <1>4. CASE UNCHANGED parserVars
    BY <1>4 DEF parserVars, SpeechInv, IsText, AtEnd, Input
  <1> QED BY <1>1, <1>2, <1>3, <1>4 DEF ParserNext, Stopped

(* A string that is accepted is printed character by character, however    *)
(* long it is and whatever its escapes: none is lost, none is printed      *)
(* twice, pairs of surrogates are joined, lone ones and line ends at its   *)
(* ends are dropped, whatever had to be put back on the way.               *)
THEOREM StringsArePrinted == ParserSpec => []PrintsTheString
  <1> DEFINE Speaking == DepthInv /\ TextInv /\ SpeechInv
  <1>1. ParserInit => Speaking
    BY DepthInit, TextInit DEF ParserInit, SpeechInv, IsText
  <1>2. Speaking /\ [ParserNext]_parserVars => Speaking'
    BY DepthStep, TextStep, SpeechStep
  <1>3. Speaking => PrintsTheString
    BY DEF SpeechInv, PrintsTheString
  <1> QED BY <1>1, <1>2, <1>3, PTL DEF ParserSpec
=============================================================================
