----------------------------- MODULE Lbuf_proofs -----------------------------
(***************************************************************************)
(* Undo and redo of the line buffer, and its flag "modified", for any      *)
(* texts, marks and bounds.                                                *)
(***************************************************************************)
EXTENDS Lbuf, SequenceTheorems, WellFoundedInduction, TLAPS

(* Past the first two of three parts.                                      *)
LEMMA PastBoth ==
  ASSUME NEW p \in Nat, NEW n \in Nat, NEW m \in Nat, NEW i \in 1 .. (p + n) + m,
         ~(i <= p + n)
  PROVE  i - (p + n) \in 1 .. m /\ ~(i <= p)
  OBVIOUS

LEMMA ConcatAt ==
  ASSUME NEW S, NEW u \in Seq(S), NEW v \in Seq(S), NEW i \in 1 .. Len(u) + Len(v),
         ~(i <= Len(u))
  PROVE  (u \o v)[i] = v[i - Len(u)]
  BY ConcatProperties

(* The lines before and after those that are replaced.                     *)
LEMMA FirstPart ==
  ASSUME NEW S, NEW ls \in Seq(S), NEW p \in Nat, p <= Len(ls)
  PROVE  /\ SubSeq(ls, 1, p) \in Seq(S)
         /\ Len(SubSeq(ls, 1, p)) = p
         /\ \A i \in 1 .. p : SubSeq(ls, 1, p)[i] = ls[i]
  <1>1. \A i \in 1 .. p : ls[i] \in S
    BY LenProperties, ElementOfSeq
  <1> QED
    BY <1>1, SubSeqProperties

LEMMA LastPart ==
  ASSUME NEW S, NEW ls \in Seq(S), NEW k \in Nat, k >= 1, k <= Len(ls) + 1
  PROVE  /\ SubSeq(ls, k, Len(ls)) \in Seq(S)
         /\ Len(SubSeq(ls, k, Len(ls))) = Len(ls) - k + 1
         /\ \A i \in 1 .. Len(ls) - k + 1 : SubSeq(ls, k, Len(ls))[i] = ls[k + i - 1]
  <1>1. /\ \A i \in k .. Len(ls) : ls[i] \in S
        /\ k \in Int /\ Len(ls) \in Int
    BY LenProperties, ElementOfSeq
  <1>2. /\ SubSeq(ls, k, Len(ls)) \in Seq(S)
        /\ Len(SubSeq(ls, k, Len(ls))) = IF k <= Len(ls) THEN Len(ls) - k + 1 ELSE 0
        /\ \A i \in 1 .. Len(ls) - k + 1 : SubSeq(ls, k, Len(ls))[i] = ls[k + i - 1]
    BY <1>1, SubSeqProperties
  <1>3. (IF k <= Len(ls) THEN Len(ls) - k + 1 ELSE 0) = Len(ls) - k + 1
    BY <1>1
  <1> QED
    BY <1>2, <1>3

(* Three parts in a row.                                                   *)
LEMMA PartsLen ==
  ASSUME NEW S, NEW a \in Seq(S), NEW t \in Seq(S), NEW c \in Seq(S)
  PROVE  /\ (a \o t) \o c \in Seq(S)
         /\ Len((a \o t) \o c) = Len(a) + Len(t) + Len(c)
  <1>1. a \o t \in Seq(S) /\ Len(a \o t) = Len(a) + Len(t)
    BY ConcatProperties
  <1>2. (a \o t) \o c \in Seq(S) /\ Len((a \o t) \o c) = Len(a \o t) + Len(c)
    BY <1>1, ConcatProperties
  <1> QED
    BY <1>1, <1>2

LEMMA PartsLine ==
  ASSUME NEW S, NEW a \in Seq(S), NEW t \in Seq(S), NEW c \in Seq(S),
         NEW i \in 1 .. Len(a) + Len(t) + Len(c)
  PROVE  /\ i <= Len(a) => ((a \o t) \o c)[i] = a[i]
         /\ (i > Len(a) /\ i <= Len(a) + Len(t)) => ((a \o t) \o c)[i] = t[i - Len(a)]
         /\ i > Len(a) + Len(t) => ((a \o t) \o c)[i] = c[i - (Len(a) + Len(t))]
  <1>1. a \o t \in Seq(S) /\ Len(a \o t) = Len(a) + Len(t)
    BY ConcatProperties
  <1>2. Len(a) \in Nat /\ Len(t) \in Nat /\ Len(c) \in Nat /\ i \in Int
    BY LenProperties
  <1>3. i \in 1 .. Len(a \o t) + Len(c)
    BY <1>1
  <1>4. ASSUME i <= Len(a) + Len(t)
        PROVE  ((a \o t) \o c)[i] = (a \o t)[i]
    <2>1. i <= Len(a \o t)
      BY <1>1, <1>4
    <2> QED
      BY <2>1, <1>1, <1>3, ConcatProperties
  <1>5. ASSUME i <= Len(a)
        PROVE  ((a \o t) \o c)[i] = a[i]
    <2>1. i <= Len(a) + Len(t) /\ i \in 1 .. Len(a) + Len(t)
      BY <1>5, <1>2
    <2>2. (a \o t)[i] = a[i]
      BY <2>1, <1>5, ConcatProperties
    <2> QED
      BY <2>1, <2>2, <1>4
  <1>6. ASSUME i > Len(a), i <= Len(a) + Len(t)
        PROVE  ((a \o t) \o c)[i] = t[i - Len(a)]
    <2>1. i \in 1 .. Len(a) + Len(t) /\ ~(i <= Len(a))
      BY <1>6, <1>2
    <2>2. (a \o t)[i] = t[i - Len(a)]
      BY <2>1, ConcatAt
    <2> QED
      BY <2>2, <1>4, <1>6
  <1>7. ASSUME i > Len(a) + Len(t)
        PROVE  ((a \o t) \o c)[i] = c[i - (Len(a) + Len(t))]
    <2>1. ~(i <= Len(a) + Len(t))
      BY <1>7, <1>2
    <2>2. ~(i <= Len(a \o t))
      BY <2>1, <1>1
    <2>3. ((a \o t) \o c)[i] = c[i - Len(a \o t)]
      BY <2>2, <1>1, <1>3, ConcatAt
    <2> QED
      BY <2>3, <1>1
  <1> QED
    BY <1>5, <1>6, <1>7

(* What a text is as lines.                                                *)
LEMMA LinesOfText ==
  ASSUME NEW s \in Seq(Line) \cup {NoText}
  PROVE  LinesOf(s) \in Seq(Line) /\ Len(LinesOf(s)) \in Nat
         /\ (s # NoText => LinesOf(s) = s) /\ (s = NoText => Len(LinesOf(s)) = 0)
  BY LenProperties DEF LinesOf

LEMMA ReplacedLen ==
  ASSUME NEW ls \in Seq(Line), NEW s \in Seq(Line) \cup {NoText},
         NEW pos \in Nat, NEW nDel \in Nat, pos + nDel <= Len(ls)
  PROVE  /\ Replace(ls, s, pos, nDel) \in Seq(Line)
         /\ Len(Replace(ls, s, pos, nDel)) = Len(ls) - nDel + Len(LinesOf(s))
         /\ Len(Replace(ls, s, pos, nDel)) \in Nat
         /\ Len(LinesOf(s)) \in Nat /\ Len(ls) \in Nat
  <1> DEFINE a == SubSeq(ls, 1, pos)
             t == LinesOf(s)
             k == pos + nDel + 1
             c == SubSeq(ls, k, Len(ls))
  <1>1. t \in Seq(Line) /\ Len(t) \in Nat /\ Len(ls) \in Nat
    BY LinesOfText, LenProperties
  <1>2. k \in Nat /\ k >= 1 /\ k <= Len(ls) + 1 /\ pos <= Len(ls)
    BY <1>1
  <1>3. Len(ls) - k + 1 = Len(ls) - nDel - pos
    BY <1>1
  <1>4. Replace(ls, s, pos, nDel) = (a \o t) \o c
    BY DEF Replace
  <1> HIDE DEF t, k
  <1>5. a \in Seq(Line) /\ Len(a) = pos
    BY <1>2, FirstPart
  <1>6. c \in Seq(Line) /\ Len(c) = Len(ls) - nDel - pos
    BY <1>2, <1>3, LastPart
  <1> HIDE DEF a, c
  <1>s. a \in Seq(Line) /\ t \in Seq(Line) /\ c \in Seq(Line)
    BY <1>1, <1>5, <1>6
  <1>7. (a \o t) \o c \in Seq(Line) /\ Len((a \o t) \o c) = Len(a) + Len(t) + Len(c)
    BY <1>s, PartsLen
  <1>8. pos + Len(t) + (Len(ls) - nDel - pos) = Len(ls) - nDel + Len(t)
    BY <1>1
  <1>9. Len(Replace(ls, s, pos, nDel)) \in Nat
    BY <1>7, <1>4, LenProperties
  <1> QED
    BY <1>1, <1>4, <1>5, <1>6, <1>7, <1>8, <1>9 DEF t

LEMMA ReplacedLine ==
  ASSUME NEW ls \in Seq(Line), NEW s \in Seq(Line) \cup {NoText},
         NEW pos \in Nat, NEW nDel \in Nat, pos + nDel <= Len(ls),
         NEW i \in 1 .. Len(Replace(ls, s, pos, nDel))
  PROVE  /\ i <= pos => Replace(ls, s, pos, nDel)[i] = ls[i]
         /\ (i > pos /\ i <= pos + Len(LinesOf(s))) =>
              Replace(ls, s, pos, nDel)[i] = LinesOf(s)[i - pos]
         /\ i > pos + Len(LinesOf(s)) =>
              Replace(ls, s, pos, nDel)[i] = ls[i - Len(LinesOf(s)) + nDel]
  <1> DEFINE a == SubSeq(ls, 1, pos)
             t == LinesOf(s)
             k == pos + nDel + 1
             c == SubSeq(ls, k, Len(ls))
             r == Replace(ls, s, pos, nDel)
  <1>1. t \in Seq(Line) /\ Len(t) \in Nat /\ Len(ls) \in Nat
    BY LinesOfText, LenProperties
  <1>2. k \in Nat /\ k >= 1 /\ k <= Len(ls) + 1 /\ pos <= Len(ls)
    BY <1>1
  <1>3. Len(ls) - k + 1 = Len(ls) - nDel - pos
    BY <1>1
  <1>4. r = (a \o t) \o c
    BY DEF Replace
  <1>k. k = pos + nDel + 1
    OBVIOUS
  <1>l. Len(r) = Len(ls) - nDel + Len(t)
    BY ReplacedLen
  <1> HIDE DEF t, k, r
  <1>5. a \in Seq(Line) /\ Len(a) = pos /\ \A j \in 1 .. pos : a[j] = ls[j]
    BY <1>2, FirstPart
  <1>6. c \in Seq(Line) /\ Len(c) = Len(ls) - k + 1
    BY <1>2, LastPart
  <1>7. \A j \in 1 .. Len(ls) - k + 1 : c[j] = ls[k + j - 1]
    BY <1>2, LastPart
  <1> HIDE DEF a, c
  <1>i. i \in 1 .. Len(ls) - nDel + Len(t) /\ i \in Int
    BY <1>l DEF r
  <1>8. i \in 1 .. pos + Len(t) + (Len(ls) - nDel - pos)
    BY <1>i, <1>1
  <1>9. i \in 1 .. Len(a) + Len(t) + Len(c)
    BY <1>8, <1>3, <1>5, <1>6
  <1>10. ASSUME i <= pos
         PROVE  r[i] = ls[i]
    <2>1. r[i] = a[i]
      BY <1>1, <1>4, <1>5, <1>6, <1>9, <1>10, PartsLine, SMTT(60)
    <2> QED
      BY <2>1, <1>5, <1>i, <1>10
  <1>11. ASSUME i > pos, i <= pos + Len(t)
         PROVE  r[i] = t[i - pos]
    BY <1>1, <1>4, <1>5, <1>6, <1>9, <1>11, PartsLine, SMTT(60)
  <1>12. ASSUME i > pos + Len(t)
         PROVE  r[i] = ls[i - Len(t) + nDel]
    <2>1. r[i] = c[i - (pos + Len(t))]
      BY <1>1, <1>4, <1>5, <1>6, <1>9, <1>12, PartsLine, SMTT(60)
    <2>2. i - (pos + Len(t)) \in 1 .. Len(ls) - k + 1
      BY <1>1, <1>8, <1>i, <1>k, <1>12
    <2>3. k + (i - (pos + Len(t))) - 1 = i - Len(t) + nDel
      BY <1>1, <1>i, <1>k
    <2> QED
      BY <2>1, <2>2, <2>3, <1>7
  <1> QED
    BY <1>10, <1>11, <1>12 DEF r, t

(* Putting the deleted lines back in the place of the inserted ones.       *)
LEMMA ReplaceBack ==
  ASSUME NEW ls \in Seq(Line), NEW s \in Seq(Line) \cup {NoText},
         NEW d \in Seq(Line) \cup {NoText},
         NEW pos \in Nat, pos + Len(LinesOf(d)) <= Len(ls),
         \A i \in 1 .. Len(LinesOf(d)) : LinesOf(d)[i] = ls[pos + i]
  PROVE  LET r == Replace(ls, s, pos, Len(LinesOf(d))) IN
         /\ ls = Replace(r, d, pos, Len(LinesOf(s)))
         /\ pos + Len(LinesOf(s)) <= Len(r)
  <1> DEFINE n == Len(LinesOf(s))
             m == Len(LinesOf(d))
             r == Replace(ls, s, pos, m)
             q == Replace(r, d, pos, n)
  <1>0. n \in Nat /\ m \in Nat
    BY LinesOfText
  <1>a. pos + m <= Len(ls)
    OBVIOUS
  <1>1. /\ r \in Seq(Line) /\ Len(r) = Len(ls) - m + n
        /\ Len(ls) \in Nat /\ Len(r) \in Nat
    BY <1>0, ReplacedLen
  <1>2. pos + n <= Len(r)
    <2> HIDE DEF n, m, r
    <2> QED
      BY <1>0, <1>1, <1>a
  <1>6. ASSUME NEW i \in 1 .. Len(r)
        PROVE  /\ i <= pos => r[i] = ls[i]
               /\ i > pos + n => r[i] = ls[i - n + m]
    BY <1>0, ReplacedLine
  <1>b. r \in Seq(Line)
    BY <1>1
  <1> HIDE DEF r
  <1>3. q \in Seq(Line) /\ Len(q) = Len(r) - n + m
    BY <1>0, <1>b, <1>2, ReplacedLen, ZenonT(60)
  <1>4. \A i \in 1 .. m : LinesOf(d)[i] = ls[pos + i]
    OBVIOUS
  <1>5. ASSUME NEW i \in 1 .. Len(q)
        PROVE  /\ i <= pos => q[i] = r[i]
               /\ (i > pos /\ i <= pos + m) => q[i] = LinesOf(d)[i - pos]
               /\ i > pos + m => q[i] = r[i - m + n]
    BY <1>0, <1>b, <1>2, ReplacedLine
  <1> HIDE DEF n, m
  <1> HIDE DEF q
  <1>7. Len(q) = Len(ls)
    BY <1>0, <1>1, <1>3
  <1>8. ASSUME NEW i \in 1 .. Len(q)
        PROVE  q[i] = ls[i]
    <2>0. /\ i <= pos => q[i] = r[i]
          /\ (i > pos /\ i <= pos + m) => q[i] = LinesOf(d)[i - pos]
          /\ i > pos + m => q[i] = r[i - m + n]
      BY <1>5
    <2>1. CASE i <= pos
      <3>1. i \in 1 .. Len(r)
        BY <1>0, <1>1, <1>2, <1>3, <2>1
      <3>2. r[i] = ls[i]
        BY <3>1, <2>1, <1>6
      <3> QED
        BY <2>1, <3>2, <2>0
    <2>2. CASE i > pos /\ i <= pos + m
      <3>1. i - pos \in 1 .. m /\ pos + (i - pos) = i
        BY <2>2, <1>0
      <3>2. LinesOf(d)[i - pos] = ls[pos + (i - pos)]
        BY <3>1, <1>4
      <3> QED
        BY <2>2, <3>1, <3>2, <2>0
    <2>3. CASE i > pos + m
      <3>1. /\ i - m + n \in 1 .. Len(r)
            /\ i - m + n > pos + n
            /\ (i - m + n) - n + m = i
        BY <2>3, <1>0, <1>1, <1>7
      <3>2. r[i - m + n] = ls[(i - m + n) - n + m]
        BY <3>1, <1>6
      <3> QED
        BY <3>1, <3>2, <2>3, <2>0
    <2> QED
      BY <2>1, <2>2, <2>3, <1>0
  <1>9. q = ls
    BY <1>1, <1>3, <1>7, <1>8, SeqEqual
  <1> QED
    BY <1>2, <1>9 DEF q, n, m, r

(* Replacing again what has replaced nDel lines.                           *)
LEMMA ReplaceTwice ==
  ASSUME NEW ls \in Seq(Line), NEW t \in Seq(Line) \cup {NoText},
         NEW s \in Seq(Line) \cup {NoText},
         NEW pos \in Nat, NEW nDel \in Nat, pos + nDel <= Len(ls)
  PROVE  LET r == Replace(ls, t, pos, nDel) IN
         /\ Replace(r, s, pos, Len(LinesOf(t))) = Replace(ls, s, pos, nDel)
         /\ pos + Len(LinesOf(t)) <= Len(r)
  <1> DEFINE n == Len(LinesOf(t))
             m == Len(LinesOf(s))
             r == Replace(ls, t, pos, nDel)
             q == Replace(r, s, pos, n)
             p == Replace(ls, s, pos, nDel)
  <1>0. n \in Nat /\ m \in Nat
    BY LinesOfText
  <1>1. /\ r \in Seq(Line) /\ Len(r) = Len(ls) - nDel + n
        /\ Len(ls) \in Nat /\ Len(r) \in Nat
    BY ReplacedLen
  <1>2. pos + n <= Len(r)
    <2> HIDE DEF n, r
    <2> QED
      BY <1>0, <1>1
  <1>6. ASSUME NEW i \in 1 .. Len(r)
        PROVE  /\ i <= pos => r[i] = ls[i]
               /\ i > pos + n => r[i] = ls[i - n + nDel]
    BY ReplacedLine
  <1>b. r \in Seq(Line)
    BY <1>1
  <1> HIDE DEF r
  <1>3. q \in Seq(Line) /\ Len(q) = Len(r) - n + m
    BY <1>0, <1>b, <1>2, ReplacedLen
  <1>7. p \in Seq(Line) /\ Len(p) = Len(ls) - nDel + m
    BY ReplacedLen
  <1>4. ASSUME NEW i \in 1 .. Len(q)
        PROVE  /\ i <= pos => q[i] = r[i]
               /\ (i > pos /\ i <= pos + m) => q[i] = LinesOf(s)[i - pos]
               /\ i > pos + m => q[i] = r[i - m + n]
    BY <1>0, <1>b, <1>2, ReplacedLine
  <1>5. ASSUME NEW i \in 1 .. Len(p)
        PROVE  /\ i <= pos => p[i] = ls[i]
               /\ (i > pos /\ i <= pos + m) => p[i] = LinesOf(s)[i - pos]
               /\ i > pos + m => p[i] = ls[i - m + nDel]
    BY ReplacedLine
  <1> HIDE DEF n, m, p, q
  <1>11. Len(q) = Len(p)
    BY <1>0, <1>1, <1>3, <1>7
  <1>12. ASSUME NEW i \in 1 .. Len(q)
         PROVE  q[i] = p[i]
    <2>1. i \in 1 .. Len(p) /\ i \in Int
      BY <1>11
    <2>a. /\ i <= pos => q[i] = r[i]
          /\ (i > pos /\ i <= pos + m) => q[i] = LinesOf(s)[i - pos]
          /\ i > pos + m => q[i] = r[i - m + n]
      BY <1>4
    <2>b. /\ i <= pos => p[i] = ls[i]
          /\ (i > pos /\ i <= pos + m) => p[i] = LinesOf(s)[i - pos]
          /\ i > pos + m => p[i] = ls[i - m + nDel]
      BY <1>5, <2>1
    <2>2. CASE i <= pos
      <3>1. i \in 1 .. Len(r)
        BY <2>2, <1>0, <1>1, <1>2, <1>3
      <3>2. r[i] = ls[i]
        BY <3>1, <2>2, <1>6
      <3> QED
        BY <2>2, <3>2, <2>a, <2>b
    <2>3. CASE i > pos /\ i <= pos + m
      BY <2>3, <2>a, <2>b
    <2>4. CASE i > pos + m
      <3>1. /\ i - m + n \in 1 .. Len(r)
            /\ i - m + n > pos + n
            /\ (i - m + n) - n + nDel = i - m + nDel
        BY <2>4, <1>0, <1>1, <1>3
      <3>2. r[i - m + n] = ls[(i - m + n) - n + nDel]
        BY <3>1, <1>6
      <3> QED
        BY <3>1, <3>2, <2>4, <2>a, <2>b
    <2> QED
      BY <2>1, <2>2, <2>3, <2>4, <1>0
  <1>13. q = p
    BY <1>3, <1>7, <1>11, <1>12, SeqEqual
  <1> QED
    BY <1>2, <1>13 DEF p, q, n, r

(* The case of lbuf_opt: a line in place of the one put there before.      *)
LEMMA ReplaceLineTwice ==
  ASSUME NEW ls \in Seq(Line), NEW t \in Seq(Line) \cup {NoText},
         NEW s \in Seq(Line) \cup {NoText},
         NEW pos \in Nat, NEW nDel \in Nat, pos + nDel <= Len(ls), Len(LinesOf(t)) = 1
  PROVE  /\ Replace(Replace(ls, t, pos, nDel), s, pos, 1) = Replace(ls, s, pos, nDel)
         /\ pos + 1 <= Len(Replace(ls, t, pos, nDel))
  <1>1. /\ Replace(Replace(ls, t, pos, nDel), s, pos, Len(LinesOf(t))) = Replace(ls, s, pos, nDel)
        /\ pos + Len(LinesOf(t)) <= Len(Replace(ls, t, pos, nDel))
    BY ReplaceTwice, ZenonT(60)
  <1> QED
    BY <1>1

(* A sequence cut after n elements and continued by one.                   *)
LEMMA CutAppend ==
  ASSUME NEW S, NEW q \in Seq(S), NEW n \in 0 .. Len(q), NEW e \in S,
         NEW r, r = Append(SubSeq(q, 1, n), e)
  PROVE  /\ r \in Seq(S) /\ Len(r) = n + 1
         /\ \A i \in 1 .. n : r[i] = q[i]
         /\ r[n + 1] = e
  <1> DEFINE c == SubSeq(q, 1, n)
  <1>1. c \in Seq(S) /\ Len(c) = n /\ \A i \in 1 .. n : c[i] = q[i]
    <2>1. \A i \in 1 .. n : q[i] \in S
      BY ElementOfSeq, LenProperties
    <2>2. n \in Nat
      BY LenProperties
    <2> QED
      BY <2>1, <2>2, SubSeqProperties
  <1> HIDE DEF c
  <1> QED
    BY <1>1, AppendProperties DEF c

-----------------------------------------------------------------------------
(* The inductive invariant.  An operation of the history takes the text    *)
(* before it to the text after it, and its undo goes back; the marks it    *)
(* keeps are in the lines it deleted.                                      *)

Linked(e, before, after) ==
  /\ e.pos + e.nDel <= Len(before) /\ after = Replace(before, e.ins, e.pos, e.nDel)
  /\ e.pos + e.nIns <= Len(after)  /\ before = Replace(after, e.del, e.pos, e.nIns)
  /\ e.nIns = Len(LinesOf(e.ins))
  /\ \A x \in Letters : e.mark[x] = -1 \/ (e.mark[x] >= e.pos /\ e.mark[x] < e.pos + e.nDel)

AllLinked == \A i \in 1 .. Len(hist) : Linked(hist[i], snap[i], snap[i + 1])

EditTypes ==
  /\ ln \in Seq(Line)
  /\ hist \in Seq(HistEntry) /\ histU \in 0 .. Len(hist)
  /\ useq \in Nat /\ mark \in [Letters -> Int]
  /\ loop \in {"no", "undo", "redo"} /\ group \in Nat
  /\ from \in 0 .. Len(hist) /\ (loop = "no" => from = 0)
  /\ snap \in Seq(Seq(Line)) /\ Len(snap) = Len(hist) + 1

SaveTypes ==
  /\ saved \in Seq(Line) /\ useqZero \in Nat /\ useqLast \in Nat /\ savedIn \in Nat

MarksIn == \A x \in Letters : mark[x] >= -1 /\ mark[x] < Len(ln)

EditInv ==
  /\ EditTypes /\ Whole(ln) /\ ln = snap[histU + 1] /\ AllLinked /\ MarksIn

IInv == ragged \in BOOLEAN /\ (~ragged => EditInv /\ SaveTypes)

-----------------------------------------------------------------------------
(* What lbuf_opt keeps are the lines that go.                              *)
LEMMA DeletedLines ==
  ASSUME ln \in Seq(Line), Whole(ln), NEW pos \in Nat, NEW nDel \in Nat,
         pos + nDel <= Len(ln)
  PROVE  /\ Deleted(pos, nDel) \in Seq(Line) \cup {NoText}
         /\ Len(LinesOf(Deleted(pos, nDel))) = nDel
         /\ \A i \in 1 .. nDel : LinesOf(Deleted(pos, nDel))[i] = ln[pos + i]
  <1>1. CASE nDel = 0
    <2>1. Deleted(pos, nDel) = NoText
      BY <1>1 DEF Deleted
    <2> QED
      BY <1>1, <2>1, LinesOfText
  <1>2. CASE nDel # 0
    <2> DEFINE d == SubSeq(ln, pos + 1, pos + nDel)
    <2>1. /\ \A i \in pos + 1 .. pos + nDel : ln[i] \in Line
          /\ pos + 1 \in Int /\ pos + nDel \in Int /\ pos + 1 <= pos + nDel
          /\ (pos + nDel) - (pos + 1) + 1 = nDel
      BY <1>2, ElementOfSeq, LenProperties
    <2>2. d \in Seq(Line) /\ Len(d) = (pos + nDel) - (pos + 1) + 1
      BY <2>1, SubSeqProperties
    <2>3. \A i \in 1 .. (pos + nDel) - (pos + 1) + 1 : d[i] = ln[(pos + 1) + i - 1]
      BY <2>1, SubSeqProperties
    <2> HIDE DEF d
    <2>4. ASSUME NEW i \in 1 .. nDel
          PROVE  d[i] = ln[pos + i]
      <3>1. (pos + 1) + i - 1 = pos + i
        OBVIOUS
      <3> QED
        BY <2>1, <2>3, <3>1
    <2>5. Whole(d)
      <3> SUFFICES ASSUME NEW i \in 1 .. Len(d) - 1
                   PROVE  d[i].nl
        BY DEF Whole
      <3>1. i \in 1 .. nDel /\ pos + i \in 1 .. Len(ln) - 1
        BY <2>1, <2>2, LenProperties
      <3>2. ln[pos + i].nl
        BY <3>1 DEF Whole
      <3> QED
        BY <3>1, <3>2, <2>4
    <2>6. Deleted(pos, nDel) = d
      BY <1>2, <2>5 DEF Deleted, Copy, d
    <2>7. d # NoText
      BY <2>2, TextsAssumption
    <2>8. LinesOf(d) = d
      BY <2>7 DEF LinesOf
    <2> QED
      BY <2>1, <2>2, <2>4, <2>6, <2>8
  <1> QED
    BY <1>1, <1>2

(* Where a mark may go.                                                    *)
LEMMA MovedInRange ==
  ASSUME NEW ls \in Seq(Line), NEW s \in Seq(Line) \cup {NoText},
         NEW pos \in Nat, NEW nDel \in Nat, pos + nDel <= Len(ls),
         NEW k \in Int, k >= -1, k < Len(ls)
  PROVE  /\ MovedLine(k, s, pos, nDel) \in Int
         /\ MovedLine(k, s, pos, nDel) >= -1
         /\ MovedLine(k, s, pos, nDel) < Len(Replace(ls, s, pos, nDel))
  <1> DEFINE n == Len(LinesOf(s))
             r == Len(Replace(ls, s, pos, nDel))
  <1>1. n \in Nat /\ Len(ls) \in Nat /\ r = Len(ls) - nDel + n
    BY ReplacedLen
  <1>2. MovedLine(k, s, pos, nDel) =
          IF s = NoText /\ k >= pos /\ k < pos + nDel THEN -1
          ELSE IF k >= pos + nDel THEN k + n - nDel
          ELSE IF k >= pos + n THEN pos + n - 1
          ELSE k
    BY DEF MovedLine
  <1> HIDE DEF n, r
  <1> QED
    BY <1>1, <1>2 DEF r

(* The entry that lbuf_opt makes.                                          *)
LEMMA EntryLinked ==
  ASSUME EditInv, NEW s \in Seq(Line) \cup {NoText}, NEW pos \in Nat, NEW nDel \in Nat,
         pos + nDel <= Len(ln)
  PROVE  /\ Entry(s, pos, nDel) \in HistEntry
         /\ Linked(Entry(s, pos, nDel), ln, Replace(ln, s, pos, nDel))
  <1> DEFINE e == Entry(s, pos, nDel)
             new == Replace(ln, s, pos, nDel)
  <1>0. ln \in Seq(Line) /\ Whole(ln) /\ mark \in [Letters -> Int] /\ useq \in Nat
    BY DEF EditInv, EditTypes
  <1>1. /\ Deleted(pos, nDel) \in Seq(Line) \cup {NoText}
        /\ Len(LinesOf(Deleted(pos, nDel))) = nDel
        /\ \A i \in 1 .. nDel : LinesOf(Deleted(pos, nDel))[i] = ln[pos + i]
    BY <1>0, DeletedLines
  <1>2. /\ e.pos = pos /\ e.nDel = nDel /\ e.nIns = Len(LinesOf(s)) /\ e.ins = s
        /\ e.del = Deleted(pos, nDel) /\ e.mark = SavedMarks(mark, pos, nDel)
    BY DEF Entry
  <1>3. ASSUME NEW x \in Letters
        PROVE  e.mark[x] = -1 \/ (e.mark[x] >= pos /\ e.mark[x] < pos + nDel)
    BY <1>2 DEF SavedMarks
  <1>4. e \in HistEntry
    <2>1. SavedMarks(mark, pos, nDel) \in [Letters -> Int]
      BY <1>0 DEF SavedMarks
    <2>2. Len(LinesOf(s)) \in Nat
      BY LinesOfText
    <2> QED
      BY <1>0, <1>1, <2>1, <2>2 DEF Entry, HistEntry
  <1>5. ln = Replace(new, e.del, pos, e.nIns) /\ pos + e.nIns <= Len(new)
    <2> DEFINE d == Deleted(pos, nDel)
    <2> HIDE DEF d, e, new
    <2>1. /\ pos + Len(LinesOf(d)) <= Len(ln)
          /\ \A i \in 1 .. Len(LinesOf(d)) : LinesOf(d)[i] = ln[pos + i]
          /\ d \in Seq(Line) \cup {NoText}
      BY <1>1 DEF d
    <2>2. /\ ln = Replace(Replace(ln, s, pos, Len(LinesOf(d))), d, pos, Len(LinesOf(s)))
          /\ pos + Len(LinesOf(s)) <= Len(Replace(ln, s, pos, Len(LinesOf(d))))
      BY <2>1, <1>0, ReplaceBack
    <2> QED
      BY <2>2, <1>1, <1>2 DEF d, new
  <1> HIDE DEF e, new
  <1>6. Linked(e, ln, new)
    BY <1>2, <1>3, <1>5 DEF Linked, new
  <1> QED
    BY <1>4, <1>6 DEF e, new

(* The entry into which lbuf_opt merges a change of one line.              *)
LEMMA MergedLinked ==
  ASSUME NEW e \in HistEntry, NEW before \in Seq(Line), NEW ls \in Seq(Line),
         Linked(e, before, ls), e.nIns = 1,
         NEW s \in Seq(Line) \cup {NoText}, Len(LinesOf(s)) = 1
  PROVE  Linked([e EXCEPT !.ins = s], before, Replace(ls, s, e.pos, 1))
  <1> DEFINE new == Replace(ls, s, e.pos, 1)
             f == [e EXCEPT !.ins = s]
  <1>1. /\ f.pos = e.pos /\ f.nDel = e.nDel /\ f.nIns = e.nIns /\ f.ins = s
        /\ f.del = e.del /\ f.mark = e.mark
    BY DEF HistEntry
  <1>2. /\ e.pos \in Nat /\ e.nDel \in Nat /\ e.ins \in Seq(Line) \cup {NoText}
        /\ e.del \in Seq(Line) \cup {NoText}
    BY DEF HistEntry
  <1>3. /\ e.pos + e.nDel <= Len(before) /\ ls = Replace(before, e.ins, e.pos, e.nDel)
        /\ e.pos + 1 <= Len(ls) /\ before = Replace(ls, e.del, e.pos, 1)
        /\ Len(LinesOf(e.ins)) = 1
        /\ \A x \in Letters : e.mark[x] = -1 \/ (e.mark[x] >= e.pos /\ e.mark[x] < e.pos + e.nDel)
    BY DEF Linked
  <1>a. e.pos + e.nDel <= Len(before) /\ e.pos + 1 <= Len(ls) /\ 1 \in Nat
    BY <1>3
  <1>b. Len(LinesOf(e.ins)) = 1
    BY <1>3
  <1>4. Replace(ls, s, e.pos, 1) = Replace(before, s, e.pos, e.nDel)
    <2>1. Replace(Replace(before, e.ins, e.pos, e.nDel), s, e.pos, 1)
            = Replace(before, s, e.pos, e.nDel)
      BY <1>2, <1>a, <1>b, ReplaceLineTwice, SMTT(30)
    <2> QED
      BY <2>1, <1>3
  <1>5. /\ Replace(new, e.del, e.pos, 1) = Replace(ls, e.del, e.pos, 1)
        /\ e.pos + 1 <= Len(new)
    BY <1>2, <1>a, ReplaceLineTwice, SMTT(30)
  <1> HIDE DEF new, f
  <1>6. Linked(f, before, new)
    BY <1>1, <1>3, <1>4, <1>5 DEF Linked, new
  <1> QED
    BY <1>6 DEF f, new

(* The marks after a replacement.                                          *)
LEMMA MovedMarks ==
  ASSUME EditInv, NEW s \in Seq(Line) \cup {NoText}, NEW pos \in Nat, NEW nDel \in Nat,
         pos + nDel <= Len(ln)
  PROVE  /\ Moved(mark, s, pos, nDel) \in [Letters -> Int]
         /\ \A x \in Letters : /\ Moved(mark, s, pos, nDel)[x] >= -1
                               /\ Moved(mark, s, pos, nDel)[x] < Len(Replace(ln, s, pos, nDel))
  <1>1. ASSUME NEW x \in Letters
        PROVE  /\ MovedLine(mark[x], s, pos, nDel) \in Int
               /\ MovedLine(mark[x], s, pos, nDel) >= -1
               /\ MovedLine(mark[x], s, pos, nDel) < Len(Replace(ln, s, pos, nDel))
    BY MovedInRange DEF EditInv, EditTypes, MarksIn
  <1> QED
    BY <1>1 DEF Moved

(* An edit, when the buffer stays whole.                                   *)
LEMMA ChangeKeeps ==
  ASSUME EditInv, loop = "no", ~ragged', NEW s \in Seq(Line) \cup {NoText},
         NEW beg \in Nat, NEW end \in Nat, beg <= end, Change(s, beg, end)
  PROVE  EditInv'
  <1> DEFINE pos == Min2(beg, Len(ln))
             nDel == Min2(end, Len(ln)) - pos
             new == Replace(ln, s, pos, nDel)
             e == Entry(s, pos, nDel)
  <1>0. EditTypes /\ Whole(ln) /\ ln = snap[histU + 1] /\ AllLinked
    BY DEF EditInv
  <1>1. /\ ln \in Seq(Line) /\ hist \in Seq(HistEntry) /\ histU \in 0 .. Len(hist)
        /\ snap \in Seq(Seq(Line)) /\ Len(snap) = Len(hist) + 1 /\ from = 0
    BY <1>0 DEF EditTypes
  <1>2. pos \in Nat /\ nDel \in Nat /\ pos + nDel <= Len(ln)
    BY <1>1, LenProperties DEF Min2
  <1>3. /\ ln' = new
        /\ IF Merges(s, pos, nDel)
           THEN /\ hist' = [SubSeq(hist, 1, histU) EXCEPT ![histU].ins = s]
                /\ snap' = Append(SubSeq(snap, 1, histU), new)
                /\ UNCHANGED histU
           ELSE /\ hist' = Append(SubSeq(hist, 1, histU), e)
                /\ snap' = Append(SubSeq(snap, 1, histU + 1), new)
                /\ histU' = histU + 1
        /\ mark' = Moved(mark, s, pos, nDel)
        /\ ragged' = (ragged \/ ~Whole(new))
        /\ UNCHANGED <<useq, loop, group, from>>
    BY DEF Change
  <1>e. e \in HistEntry /\ Linked(e, ln, new)
    BY <1>2, EntryLinked
  <1>m. /\ Moved(mark, s, pos, nDel) \in [Letters -> Int]
        /\ \A x \in Letters : /\ Moved(mark, s, pos, nDel)[x] >= -1
                              /\ Moved(mark, s, pos, nDel)[x] < Len(new)
    BY <1>2, MovedMarks
  <1>n. new \in Seq(Line)
    BY <1>1, <1>2, ReplacedLen
  <1>h. Len(hist) \in Nat /\ Len(snap) \in Nat /\ histU \in Nat
    BY <1>1, LenProperties
  <1>M. Merges(s, pos, nDel) =>
          /\ histU > 0 /\ hist[histU].pos = pos /\ hist[histU].nIns = 1
          /\ nDel = 1 /\ Len(LinesOf(s)) = 1
    BY DEF Merges
  <1> HIDE DEF pos, nDel, new, e
  <1>u. /\ useq' \in Nat /\ loop' \in {"no", "undo", "redo"} /\ group' \in Nat
        /\ ln' \in Seq(Line) /\ mark' \in [Letters -> Int] /\ from' = 0
    <2>1. useq' = useq /\ loop' = loop /\ group' = group /\ from' = from
      BY <1>3
    <2> QED
      BY <2>1, <1>0, <1>1, <1>3, <1>m, <1>n DEF EditTypes
  <1>4. Whole(ln') /\ MarksIn'
    BY <1>3, <1>m DEF MarksIn
  <1>5. CASE ~Merges(s, pos, nDel)
    <2>1. /\ hist' = Append(SubSeq(hist, 1, histU), e)
          /\ snap' = Append(SubSeq(snap, 1, histU + 1), new)
          /\ histU' = histU + 1
      BY <1>3, <1>5
    <2>2. /\ hist' \in Seq(HistEntry) /\ Len(hist') = histU + 1
          /\ \A i \in 1 .. histU : hist'[i] = hist[i]
          /\ hist'[histU + 1] = e
      BY <1>1, <1>e, <2>1, CutAppend
    <2>3. /\ snap' \in Seq(Seq(Line)) /\ Len(snap') = histU + 1 + 1
          /\ \A i \in 1 .. histU + 1 : snap'[i] = snap[i]
          /\ snap'[histU + 1 + 1] = new
      <3>1. histU + 1 \in 0 .. Len(snap)
        BY <1>1, <1>h
      <3> QED
        BY <1>1, <1>n, <2>1, <3>1, CutAppend
    <2>4. ASSUME NEW i \in 1 .. Len(hist')
          PROVE  Linked(hist'[i], snap'[i], snap'[i + 1])
      <3>1. CASE i = histU + 1
        <4>1. /\ hist'[i] = e /\ snap'[i + 1] = new
              /\ snap'[i] = snap[histU + 1]
          BY <3>1, <2>2, <2>3, <1>h
        <4> QED
          BY <4>1, <1>0, <1>e
      <3>2. CASE i # histU + 1
        <4>1. i \in 1 .. histU /\ i \in 1 .. Len(hist) /\ i \in 1 .. histU + 1 /\ i + 1 \in 1 .. histU + 1
          BY <3>2, <2>2, <1>1, <1>h
        <4>2. hist'[i] = hist[i] /\ snap'[i] = snap[i] /\ snap'[i + 1] = snap[i + 1]
          BY <4>1, <2>2, <2>3
        <4> QED
          BY <4>1, <4>2, <1>0 DEF AllLinked
      <3> QED
        BY <3>1, <3>2
    <2>5. AllLinked' /\ ln' = snap'[histU' + 1]
      BY <2>1, <2>3, <2>4, <1>3 DEF AllLinked
    <2>6. EditTypes'
      <3>1. histU' \in 0 .. Len(hist') /\ Len(snap') = Len(hist') + 1 /\ from' \in 0 .. Len(hist') /\ from' = 0
        <4>1. /\ Len(hist') = histU + 1 /\ Len(snap') = histU + 1 + 1
              /\ histU' = histU + 1 /\ from' = 0
          BY <2>1, <2>2, <2>3, <1>u
        <4> QED
          BY <4>1, <1>h
      <3>2. hist' \in Seq(HistEntry) /\ snap' \in Seq(Seq(Line))
        BY <2>2, <2>3
      <3> QED
        BY <3>1, <3>2, <1>u DEF EditTypes
    <2> QED
      BY <1>4, <2>5, <2>6 DEF EditInv
  <1>6. CASE Merges(s, pos, nDel)
    <2> DEFINE o == hist[histU]
               f == [o EXCEPT !.ins = s]
    <2>1. /\ histU > 0 /\ o.pos = pos /\ o.nIns = 1
          /\ nDel = 1 /\ Len(LinesOf(s)) = 1
          /\ hist' = [SubSeq(hist, 1, histU) EXCEPT ![histU].ins = s]
          /\ snap' = Append(SubSeq(snap, 1, histU), new)
          /\ histU' = histU
      BY <1>3, <1>6, <1>M
    <2>2. histU \in 1 .. Len(hist) /\ histU <= Len(hist) /\ histU \in 1 .. histU
      BY <2>1, <1>1, <1>h
    <2>3. o \in HistEntry
      BY <2>2, <1>1, ElementOfSeq
    <2>4. /\ SubSeq(hist, 1, histU) \in Seq(HistEntry)
          /\ Len(SubSeq(hist, 1, histU)) = histU
          /\ \A i \in 1 .. histU : SubSeq(hist, 1, histU)[i] = hist[i]
      BY <2>2, <1>1, <1>h, FirstPart
    <2>5. f \in HistEntry
      BY <2>3 DEF HistEntry
    <2>6. hist' = [SubSeq(hist, 1, histU) EXCEPT ![histU] = f]
      BY <2>1, <2>2, <2>4
    <2> HIDE DEF f
    <2>7. /\ hist' \in Seq(HistEntry) /\ Len(hist') = histU
          /\ \A i \in 1 .. histU : hist'[i] = IF i = histU THEN f ELSE hist[i]
      <3> DEFINE c == SubSeq(hist, 1, histU)
      <3>1. c \in Seq(HistEntry) /\ Len(c) = histU /\ \A i \in 1 .. histU : c[i] = hist[i]
        BY <2>4
      <3>2. hist' = [c EXCEPT ![histU] = f]
        BY <2>6
      <3> HIDE DEF c
      <3>3. /\ hist' \in Seq(HistEntry) /\ Len(hist') = Len(c)
            /\ \A j \in 1 .. Len(c) : hist'[j] = IF j = histU THEN f ELSE c[j]
        BY <3>1, <3>2, <2>2, <2>5, ExceptSeq
      <3> QED
        BY <3>1, <3>3
    <2>8. /\ snap' \in Seq(Seq(Line)) /\ Len(snap') = histU + 1
          /\ \A i \in 1 .. histU : snap'[i] = snap[i]
          /\ snap'[histU + 1] = new
      <3>1. histU \in 0 .. Len(snap)
        BY <1>1, <1>h
      <3>2. snap' = Append(SubSeq(snap, 1, histU), new)
        BY <2>1
      <3>3. snap \in Seq(Seq(Line))
        BY <1>1
      <3> QED
        BY <1>n, <3>1, <3>2, <3>3, CutAppend
    <2>9. Linked(f, snap[histU], new)
      <3>1. Linked(o, snap[histU], ln)
        BY <2>2, <1>0 DEF AllLinked
      <3>2. snap[histU] \in Seq(Line)
        <4>1. histU \in 1 .. Len(snap)
          BY <2>2, <1>1, <1>h
        <4> QED
          BY <4>1, <1>1, ElementOfSeq
      <3> HIDE DEF o
      <3>3. Linked([o EXCEPT !.ins = s], snap[histU], Replace(ln, s, o.pos, 1))
        BY <3>1, <3>2, <2>1, <2>3, <1>1, MergedLinked
      <3> QED
        BY <3>3, <2>1 DEF f, new
    <2>10. ASSUME NEW i \in 1 .. Len(hist')
           PROVE  Linked(hist'[i], snap'[i], snap'[i + 1])
      <3>1. CASE i = histU
        <4>1. hist'[i] = f /\ snap'[i] = snap[histU] /\ snap'[i + 1] = new
          BY <3>1, <2>2, <2>7, <2>8
        <4> QED
          BY <4>1, <2>9
      <3>2. CASE i # histU
        <4>1. i \in 1 .. histU /\ i \in 1 .. Len(hist) /\ i + 1 \in 1 .. histU
          BY <3>2, <2>2, <2>7, <1>h
        <4>2. hist'[i] = hist[i] /\ snap'[i] = snap[i] /\ snap'[i + 1] = snap[i + 1]
          BY <3>2, <4>1, <2>7, <2>8
        <4> QED
          BY <4>1, <4>2, <1>0 DEF AllLinked
      <3> QED
        BY <3>1, <3>2
    <2>11. AllLinked' /\ ln' = snap'[histU' + 1]
      BY <2>1, <2>8, <2>10, <1>3 DEF AllLinked
    <2>12. EditTypes'
      <3>1. histU' \in 0 .. Len(hist') /\ Len(snap') = Len(hist') + 1 /\ from' \in 0 .. Len(hist') /\ from' = 0
        <4>1. /\ Len(hist') = histU /\ Len(snap') = histU + 1
              /\ histU' = histU /\ from' = 0
          BY <2>1, <2>7, <2>8, <1>u
        <4> QED
          BY <4>1, <1>h
      <3>2. hist' \in Seq(HistEntry) /\ snap' \in Seq(Seq(Line))
        BY <2>7, <2>8
      <3> QED
        BY <3>1, <3>2, <1>u DEF EditTypes
    <2> QED
      BY <1>4, <2>11, <2>12 DEF EditInv
  <1> QED
    BY <1>5, <1>6

(* Taking back an operation, and doing it again.                           *)
LEMMA UndoOneKeeps ==
  ASSUME EditInv, ~ragged', UndoOne
  PROVE  EditInv'
  <1> DEFINE e == hist[histU]
             before == snap[histU]
  <1>1. EditTypes /\ Whole(ln) /\ ln = snap[histU + 1] /\ AllLinked /\ MarksIn
    BY DEF EditInv
  <1>2. /\ ln \in Seq(Line) /\ hist \in Seq(HistEntry) /\ histU \in 0 .. Len(hist)
        /\ snap \in Seq(Seq(Line)) /\ Len(snap) = Len(hist) + 1 /\ Len(hist) \in Nat
        /\ mark \in [Letters -> Int]
    BY <1>1, LenProperties DEF EditTypes
  <1>3. histU > 0 /\ loop = "undo"
    BY DEF UndoOne, ToUndo
  <1>4. histU \in 1 .. Len(hist) /\ histU \in 1 .. Len(snap) /\ histU - 1 \in 0 .. Len(hist)
        /\ (histU - 1) + 1 = histU
    BY <1>2, <1>3
  <1>5. e \in HistEntry /\ before \in Seq(Line)
    BY <1>2, <1>4, ElementOfSeq
  <1>6. Linked(e, before, ln)
    BY <1>1, <1>4 DEF AllLinked
  <1>7. /\ e.pos \in Nat /\ e.nIns \in Nat /\ e.nDel \in Nat
        /\ e.del \in Seq(Line) \cup {NoText} /\ e.mark \in [Letters -> Int]
    BY <1>5 DEF HistEntry
  <1>8. /\ e.pos + e.nIns <= Len(ln) /\ before = Replace(ln, e.del, e.pos, e.nIns)
        /\ e.pos + e.nDel <= Len(before)
        /\ \A x \in Letters : e.mark[x] = -1 \/ (e.mark[x] >= e.pos /\ e.mark[x] < e.pos + e.nDel)
    BY <1>6 DEF Linked
  <1>9. ~Crash(e, e.nIns)
    <2>1. e.pos + e.nIns \in Int /\ Len(ln) \in Int
      BY <1>2, <1>7, LenProperties
    <2> QED
      BY <2>1, <1>8 DEF Crash
  <1>10. /\ ln' = Replace(ln, e.del, e.pos, e.nIns)
         /\ histU' = histU - 1
         /\ mark' = UndoneMarks(mark, e)
         /\ ragged' = (ragged \/ ~Whole(ln'))
         /\ UNCHANGED <<hist, useq, loop, group, from, snap>>
    BY <1>9 DEF UndoOne
  <1>11. /\ Moved(mark, e.del, e.pos, e.nIns) \in [Letters -> Int]
         /\ \A x \in Letters : /\ Moved(mark, e.del, e.pos, e.nIns)[x] >= -1
                               /\ Moved(mark, e.del, e.pos, e.nIns)[x] < Len(before)
    <2>1. e.pos + e.nIns <= Len(ln)
      BY <1>8
    <2>2. /\ Moved(mark, e.del, e.pos, e.nIns) \in [Letters -> Int]
          /\ \A x \in Letters :
               /\ Moved(mark, e.del, e.pos, e.nIns)[x] >= -1
               /\ Moved(mark, e.del, e.pos, e.nIns)[x] < Len(Replace(ln, e.del, e.pos, e.nIns))
      <3> HIDE DEF e
      <3> QED
        BY <2>1, <1>7, MovedMarks
    <2> QED
      BY <2>2, <1>8
  <1> HIDE DEF e, before
  <1>12. mark' \in [Letters -> Int] /\ MarksIn'
    <2>1. ASSUME NEW x \in Letters
          PROVE  mark'[x] \in Int /\ mark'[x] >= -1 /\ mark'[x] < Len(before)
      <3>1. mark'[x] = IF e.mark[x] >= 0 THEN e.mark[x]
                       ELSE Moved(mark, e.del, e.pos, e.nIns)[x]
        BY <1>10 DEF UndoneMarks
      <3>2. e.mark[x] \in Int /\ Len(before) \in Nat
        BY <1>5, <1>7, LenProperties
      <3>3. CASE e.mark[x] >= 0
        <4>1. e.mark[x] < e.pos + e.nDel /\ mark'[x] = e.mark[x]
          BY <3>1, <3>2, <3>3, <1>8
        <4> QED
          BY <4>1, <3>2, <3>3, <1>7, <1>8
      <3>4. CASE ~(e.mark[x] >= 0)
        BY <3>1, <3>4, <1>11
      <3> QED
        BY <3>3, <3>4
    <2>2. mark' = [x \in Letters |-> mark'[x]]
      BY <1>10 DEF UndoneMarks
    <2>3. ln' = before
      BY <1>8, <1>10
    <2>4. mark' \in [Letters -> Int]
      BY <2>1, <2>2
    <2> QED
      BY <2>1, <2>3, <2>4 DEF MarksIn
  <1>13. ln' = snap'[histU' + 1] /\ Whole(ln') /\ AllLinked'
    BY <1>1, <1>4, <1>8, <1>10 DEF before, AllLinked
  <1>14. EditTypes'
    <2>1. /\ ln' \in Seq(Line) /\ histU' \in 0 .. Len(hist')
      BY <1>4, <1>5, <1>8, <1>10
    <2> QED
      BY <2>1, <1>1, <1>10, <1>12 DEF EditTypes
  <1> QED
    BY <1>12, <1>13, <1>14 DEF EditInv

LEMMA RedoOneKeeps ==
  ASSUME EditInv, ~ragged', RedoOne
  PROVE  EditInv'
  <1> DEFINE k == histU + 1
             e == hist[k]
             after == snap[k + 1]
  <1>1. EditTypes /\ Whole(ln) /\ ln = snap[k] /\ AllLinked /\ MarksIn
    BY DEF EditInv
  <1>2. /\ ln \in Seq(Line) /\ hist \in Seq(HistEntry) /\ histU \in 0 .. Len(hist)
        /\ snap \in Seq(Seq(Line)) /\ Len(snap) = Len(hist) + 1 /\ Len(hist) \in Nat
        /\ mark \in [Letters -> Int]
    BY <1>1, LenProperties DEF EditTypes
  <1>3. histU < Len(hist)
    BY DEF RedoOne, ToRedo
  <1>4. k \in 1 .. Len(hist) /\ k + 1 \in 1 .. Len(snap) /\ k \in 0 .. Len(hist)
    BY <1>2, <1>3
  <1>r. RedoOne => \/ Crash(e, e.nDel)
                   \/ /\ ln' = Replace(ln, e.ins, e.pos, e.nDel)
                      /\ histU' = k
                      /\ mark' = Moved(mark, e.ins, e.pos, e.nDel)
                      /\ ragged' = (ragged \/ ~Whole(ln'))
                      /\ UNCHANGED <<hist, useq, loop, group, from, snap>>
    BY DEF RedoOne
  <1> HIDE DEF k
  <1>5. e \in HistEntry /\ after \in Seq(Line)
    BY <1>2, <1>4, ElementOfSeq
  <1>6. Linked(e, ln, after)
    BY <1>1, <1>4 DEF AllLinked
  <1>7. /\ e.pos \in Nat /\ e.nDel \in Nat /\ e.ins \in Seq(Line) \cup {NoText}
    BY <1>5 DEF HistEntry
  <1>8. e.pos + e.nDel <= Len(ln) /\ after = Replace(ln, e.ins, e.pos, e.nDel)
    BY <1>6 DEF Linked
  <1>9. ~Crash(e, e.nDel)
    <2>1. e.pos + e.nDel \in Int /\ Len(ln) \in Int
      BY <1>2, <1>7, LenProperties
    <2> QED
      BY <2>1, <1>8 DEF Crash
  <1>10. /\ ln' = Replace(ln, e.ins, e.pos, e.nDel)
         /\ histU' = k
         /\ mark' = Moved(mark, e.ins, e.pos, e.nDel)
         /\ ragged' = (ragged \/ ~Whole(ln'))
         /\ UNCHANGED <<hist, useq, loop, group, from, snap>>
    BY <1>9, <1>r
  <1>11. /\ Moved(mark, e.ins, e.pos, e.nDel) \in [Letters -> Int]
         /\ \A x \in Letters :
              /\ Moved(mark, e.ins, e.pos, e.nDel)[x] >= -1
              /\ Moved(mark, e.ins, e.pos, e.nDel)[x] < Len(Replace(ln, e.ins, e.pos, e.nDel))
    <2>1. e.pos + e.nDel <= Len(ln)
      BY <1>8
    <2> HIDE DEF e
    <2> QED
      BY <2>1, <1>7, MovedMarks
  <1> HIDE DEF e, after
  <1>12. mark' \in [Letters -> Int] /\ MarksIn'
    BY <1>10, <1>11 DEF MarksIn
  <1>13. ln' = snap'[histU' + 1] /\ Whole(ln') /\ AllLinked'
    BY <1>1, <1>4, <1>8, <1>10 DEF after, AllLinked
  <1>14. EditTypes'
    <2>1. /\ ln' \in Seq(Line) /\ histU' \in 0 .. Len(hist')
      BY <1>4, <1>5, <1>8, <1>10
    <2> QED
      BY <2>1, <1>1, <1>10, <1>12 DEF EditTypes
  <1> QED
    BY <1>12, <1>13, <1>14 DEF EditInv

-----------------------------------------------------------------------------
LEMMA InitHolds == Init => IInv
  <1> SUFFICES ASSUME Init
               PROVE  IInv
    OBVIOUS
  <1>1. PICK f \in Files \cup {NoText}, path \in BOOLEAN : Opened(f, path)
    BY DEF Init
  <1>2. ln \in Seq(Line)
    <2>1. f \in Seq(Line) \cup {NoText}
      BY TextsAssumption
    <2> QED
      BY <1>1, <2>1, LinesOfText DEF Opened
  <1>3. /\ hist = <<>> /\ histU = 0 /\ snap = <<ln>> /\ Len(hist) = 0 /\ Len(snap) = 1
        /\ snap[1] = ln /\ mark = [x \in Letters |-> -1] /\ from = 0 /\ group = 0 /\ loop = "no"
        /\ ragged = ~Whole(ln)
    BY <1>1 DEF Init, Opened
  <1>4. hist \in Seq(HistEntry) /\ snap \in Seq(Seq(Line))
    BY <1>2, <1>3
  <1>5. EditTypes
    BY <1>1, <1>2, <1>3, <1>4 DEF EditTypes, Opened
  <1>6. SaveTypes
    BY <1>1, <1>2 DEF SaveTypes, Opened
  <1>7. MarksIn
    BY <1>2, <1>3, LenProperties DEF MarksIn
  <1>8. AllLinked /\ ln = snap[histU + 1]
    BY <1>3 DEF AllLinked
  <1> QED
    BY <1>3, <1>5, <1>6, <1>7, <1>8 DEF IInv, EditInv

(* A step that leaves the text, its history and its marks alone.           *)
LEMMA Elsewhere ==
  ASSUME EditInv, UNCHANGED <<ln, hist, histU, mark, snap>>,
         useq' \in Nat, loop' \in {"no", "undo", "redo"}, group' \in Nat,
         from' \in 0 .. Len(hist), loop' = "no" => from' = 0
  PROVE  EditInv'
  BY DEF EditInv, EditTypes, AllLinked, MarksIn

LEMMA LbufSeqType == EditTypes /\ useqLast \in Nat => LbufSeq \in Nat
  <1> SUFFICES ASSUME EditTypes, useqLast \in Nat
               PROVE  LbufSeq \in Nat
    OBVIOUS
  <1>1. CASE histU > 0
    <2>1. histU \in 1 .. Len(hist)
      BY <1>1, LenProperties DEF EditTypes
    <2>2. hist[histU] \in HistEntry
      BY <2>1, ElementOfSeq DEF EditTypes
    <2> QED
      BY <1>1, <2>2 DEF LbufSeq, HistEntry
  <1>2. CASE ~(histU > 0)
    BY <1>2 DEF LbufSeq
  <1> QED
    BY <1>1, <1>2

LEMMA SavedTypes ==
  ASSUME EditInv', useqLast \in Nat, Saved, useq' = useq, useq \in Nat
  PROVE  SaveTypes'
  <1>1. useqLast' = useqLast /\ useqZero' = LbufSeq' /\ saved' = ln' /\ savedIn' = useq
    BY DEF Saved
  <1>2. LbufSeq' \in Nat
    <2>1. EditTypes' /\ useqLast' \in Nat
      BY <1>1 DEF EditInv
    <2>2. (EditTypes /\ useqLast \in Nat => LbufSeq \in Nat)'
      BY LbufSeqType, PTL
    <2> QED
      BY <2>1, <2>2
  <1> QED
    BY <1>1, <1>2 DEF SaveTypes, EditInv, EditTypes

LEMMA NextKeeps == IInv /\ [Next]_vars => IInv'
  <1> SUFFICES ASSUME IInv, [Next]_vars
               PROVE  IInv'
    OBVIOUS
  <1>1. CASE UNCHANGED vars
    BY <1>1 DEF vars, IInv, EditInv, EditTypes, SaveTypes, AllLinked, MarksIn
  <1>2. ragged' \in BOOLEAN /\ (ragged => ragged')
    <2>1. ragged \in BOOLEAN
      BY DEF IInv
    <2>2. CASE \E s \in Texts \cup {NoText}, end \in 0 .. Len(ln) + 1 :
                 \E beg \in 0 .. end : Edit(s, beg, end)
      BY <2>1, <2>2 DEF Edit, Change
    <2>3. CASE \E s \in Files : Reload(s)
      BY <2>1, <2>3 DEF Reload, Change
    <2>4. CASE UndoOne \/ RedoOne
      BY <2>1, <2>4 DEF UndoOne, RedoOne, Crash
    <2>5. CASE Write \/ Tx \/ Undo \/ Redo \/ LoopEnds
      BY <2>1, <2>5 DEF Write, Tx, Undo, Redo, Begin, LoopEnds
    <2>6. CASE \E x \in Letters, k \in 0 .. Len(ln) - 1 : SetMark(x, k)
      BY <2>1, <2>6 DEF SetMark
    <2>7. CASE UNCHANGED vars
      BY <2>1, <2>7 DEF vars
    <2> QED
      BY <2>2, <2>3, <2>4, <2>5, <2>6, <2>7 DEF Next
  <1>3. ASSUME ~ragged', Next
        PROVE  EditInv' /\ SaveTypes'
    <2>0. ~ragged /\ EditInv /\ SaveTypes
      BY <1>2, <1>3 DEF IInv
    <2>t. /\ useq \in Nat /\ loop \in {"no", "undo", "redo"} /\ group \in Nat
          /\ from \in 0 .. Len(hist) /\ (loop = "no" => from = 0)
          /\ histU \in 0 .. Len(hist) /\ hist \in Seq(HistEntry) /\ Len(hist) \in Nat
          /\ Len(ln) \in Nat
      BY <2>0, LenProperties DEF EditInv, EditTypes
    <2>s. useqLast \in Nat
      BY <2>0 DEF SaveTypes
    <2>1. ASSUME NEW s \in Texts \cup {NoText}, NEW end \in 0 .. Len(ln) + 1,
                 NEW beg \in 0 .. end, Edit(s, beg, end)
          PROVE  EditInv' /\ SaveTypes'
      <3>1. s \in Seq(Line) \cup {NoText} /\ beg \in Nat /\ end \in Nat /\ beg <= end
        BY <2>1, <2>t, TextsAssumption
      <3>2. loop = "no" /\ Change(s, beg, end) /\ UNCHANGED saveVars
        BY <2>1 DEF Edit
      <3> QED
        BY <1>3, <2>0, <3>1, <3>2, ChangeKeeps DEF saveVars, SaveTypes
    <2>2. ASSUME NEW s \in Files, Reload(s)
          PROVE  EditInv' /\ SaveTypes'
      <3>1. s \in Seq(Line) \cup {NoText} /\ 0 \in Nat /\ Len(ln) \in Nat /\ 0 <= Len(ln)
        BY <2>t, TextsAssumption
      <3>2. loop = "no" /\ Change(s, 0, Len(ln)) /\ Saved
        BY <2>2 DEF Reload
      <3>3. EditInv'
        BY <1>3, <2>0, <3>1, <3>2, ChangeKeeps
      <3>4. useq' = useq
        BY <3>2 DEF Change
      <3> QED
        BY <2>s, <2>t, <3>2, <3>3, <3>4, SavedTypes
    <2>3. CASE Write
      <3>1. EditInv' /\ useq' = useq
        BY <2>0, <2>3, <2>t, Elsewhere DEF Write
      <3> QED
        BY <2>3, <2>s, <2>t, <3>1, SavedTypes DEF Write
    <2>4. CASE Tx
      BY <2>0, <2>4, <2>t, Elsewhere DEF Tx, saveVars, SaveTypes
    <2>5. ASSUME NEW x \in Letters, NEW k \in 0 .. Len(ln) - 1, SetMark(x, k)
          PROVE  EditInv' /\ SaveTypes'
      <3>1. mark' = [mark EXCEPT ![x] = k] /\ k \in Int /\ k >= -1 /\ k < Len(ln)
        BY <2>5, <2>t DEF SetMark
      <3>2. mark' \in [Letters -> Int] /\ MarksIn'
        BY <2>0, <2>5, <3>1 DEF SetMark, EditInv, EditTypes, MarksIn
      <3> QED
        BY <2>0, <2>5, <3>2 DEF SetMark, EditInv, EditTypes, AllLinked, saveVars, SaveTypes
    <2>6. CASE Undo \/ Redo
      <3>1. PICK w \in {"undo", "redo"}, j \in 1 .. Len(hist) : Begin(w, hist[j].seq)
        <4>1. CASE Undo
          BY <4>1, <2>t DEF Undo
        <4>2. CASE Redo
          <5>1. histU + 1 \in 1 .. Len(hist)
            BY <4>2, <2>t DEF Redo
          <5> QED
            BY <4>2, <5>1 DEF Redo
        <4> QED
          BY <2>6, <4>1, <4>2
      <3>2. hist[j].seq \in Nat
        <4>1. hist[j] \in HistEntry
          BY <2>t, ElementOfSeq
        <4> QED
          BY <4>1 DEF HistEntry
      <3> QED
        BY <2>0, <2>t, <3>1, <3>2, Elsewhere DEF Begin, saveVars, SaveTypes
    <2>7. CASE UndoOne
      <3>1. UNCHANGED saveVars
        BY <2>7 DEF UndoOne, Crash
      <3> QED
        BY <1>3, <2>0, <2>7, <3>1, UndoOneKeeps DEF saveVars, SaveTypes
    <2>8. CASE RedoOne
      <3>1. UNCHANGED saveVars
        BY <2>8 DEF RedoOne, Crash
      <3> QED
        BY <1>3, <2>0, <2>8, <3>1, RedoOneKeeps DEF saveVars, SaveTypes
    <2>9. CASE LoopEnds
      BY <2>0, <2>9, <2>t, Elsewhere DEF LoopEnds, saveVars, SaveTypes
    <2> QED
      BY <1>3, <2>1, <2>2, <2>3, <2>4, <2>5, <2>6, <2>7, <2>8, <2>9 DEF Next
  <1> QED
    BY <1>1, <1>2, <1>3 DEF IInv

LEMMA Invariant == Spec => []IInv
  BY InitHolds, NextKeeps, PTL DEF Spec

-----------------------------------------------------------------------------
(* As long as no line without its end is followed by another, every        *)
(* variable keeps its type.                                                *)
THEOREM TypeCorrect == Spec => [](~ragged => TypeOK)
  <1>1. IInv => (~ragged => TypeOK)
    BY DEF IInv, EditInv, EditTypes, SaveTypes, TypeOK
  <1> QED
    BY <1>1, Invariant, PTL

(* Undo and redo bring back exactly the text that was there, in whatever   *)
(* order edits, merges, undo and redo have run, and never run past the end *)
(* of the buffer.                                                          *)
THEOREM UndoRestoresText == Spec => []Restored
  <1>1. IInv => Restored
    BY DEF IInv, EditInv, EditTypes, Restored
  <1> QED
    BY <1>1, Invariant, PTL

(* No mark of the user points past the last line.                          *)
THEOREM MarksStayInside == Spec => []MarksInRange
  <1>1. IInv => MarksInRange
    BY DEF IInv, EditInv, EditTypes, MarksIn, MarksInRange
  <1> QED
    BY <1>1, Invariant, PTL

(* An edit and its undo put every mark back on its line.                   *)
THEOREM UndoRestoresMarksOf == Spec => [](~ragged => UndoRestoresMarks)
  <1>1. ASSUME IInv, ~ragged
        PROVE  UndoRestoresMarks
    <2>0. ln \in Seq(Line) /\ Whole(ln) /\ mark \in [Letters -> Int] /\ Len(ln) \in Nat
      BY <1>1, LenProperties DEF IInv, EditInv, EditTypes
    <2> SUFFICES ASSUME NEW s \in Texts \cup {NoText}, NEW end \in 0 .. Len(ln),
                        NEW beg \in 0 .. end, ~(beg = end /\ s = NoText),
                        NEW x \in Letters
                 PROVE  UndoneMarks(Moved(mark, s, beg, end - beg),
                                    Entry(s, beg, end - beg))[x] = mark[x]
      BY DEF UndoRestoresMarks
    <2> DEFINE d == end - beg
               e == Entry(s, beg, d)
               n == Len(LinesOf(s))
               k == mark[x]
               k1 == MovedLine(k, s, beg, d)
    <2>1. s \in Seq(Line) \cup {NoText} /\ beg \in Nat /\ d \in Nat /\ beg + d <= Len(ln)
      BY <2>0, TextsAssumption
    <2>2. n \in Nat /\ k \in Int /\ (s = NoText => n = 0)
      BY <2>0, <2>1, LinesOfText
    <2>3. /\ e.pos = beg /\ e.nIns = n /\ e.del = Deleted(beg, d)
          /\ e.mark[x] = IF k >= beg /\ k < beg + d THEN k ELSE -1
      BY DEF Entry, SavedMarks
    <2>4. Len(LinesOf(Deleted(beg, d))) = d
      <3> HIDE DEF d
      <3> QED
        BY <2>0, <2>1, DeletedLines
    <2>5. UndoneMarks(Moved(mark, s, beg, d), e)[x]
            = IF e.mark[x] >= 0 THEN e.mark[x] ELSE MovedLine(k1, e.del, beg, n)
      <3> HIDE DEF e
      <3> QED
        BY <2>3 DEF UndoneMarks, Moved
    <2>6. k1 = IF s = NoText /\ k >= beg /\ k < beg + d THEN -1
               ELSE IF k >= beg + d THEN k + n - d
               ELSE IF k >= beg + n THEN beg + n - 1
               ELSE k
      BY DEF MovedLine
    <2>7. MovedLine(k1, e.del, beg, n) =
            IF e.del = NoText /\ k1 >= beg /\ k1 < beg + n THEN -1
            ELSE IF k1 >= beg + n THEN k1 + d - n
            ELSE IF k1 >= beg + d THEN beg + d - 1
            ELSE k1
      <3> HIDE DEF k1, n, e, d
      <3> QED
        BY <2>3, <2>4 DEF MovedLine
    <2> HIDE DEF d, e, n, k, k1
    <2>8. CASE k >= beg /\ k < beg + d
      <3>1. e.mark[x] = k /\ k >= 0
        BY <2>1, <2>2, <2>3, <2>8
      <3> QED
        BY <2>5, <3>1 DEF d, e, k
    <2>9. CASE ~(k >= beg /\ k < beg + d)
      <3>1. e.mark[x] = -1
        BY <2>3, <2>9
      <3>2. MovedLine(k1, e.del, beg, n) = k
        BY <2>1, <2>2, <2>6, <2>7, <2>9
      <3> QED
        BY <2>5, <3>1, <3>2 DEF d, e, k
    <2> QED
      BY <2>8, <2>9 DEF d, e, k
  <1>2. IInv => (~ragged => UndoRestoresMarks)
    BY <1>1
  <1> QED
    BY <1>2, Invariant, PTL

-----------------------------------------------------------------------------
(* The change sets along the history.  Their order does not depend on the  *)
(* text, so what follows holds for ragged buffers as well.                 *)

Shape ==
  /\ hist \in Seq({hist[i] : i \in DOMAIN hist}) /\ snap \in Seq({snap[i] : i \in DOMAIN snap})
  /\ Len(snap) = Len(hist) + 1 /\ histU \in 0 .. Len(hist) /\ from \in 0 .. Len(hist)
  /\ useq \in Nat /\ useq > 0
  /\ \A i \in 1 .. Len(hist) : "seq" \in DOMAIN hist[i] /\ hist[i].seq \in 1 .. useq

(* Later operations belong to later change sets, or to the same one.       *)
Ordered == \A i, j \in 1 .. Len(hist) : i <= j => hist[i].seq <= hist[j].seq

(* No change set has operations on both sides of k.                        *)
Parted(k) == \A i \in 1 .. k, j \in k + 1 .. Len(hist) : hist[i].seq < hist[j].seq

(* Between commands no change set is half undone; a loop has taken back,   *)
(* or done again, a part of one.                                           *)
LoopAt ==
  /\ loop \in {"no", "undo", "redo", "dead"}
  /\ loop = "no" => Parted(histU) /\ from = 0
  /\ loop = "undo" => /\ histU <= from /\ from > 0 /\ Parted(from)
                      /\ group = hist[from].seq
                      /\ \A i \in histU + 1 .. from : hist[i].seq = group
  /\ loop = "redo" => /\ from <= histU /\ from < Len(hist) /\ Parted(from)
                      /\ group = hist[from + 1].seq
                      /\ \A i \in from + 1 .. histU : hist[i].seq = group

StackInv == Shape /\ Ordered /\ LoopAt

(* The number noted by lbuf_saved stands for a point of the history where  *)
(* the text is the one then saved, for as long as the history has it.      *)
SavedAt ==
  /\ useqLast \in {0, 1} /\ savedIn \in Nat /\ savedIn <= useq
  /\ useqZero \in Nat /\ useqZero <= savedIn
  /\ (~ragged /\ useqZero \notin {1, savedIn}) =>
       \A k \in 0 .. Len(hist) :
         (SeqAt(k) = useqZero /\ (k < Len(hist) => hist[k + 1].seq > useqZero))
           => snap[k + 1] = saved

(* What the steps below need of it.                                        *)
LEMMA ShapeFacts ==
  ASSUME Shape
  PROVE  /\ Len(hist) \in Nat /\ histU \in 0 .. Len(hist) /\ from \in 0 .. Len(hist)
         /\ useq \in Nat /\ useq > 0
         /\ \A i \in 1 .. Len(hist) : "seq" \in DOMAIN hist[i] /\ hist[i].seq \in 1 .. useq
         /\ \A i \in 1 .. Len(hist) : hist[i].seq \in Nat /\ hist[i].seq > 0
  <1>1. /\ histU \in 0 .. Len(hist) /\ from \in 0 .. Len(hist) /\ useq \in Nat /\ useq > 0
        /\ \A i \in 1 .. Len(hist) : "seq" \in DOMAIN hist[i] /\ hist[i].seq \in 1 .. useq
    BY Zenon DEF Shape
  <1>2. Len(hist) \in Nat
    <2>1. hist \in Seq({hist[i] : i \in DOMAIN hist})
      BY Zenon DEF Shape
    <2> QED
      BY <2>1, LenProperties
  <1>3. \A i \in 1 .. Len(hist) : hist[i].seq \in Nat /\ hist[i].seq > 0
    BY <1>1
  <1> QED
    BY <1>1, <1>2, <1>3

(* A sequence is one of its own elements.                                  *)
LEMMA OwnElements ==
  ASSUME NEW S, NEW q \in Seq(S)
  PROVE  q \in Seq({q[i] : i \in DOMAIN q})
  <1> DEFINE T == {q[i] : i \in DOMAIN q}
  <1>1. Len(q) \in Nat /\ DOMAIN q = 1 .. Len(q) /\ q = [i \in 1 .. Len(q) |-> q[i]]
    BY LenProperties, SMT
  <1>2. \A i \in 1 .. Len(q) : q[i] \in T
    BY <1>1
  <1> HIDE DEF T
  <1>3. [i \in 1 .. Len(q) |-> q[i]] \in [1 .. Len(q) -> T]
    BY <1>2
  <1>4. [i \in 1 .. Len(q) |-> q[i]] \in Seq(T)
    BY <1>1, <1>3, SeqDef
  <1>5. q \in Seq(T)
    BY <1>1, <1>4
  <1> QED
    BY <1>5 DEF T

(* A change cuts the history after p operations and continues it by one of *)
(* the present change set.                                                 *)
Cuts(p) ==
  /\ p \in 0 .. histU /\ histU' = p + 1 /\ Len(hist') = p + 1
  /\ p < histU => histU = p + 1 /\ hist[histU].seq = useq
  /\ hist'[p + 1].seq = useq
  /\ \A i \in 1 .. p : hist'[i].seq = hist[i].seq
  /\ \A i \in 1 .. p + 1 : snap'[i] = snap[i]
  /\ snap'[p + 2] = ln'
  /\ UNCHANGED <<useq, loop, group, from>>

LEMMA ChangeCuts ==
  ASSUME Shape, from = 0, NEW s, NEW beg, NEW end, Change(s, beg, end)
  PROVE  Shape' /\ \E p \in Nat : Cuts(p)
  <1> DEFINE pos == Min2(beg, Len(ln))
             nDel == Min2(end, Len(ln)) - pos
             new == Replace(ln, s, pos, nDel)
             e == Entry(s, pos, nDel)
             H == {hist[i] : i \in DOMAIN hist}
             S == {snap[i] : i \in DOMAIN snap}
  <1>1. /\ ln' = new
        /\ IF Merges(s, pos, nDel)
           THEN /\ hist' = [SubSeq(hist, 1, histU) EXCEPT ![histU].ins = s]
                /\ snap' = Append(SubSeq(snap, 1, histU), new)
                /\ UNCHANGED histU
           ELSE /\ hist' = Append(SubSeq(hist, 1, histU), e)
                /\ snap' = Append(SubSeq(snap, 1, histU + 1), new)
                /\ histU' = histU + 1
        /\ UNCHANGED <<useq, loop, group, from>>
    BY DEF Change
  <1>u. ln' = new /\ UNCHANGED <<useq, loop, group, from>>
    BY DEF Change
  <1>2. "seq" \in DOMAIN e /\ e.seq = useq
    BY DEF Entry
  <1>3. Merges(s, pos, nDel) => histU > 0 /\ hist[histU].seq = useq
    BY DEF Merges
  <1> HIDE DEF pos, nDel, new, e
  <1>4. /\ hist \in Seq(H) /\ snap \in Seq(S) /\ Len(hist) \in Nat /\ Len(snap) = Len(hist) + 1
        /\ histU \in 0 .. Len(hist) /\ histU \in Nat /\ useq \in Nat /\ useq > 0
        /\ \A i \in 1 .. Len(hist) : "seq" \in DOMAIN hist[i] /\ hist[i].seq \in 1 .. useq
    BY LenProperties DEF Shape
  <1> HIDE DEF H, S
  <1>5. CASE ~Merges(s, pos, nDel)
    <2>1. /\ hist' = Append(SubSeq(hist, 1, histU), e)
          /\ snap' = Append(SubSeq(snap, 1, histU + 1), new) /\ histU' = histU + 1
      BY <1>1, <1>5
    <2>2. /\ hist' \in Seq(H \cup {e}) /\ Len(hist') = histU + 1
          /\ \A i \in 1 .. histU : hist'[i] = hist[i]
          /\ hist'[histU + 1] = e
      <3>1. hist \in Seq(H \cup {e}) /\ e \in H \cup {e}
        BY <1>4, SeqMonotonic
      <3> HIDE DEF H
      <3> QED
        BY <1>4, <2>1, <3>1, CutAppend
    <2>3. /\ snap' \in Seq(S \cup {new}) /\ Len(snap') = histU + 1 + 1
          /\ \A i \in 1 .. histU + 1 : snap'[i] = snap[i]
          /\ snap'[histU + 1 + 1] = new
      <3>1. snap \in Seq(S \cup {new}) /\ new \in S \cup {new}
        BY <1>4, SeqMonotonic
      <3>2. histU + 1 \in 0 .. Len(snap)
        BY <1>4
      <3> QED
        BY <2>1, <3>1, <3>2, CutAppend
    <2>4. Shape'
      <3>1. hist' \in Seq({hist'[i] : i \in DOMAIN hist'}) /\ snap' \in Seq({snap'[i] : i \in DOMAIN snap'})
        BY <2>2, <2>3, OwnElements
      <3>2. ASSUME NEW i \in 1 .. Len(hist')
            PROVE  "seq" \in DOMAIN hist'[i] /\ hist'[i].seq \in 1 .. useq'
        <4>1. CASE i = histU + 1
          BY <4>1, <1>u, <1>2, <1>4, <2>2
        <4>2. CASE i # histU + 1
          <5>1. i \in 1 .. histU /\ i \in 1 .. Len(hist)
            BY <4>2, <1>4, <2>2
          <5> QED
            BY <5>1, <1>u, <1>4, <2>2
        <4> QED
          BY <4>1, <4>2
      <3>3. /\ useq' = useq /\ from' = 0 /\ histU' = histU + 1 /\ Len(hist') = histU + 1
            /\ Len(snap') = Len(hist') + 1
        BY <1>u, <2>1, <2>2, <2>3
      <3>4. histU' \in 0 .. Len(hist') /\ from' \in 0 .. Len(hist') /\ useq' \in Nat /\ useq' > 0
        BY <1>4, <3>3
      <3> QED
        BY <3>1, <3>2, <3>3, <3>4 DEF Shape
    <2>5. Cuts(histU)
      <3>1. histU \in 0 .. histU /\ ~(histU < histU) /\ histU + 2 = histU + 1 + 1
        BY <1>4
      <3>2. hist'[histU + 1].seq = useq /\ \A i \in 1 .. histU : hist'[i].seq = hist[i].seq
        BY <1>2, <2>2
      <3> QED
        BY <1>u, <2>1, <2>2, <2>3, <3>1, <3>2 DEF Cuts
    <2> QED
      BY <1>4, <2>4, <2>5
  <1>6. CASE Merges(s, pos, nDel)
    <2> DEFINE o == hist[histU]
               f == [o EXCEPT !.ins = s]
               c == SubSeq(hist, 1, histU)
    <2>1. /\ histU > 0 /\ o.seq = useq
          /\ snap' = Append(SubSeq(snap, 1, histU), new) /\ histU' = histU
      BY <1>1, <1>3, <1>6
    <2>2. histU \in 1 .. Len(hist) /\ histU \in 1 .. histU
      BY <1>4, <2>1
    <2>3. c \in Seq(H) /\ Len(c) = histU /\ \A i \in 1 .. histU : c[i] = hist[i]
      BY <1>4, FirstPart
    <2>4. hist' = [SubSeq(hist, 1, histU) EXCEPT ![histU] = f]
      BY <1>1, <1>6, <2>2, <2>3
    <2>5. "seq" \in DOMAIN f /\ f.seq = useq
      BY <1>4, <2>1, <2>2
    <2>c. hist' = [c EXCEPT ![histU] = f]
      BY <2>4
    <2> HIDE DEF f, c
    <2>6. /\ hist' \in Seq(H \cup {f}) /\ Len(hist') = histU
          /\ \A i \in 1 .. histU : hist'[i] = IF i = histU THEN f ELSE hist[i]
      <3>1. c \in Seq(H \cup {f}) /\ f \in H \cup {f}
        BY <2>3, SeqMonotonic
      <3>2. /\ hist' \in Seq(H \cup {f}) /\ Len(hist') = Len(c)
            /\ \A j \in 1 .. Len(c) : hist'[j] = IF j = histU THEN f ELSE c[j]
        BY <2>2, <2>3, <2>c, <3>1, ExceptSeq
      <3> QED
        BY <2>3, <3>2
    <2>7. /\ snap' \in Seq(S \cup {new}) /\ Len(snap') = histU + 1
          /\ \A i \in 1 .. histU : snap'[i] = snap[i]
          /\ snap'[histU + 1] = new
      <3>1. snap \in Seq(S \cup {new}) /\ new \in S \cup {new}
        BY <1>4, SeqMonotonic
      <3>2. histU \in 0 .. Len(snap)
        BY <1>4
      <3> QED
        BY <2>1, <3>1, <3>2, CutAppend
    <2>8. Shape'
      <3>1. hist' \in Seq({hist'[i] : i \in DOMAIN hist'}) /\ snap' \in Seq({snap'[i] : i \in DOMAIN snap'})
        BY <2>6, <2>7, OwnElements
      <3>2. ASSUME NEW i \in 1 .. Len(hist')
            PROVE  "seq" \in DOMAIN hist'[i] /\ hist'[i].seq \in 1 .. useq'
        <4>1. CASE i = histU
          BY <4>1, <1>u, <1>4, <2>2, <2>5, <2>6
        <4>2. CASE i # histU
          <5>1. i \in 1 .. histU /\ i \in 1 .. Len(hist)
            BY <1>4, <2>6
          <5> QED
            BY <4>2, <5>1, <1>u, <1>4, <2>6
        <4> QED
          BY <4>1, <4>2
      <3>3. /\ useq' = useq /\ from' = 0 /\ histU' = histU /\ Len(hist') = histU
            /\ Len(snap') = histU + 1
        BY <1>u, <2>1, <2>6, <2>7
      <3> QED
        BY <1>4, <3>1, <3>2, <3>3 DEF Shape
    <2>9. Cuts(histU - 1)
      <3>1. /\ histU - 1 \in 0 .. histU /\ (histU - 1) + 1 = histU /\ (histU - 1) + 2 = histU + 1
            /\ \A i \in 1 .. histU - 1 : i \in 1 .. histU /\ i # histU
        BY <1>4, <2>1
      <3>2. \A i \in 1 .. histU - 1 : hist'[i].seq = hist[i].seq
        BY <3>1, <2>6
      <3>3. hist'[histU].seq = useq
        BY <2>2, <2>5, <2>6
      <3> QED
        BY <1>u, <2>1, <2>6, <2>7, <3>1, <3>2, <3>3 DEF Cuts
    <2> QED
      BY <1>4, <2>1, <2>8, <2>9
  <1> QED
    BY <1>5, <1>6

(* An edit leaves nothing ahead, and is of the last change set.            *)
LEMMA CutsKeep ==
  ASSUME StackInv, loop = "no", Shape', NEW p \in Nat, Cuts(p)
  PROVE  StackInv'
  <1>1. /\ p \in 0 .. histU /\ histU' = p + 1 /\ Len(hist') = p + 1 /\ hist'[p + 1].seq = useq
        /\ \A i \in 1 .. p : hist'[i].seq = hist[i].seq
        /\ useq' = useq /\ loop' = loop /\ from' = from
    BY DEF Cuts
  <1>2. histU \in 0 .. Len(hist) /\ Len(hist) \in Nat /\ Ordered /\ from = 0
    BY ShapeFacts DEF StackInv, LoopAt
  <1>3. \A i \in 1 .. p + 1 : hist'[i].seq \in 1 .. useq
    BY <1>1 DEF Shape
  <1>4. Ordered'
    <2> SUFFICES ASSUME NEW i \in 1 .. Len(hist'), NEW j \in 1 .. Len(hist'), i <= j
                 PROVE  hist'[i].seq <= hist'[j].seq
      BY DEF Ordered
    <2>1. i \in 1 .. p + 1 /\ j \in 1 .. p + 1
      BY <1>1
    <2>2. CASE j = p + 1
      <3>1. hist'[i].seq \in 1 .. useq /\ useq \in Nat
        BY <1>3, <2>1 DEF StackInv, Shape
      <3> QED
        BY <1>1, <2>2, <3>1
    <2>3. CASE j # p + 1
      <3>1. i \in 1 .. p /\ j \in 1 .. p /\ i \in 1 .. Len(hist) /\ j \in 1 .. Len(hist)
        BY <1>1, <1>2, <2>1, <2>3
      <3>2. hist[i].seq <= hist[j].seq
        BY <1>2, <3>1 DEF Ordered
      <3> QED
        BY <1>1, <3>1, <3>2
    <2> QED
      BY <2>2, <2>3
  <1>5. Parted(histU)'
    <2>1. p + 1 + 1 .. p + 1 = {}
      OBVIOUS
    <2> QED
      BY <1>1, <2>1 DEF Parted
  <1> QED
    BY <1>1, <1>2, <1>4, <1>5 DEF StackInv, LoopAt

(* The same history, at the same point.                                    *)
LEMMA SameStack ==
  ASSUME Shape, Ordered, UNCHANGED <<hist, histU, snap>>, useq' \in Nat, useq' >= useq,
         from' \in 0 .. Len(hist)
  PROVE  Shape' /\ Ordered'
  <1>0. /\ \A i \in 1 .. Len(hist) : "seq" \in DOMAIN hist[i] /\ hist[i].seq \in 1 .. useq
        /\ useq \in Nat /\ useq > 0
    BY ShapeFacts
  <1>1. \A i \in 1 .. Len(hist) : "seq" \in DOMAIN hist[i] /\ hist[i].seq \in 1 .. useq'
    BY <1>0
  <1>2. useq' > 0
    BY <1>0
  <1> QED
    BY <1>1, <1>2 DEF Shape, Ordered

(* The loop of lbuf_undo ends where the change set begins.                 *)
LEMMA UndoParts ==
  ASSUME StackInv, loop = "undo", ~ToUndo
  PROVE  Parted(histU) /\ histU < from
  <1>1. /\ histU \in 0 .. Len(hist) /\ from \in 1 .. Len(hist) /\ histU <= from
        /\ Len(hist) \in Nat /\ Parted(from) /\ group = hist[from].seq /\ Ordered
        /\ \A i \in histU + 1 .. from : hist[i].seq = group
        /\ \A i \in 1 .. Len(hist) : hist[i].seq \in Nat
    BY ShapeFacts DEF StackInv, LoopAt
  <1>2. histU = 0 \/ hist[histU].seq # group
    BY <1>1 DEF ToUndo
  <1>3. histU < from
    BY <1>1, <1>2
  <1>4. \A i \in 1 .. histU : hist[i].seq < group
    <2> SUFFICES ASSUME NEW i \in 1 .. histU
                 PROVE  hist[i].seq < group
      OBVIOUS
    <2>1. i \in 1 .. Len(hist) /\ histU \in 1 .. Len(hist) /\ histU # 0 /\ i <= histU
      BY <1>1
    <2>2. hist[i].seq <= hist[histU].seq /\ hist[histU].seq <= hist[from].seq
      BY <1>1, <2>1 DEF Ordered
    <2>3. hist[i].seq \in Nat /\ hist[histU].seq \in Nat /\ hist[from].seq \in Nat
      BY <1>1, <2>1
    <2>4. hist[histU].seq # group /\ group = hist[from].seq
      BY <1>1, <1>2, <2>1
    <2> QED
      BY <2>2, <2>3, <2>4
  <1>5. Parted(histU)
    <2> SUFFICES ASSUME NEW i \in 1 .. histU, NEW j \in histU + 1 .. Len(hist)
                 PROVE  hist[i].seq < hist[j].seq
      BY DEF Parted
    <2>1. i \in 1 .. from /\ i \in 1 .. Len(hist) /\ j \in 1 .. Len(hist)
      BY <1>1
    <2>2. CASE j <= from
      <3>1. j \in histU + 1 .. from
        BY <2>2, <1>1
      <3> QED
        BY <3>1, <1>1, <1>4
    <2>3. CASE j > from
      <3>1. j \in from + 1 .. Len(hist)
        BY <2>3, <1>1
      <3> QED
        BY <3>1, <2>1, <1>1 DEF Parted
    <2> QED
      BY <2>2, <2>3, <1>1
  <1> QED
    BY <1>3, <1>5

(* The loop of lbuf_redo ends where the change set ends.                   *)
LEMMA RedoParts ==
  ASSUME StackInv, loop = "redo", ~ToRedo
  PROVE  Parted(histU) /\ from < histU
  <1>1. /\ histU \in 0 .. Len(hist) /\ from \in 0 .. Len(hist) - 1 /\ from <= histU
        /\ Len(hist) \in Nat /\ Parted(from) /\ group = hist[from + 1].seq /\ Ordered
        /\ \A i \in from + 1 .. histU : hist[i].seq = group
        /\ \A i \in 1 .. Len(hist) : hist[i].seq \in Nat
    BY ShapeFacts DEF StackInv, LoopAt
  <1>2. histU = Len(hist) \/ hist[histU + 1].seq # group
    BY <1>1 DEF ToRedo
  <1>3. from < histU
    BY <1>1, <1>2
  <1>4. \A j \in histU + 1 .. Len(hist) : group < hist[j].seq
    <2> SUFFICES ASSUME NEW j \in histU + 1 .. Len(hist)
                 PROVE  group < hist[j].seq
      OBVIOUS
    <2>1. /\ j \in 1 .. Len(hist) /\ histU + 1 \in 1 .. Len(hist) /\ histU # Len(hist)
          /\ histU + 1 <= j /\ from + 1 \in 1 .. Len(hist) /\ from + 1 <= histU + 1
      BY <1>1
    <2>2. hist[histU + 1].seq <= hist[j].seq /\ hist[from + 1].seq <= hist[histU + 1].seq
      BY <1>1, <2>1 DEF Ordered
    <2>3. hist[j].seq \in Nat /\ hist[histU + 1].seq \in Nat /\ hist[from + 1].seq \in Nat
      BY <1>1, <2>1
    <2>4. hist[histU + 1].seq # group /\ group = hist[from + 1].seq
      BY <1>1, <1>2, <2>1
    <2> QED
      BY <2>2, <2>3, <2>4
  <1>5. Parted(histU)
    <2> SUFFICES ASSUME NEW i \in 1 .. histU, NEW j \in histU + 1 .. Len(hist)
                 PROVE  hist[i].seq < hist[j].seq
      BY DEF Parted
    <2>1. i \in 1 .. Len(hist) /\ j \in from + 1 .. Len(hist)
      BY <1>1
    <2>2. CASE i > from
      <3>1. i \in from + 1 .. histU
        BY <2>2, <1>1
      <3> QED
        BY <3>1, <1>1, <1>4
    <2>3. CASE i <= from
      <3>1. i \in 1 .. from
        BY <2>3, <1>1
      <3> QED
        BY <3>1, <2>1, <1>1 DEF Parted
    <2> QED
      BY <2>2, <2>3, <1>1
  <1> QED
    BY <1>3, <1>5

LEMMA StackInit == Init => StackInv
  <1> SUFFICES ASSUME Init
               PROVE  StackInv
    OBVIOUS
  <1>1. PICK f \in Files \cup {NoText}, path \in BOOLEAN : Opened(f, path)
    BY DEF Init
  <1>2. /\ hist = <<>> /\ histU = 0 /\ snap = <<ln>> /\ from = 0 /\ loop = "no" /\ useq = 1
    BY <1>1 DEF Init, Opened
  <1>3. hist \in Seq({ln}) /\ snap \in Seq({ln}) /\ Len(hist) = 0 /\ Len(snap) = 1
    BY <1>2
  <1>4. hist \in Seq({hist[i] : i \in DOMAIN hist}) /\ snap \in Seq({snap[i] : i \in DOMAIN snap})
    BY <1>3, OwnElements
  <1>5. 1 .. 0 = {} /\ 0 + 1 .. 0 = {}
    OBVIOUS
  <1> QED
    BY <1>2, <1>3, <1>4, <1>5 DEF StackInv, Shape, Ordered, LoopAt, Parted

LEMMA StackStep == StackInv /\ [Next]_vars => StackInv'
  <1> SUFFICES ASSUME StackInv, [Next]_vars
               PROVE  StackInv'
    OBVIOUS
  <1>0. /\ Shape /\ Ordered /\ LoopAt /\ useq \in Nat /\ histU \in 0 .. Len(hist)
        /\ Len(hist) \in Nat /\ from \in 0 .. Len(hist)
    BY ShapeFacts DEF StackInv
  <1>1. CASE UNCHANGED vars
    BY <1>1 DEF vars, StackInv, Shape, Ordered, LoopAt, Parted
  <1>2. ASSUME loop = "no", NEW s, NEW beg, NEW end, Change(s, beg, end)
        PROVE  StackInv'
    <2>1. from = 0
      BY <1>0, <1>2 DEF LoopAt
    <2>2. Shape' /\ \E p \in Nat : Cuts(p)
      BY <1>0, <1>2, <2>1, ChangeCuts
    <2> QED
      BY <1>2, <2>2, CutsKeep
  <1>3. CASE \E s \in Texts \cup {NoText}, end \in 0 .. Len(ln) + 1 :
               \E beg \in 0 .. end : Edit(s, beg, end)
    BY <1>2, <1>3 DEF Edit
  <1>4. CASE \E s \in Files : Reload(s)
    BY <1>2, <1>4 DEF Reload
  <1>5. CASE Write \/ Tx \/ \E x \in Letters, k \in 0 .. Len(ln) - 1 : SetMark(x, k)
    <2>1. /\ UNCHANGED <<hist, histU, snap, loop, group, from>> /\ loop = "no"
          /\ useq' \in Nat /\ useq' >= useq
      BY <1>0, <1>5 DEF Write, Tx, SetMark
    <2>2. Shape' /\ Ordered'
      BY <1>0, <2>1, SameStack
    <2>3. LoopAt'
      BY <1>0, <2>1 DEF LoopAt, Parted
    <2> QED
      BY <2>2, <2>3 DEF StackInv
  <1>6. CASE Undo \/ Redo
    <2>1. /\ UNCHANGED <<hist, histU, snap, useq>> /\ loop = "no" /\ from' = histU
      BY <1>6 DEF Undo, Redo, Begin
    <2>2. Shape' /\ Ordered'
      BY <1>0, <2>1, SameStack
    <2>3. Parted(histU)
      BY <1>0, <2>1 DEF LoopAt
    <2>4. Parted(from)'
      BY <2>1, <2>3 DEF Parted
    <2>5. histU + 1 .. histU = {}
      BY <1>0
    <2>6. CASE Undo
      <3>1. histU > 0 /\ loop' = "undo" /\ group' = hist[histU].seq
        BY <2>6 DEF Undo, Begin
      <3> QED
        BY <1>0, <2>1, <2>2, <2>4, <2>5, <3>1 DEF StackInv, LoopAt
    <2>7. CASE Redo
      <3>1. histU < Len(hist) /\ loop' = "redo" /\ group' = hist[histU + 1].seq
        BY <2>7 DEF Redo, Begin
      <3> QED
        BY <1>0, <2>1, <2>2, <2>4, <2>5, <3>1 DEF StackInv, LoopAt
    <2> QED
      BY <1>6, <2>6, <2>7
  <1>7. ASSUME NEW e, NEW n, Crash(e, n)
        PROVE  StackInv'
    <2>1. UNCHANGED <<hist, histU, snap, useq, from>> /\ loop' = "dead"
      BY <1>7 DEF Crash
    <2>2. Shape' /\ Ordered'
      BY <1>0, <2>1, SameStack
    <2> QED
      BY <2>1, <2>2 DEF StackInv, LoopAt
  <1>8. CASE UndoOne
    <2>1. CASE Crash(hist[histU], hist[histU].nIns)
      BY <1>7, <2>1
    <2>2. CASE ~Crash(hist[histU], hist[histU].nIns)
      <3>1. /\ loop = "undo" /\ histU > 0 /\ hist[histU].seq = group
            /\ UNCHANGED <<hist, useq, snap, from, group, loop>> /\ histU' = histU - 1
        BY <1>8, <2>2 DEF UndoOne, ToUndo
      <3>2. Shape' /\ Ordered'
        BY <1>0, <3>1 DEF Shape, Ordered
      <3>3. \A i \in histU' + 1 .. from : hist[i].seq = group
        <4>1. \A i \in histU + 1 .. from : hist[i].seq = group
          BY <1>0, <3>1 DEF LoopAt
        <4>2. \A i \in histU' + 1 .. from : i = histU \/ i \in histU + 1 .. from
          BY <1>0, <3>1
        <4> QED
          BY <4>1, <4>2, <3>1
      <3> QED
        BY <1>0, <3>1, <3>2, <3>3 DEF StackInv, LoopAt, Parted
    <2> QED
      BY <2>1, <2>2
  <1>9. CASE RedoOne
    <2>1. CASE Crash(hist[histU + 1], hist[histU + 1].nDel)
      BY <1>7, <2>1
    <2>2. CASE ~Crash(hist[histU + 1], hist[histU + 1].nDel)
      <3>1. /\ loop = "redo" /\ histU < Len(hist) /\ hist[histU + 1].seq = group
            /\ UNCHANGED <<hist, useq, snap, from, group, loop>> /\ histU' = histU + 1
        BY <1>9, <2>2 DEF RedoOne, ToRedo
      <3>2. Shape' /\ Ordered'
        BY <1>0, <3>1 DEF Shape, Ordered
      <3>3. \A i \in from + 1 .. histU' : hist[i].seq = group
        <4>1. \A i \in from + 1 .. histU : hist[i].seq = group
          BY <1>0, <3>1 DEF LoopAt
        <4>2. \A i \in from + 1 .. histU' : i = histU + 1 \/ i \in from + 1 .. histU
          BY <1>0, <3>1
        <4> QED
          BY <4>1, <4>2, <3>1
      <3> QED
        BY <1>0, <3>1, <3>2, <3>3 DEF StackInv, LoopAt, Parted
    <2> QED
      BY <2>1, <2>2
  <1>10. CASE LoopEnds
    <2>1. UNCHANGED <<hist, histU, snap, useq>> /\ from' = 0 /\ loop' = "no"
      BY <1>10 DEF LoopEnds
    <2>2. Shape' /\ Ordered'
      BY <1>0, <2>1, SameStack
    <2>3. Parted(histU)
      BY <1>10, UndoParts, RedoParts DEF LoopEnds
    <2> QED
      BY <2>1, <2>2, <2>3 DEF StackInv, LoopAt, Parted
  <1> QED
    BY <1>1, <1>3, <1>4, <1>5, <1>6, <1>8, <1>9, <1>10 DEF Next

LEMMA StackInvariant == Spec => []StackInv
  BY StackInit, StackStep, PTL DEF Spec

(* Between commands the operation last done is the last of its change set  *)
(* among those done, and the next one belongs to a later one.              *)
LEMMA NextIsLater ==
  ASSUME StackInv, loop = "no"
  PROVE  /\ SeqAt(histU) \in 0 .. useq
         /\ histU < Len(hist) => hist[histU + 1].seq > SeqAt(histU)
  <1>1. /\ histU \in 0 .. Len(hist) /\ Len(hist) \in Nat /\ useq \in Nat /\ Parted(histU)
        /\ \A i \in 1 .. Len(hist) : hist[i].seq \in 1 .. useq
    BY ShapeFacts DEF StackInv, LoopAt
  <1>2. CASE histU = 0
    <2>1. SeqAt(histU) = 0
      BY <1>2 DEF SeqAt
    <2>2. histU < Len(hist) => histU + 1 \in 1 .. Len(hist)
      BY <1>1
    <2> QED
      BY <1>1, <2>1, <2>2
  <1>3. CASE histU # 0
    <2>1. SeqAt(histU) = hist[histU].seq /\ histU \in 1 .. histU /\ histU \in 1 .. Len(hist)
      BY <1>1, <1>3 DEF SeqAt
    <2>2. histU < Len(hist) => histU + 1 \in histU + 1 .. Len(hist) /\ histU + 1 \in 1 .. Len(hist)
      BY <1>1
    <2>3. histU < Len(hist) => hist[histU].seq < hist[histU + 1].seq
      BY <1>1, <2>1, <2>2 DEF Parted
    <2> QED
      BY <1>1, <2>1, <2>2, <2>3
  <1> QED
    BY <1>2, <1>3

(* No other point of the history has its number and a later one after it.  *)
LEMMA OnlyPoint ==
  ASSUME StackInv, loop = "no", NEW k \in 0 .. Len(hist), SeqAt(k) = SeqAt(histU),
         k < Len(hist) => hist[k + 1].seq > SeqAt(histU)
  PROVE  k = histU
  <1>1. /\ histU \in 0 .. Len(hist) /\ Len(hist) \in Nat /\ useq \in Nat
        /\ Parted(histU) /\ Ordered
        /\ \A i \in 1 .. Len(hist) : hist[i].seq \in 1 .. useq
    BY ShapeFacts DEF StackInv, LoopAt
  <1>2. CASE k < histU
    <2>1. k + 1 \in 1 .. Len(hist) /\ histU \in 1 .. Len(hist) /\ k + 1 <= histU /\ histU # 0
          /\ k < Len(hist)
      BY <1>1, <1>2
    <2>2. hist[k + 1].seq <= hist[histU].seq /\ SeqAt(histU) = hist[histU].seq
      BY <1>1, <2>1 DEF Ordered, SeqAt
    <2>3. hist[k + 1].seq \in Nat /\ hist[histU].seq \in Nat
      BY <1>1, <2>1
    <2> QED
      BY <2>1, <2>2, <2>3
  <1>3. CASE k > histU
    <2>1. k \in histU + 1 .. Len(hist) /\ k \in 1 .. Len(hist) /\ k # 0
      BY <1>1, <1>3
    <2>2. SeqAt(k) = hist[k].seq /\ hist[k].seq \in 1 .. useq
      BY <1>1, <2>1 DEF SeqAt
    <2>3. CASE histU = 0
      BY <2>2, <2>3 DEF SeqAt
    <2>4. CASE histU # 0
      <3>1. histU \in 1 .. histU /\ histU \in 1 .. Len(hist)
        BY <1>1, <2>4
      <3>2. hist[histU].seq < hist[k].seq /\ SeqAt(histU) = hist[histU].seq
        BY <1>1, <2>1, <2>4, <3>1 DEF Parted, SeqAt
      <3>3. hist[histU].seq \in Nat
        BY <1>1, <3>1
      <3>4. hist[k].seq = hist[histU].seq
        BY <2>2, <3>2, Zenon
      <3>5. hist[k].seq \in Nat
        BY <1>1, <2>1
      <3> QED
        BY <3>2, <3>3, <3>4, <3>5
    <2> QED
      BY <2>3, <2>4
  <1> QED
    BY <1>1, <1>2, <1>3

LEMMA SavedInit == Init => SavedAt
  <1> SUFFICES ASSUME Init
               PROVE  SavedAt
    OBVIOUS
  <1>1. PICK f \in Files \cup {NoText}, path \in BOOLEAN : Opened(f, path)
    BY DEF Init
  <1>2. /\ hist = <<>> /\ snap = <<ln>> /\ useq = 1 /\ savedIn = 1 /\ useqZero = useqLast
        /\ useqLast \in {0, 1} /\ saved = ln
    BY <1>1 DEF Init, Opened
  <1>3. Len(hist) = 0 /\ snap[0 + 1] = ln /\ \A k \in 0 .. 0 : k = 0
    BY <1>2
  <1> QED
    BY <1>2, <1>3 DEF SavedAt

(* An edit leaves what lies behind it in the history.                      *)
LEMMA CutsKeepSaved ==
  ASSUME StackInv, loop = "no", SavedAt, NEW p \in Nat, Cuts(p), ragged => ragged',
         UNCHANGED saveVars
  PROVE  SavedAt'
  <1>1. /\ p \in 0 .. histU /\ Len(hist') = p + 1 /\ hist'[p + 1].seq = useq
        /\ p < histU => histU = p + 1 /\ hist[histU].seq = useq
        /\ \A i \in 1 .. p : hist'[i].seq = hist[i].seq
        /\ \A i \in 1 .. p + 1 : snap'[i] = snap[i]
        /\ useq' = useq
    BY DEF Cuts
  <1>2. histU \in 0 .. Len(hist) /\ Len(hist) \in Nat /\ useq \in Nat
    BY ShapeFacts DEF StackInv
  <1>3. /\ useqLast \in {0, 1} /\ savedIn \in Nat /\ savedIn <= useq
        /\ useqZero \in Nat /\ useqZero <= savedIn
    BY DEF SavedAt
  <1>4. ASSUME ~ragged, useqZero \notin {1, savedIn}, NEW k \in 0 .. p + 1,
               SeqAt(k)' = useqZero, k < p + 1 => hist'[k + 1].seq > useqZero
        PROVE  snap'[k + 1] = saved
    <2>1. useqZero < useq
      BY <1>2, <1>3, <1>4
    <2>2. k # p + 1
      <3>1. p + 1 # 0
        OBVIOUS
      <3> QED
        BY <1>1, <1>2, <1>3, <1>4, <2>1, <3>1 DEF SeqAt
    <2>3. k \in 0 .. p /\ k \in 0 .. Len(hist) /\ k + 1 \in 1 .. p + 1 /\ k \in Nat
      BY <1>1, <1>2, <2>2
    <2>4. SeqAt(k)' = SeqAt(k)
      <3>1. k # 0 => k \in 1 .. p
        BY <2>3
      <3> QED
        BY <1>1, <3>1 DEF SeqAt
    <2>5. ASSUME k < Len(hist)
          PROVE  hist[k + 1].seq > useqZero
      <3>1. CASE k < p
        <4>1. k + 1 \in 1 .. p /\ k < p + 1
          BY <2>3, <3>1
        <4> QED
          BY <1>1, <1>4, <4>1
      <3>2. CASE k = p /\ p < histU
        BY <1>1, <2>1, <3>2
      <3>3. CASE k = p /\ p = histU
        BY <1>4, <2>4, <2>5, <3>3, NextIsLater
      <3> QED
        BY <1>1, <1>2, <2>3, <3>1, <3>2, <3>3
    <2>6. snap[k + 1] = saved
      BY <1>4, <2>3, <2>4, <2>5 DEF SavedAt
    <2> QED
      BY <1>1, <2>3, <2>6
  <1>5. UNCHANGED <<useqZero, useqLast, saved, savedIn>>
    BY DEF saveVars
  <1> QED
    BY <1>1, <1>3, <1>4, <1>5 DEF SavedAt

(* A step that leaves the history and the notes of lbuf_saved alone.       *)
LEMMA SameSaved ==
  ASSUME SavedAt, UNCHANGED <<hist, snap, useqZero, useqLast, saved, savedIn>>, ragged => ragged',
         useq \in Nat, useq' \in Nat, useq' >= useq
  PROVE  SavedAt'
  <1>1. savedIn' <= useq'
    BY DEF SavedAt
  <1>2. \A k : SeqAt(k)' = SeqAt(k)
    BY DEF SeqAt
  <1> QED
    BY <1>1, <1>2 DEF SavedAt

(* lbuf_saved notes the point the buffer is at; no other step makes a      *)
(* point of that number.                                                   *)
LEMMA SavedStep == IInv /\ StackInv /\ SavedAt /\ StackInv' /\ [Next]_vars => SavedAt'
  <1> SUFFICES ASSUME IInv, StackInv, SavedAt, StackInv', [Next]_vars
               PROVE  SavedAt'
    OBVIOUS
  <1>0. /\ Shape /\ useq \in Nat /\ useq > 0 /\ histU \in 0 .. Len(hist) /\ Len(hist) \in Nat
        /\ useqLast \in {0, 1} /\ ragged \in BOOLEAN
    BY ShapeFacts DEF StackInv, SavedAt, IInv
  <1>1. CASE UNCHANGED vars
    BY <1>0, <1>1, SameSaved DEF vars
  <1>2. ASSUME loop = "no", NEW s, NEW beg, NEW end, Change(s, beg, end)
        PROVE  /\ \E p \in Nat : Cuts(p)
               /\ ragged => ragged'
    <2>1. from = 0
      BY <1>2 DEF StackInv, LoopAt
    <2>2. ragged' = (ragged \/ ~Whole(ln'))
      BY <1>2 DEF Change
    <2> QED
      BY <1>0, <1>2, <2>1, <2>2, ChangeCuts
  <1>3. ASSUME NEW s \in Texts \cup {NoText}, NEW end \in 0 .. Len(ln) + 1,
               NEW beg \in 0 .. end, Edit(s, beg, end)
        PROVE  SavedAt'
    BY <1>2, <1>3, CutsKeepSaved DEF Edit
  <1>4. ASSUME NEW s \in Files, Reload(s)
        PROVE  SavedAt'
    <2>1. loop = "no" /\ Change(s, 0, Len(ln)) /\ Saved
      BY <1>4 DEF Reload
    <2>2. PICK p \in Nat : Cuts(p)
      BY <1>2, <2>1
    <2>3. histU' = p + 1 /\ hist'[p + 1].seq = useq /\ useq' = useq /\ p + 1 > 0
      BY <2>2 DEF Cuts
    <2>4. LbufSeq' = useq
      BY <2>3 DEF LbufSeq
    <2>5. useqZero' = useq /\ savedIn' = useq /\ useqLast' = useqLast
      BY <2>1, <2>4 DEF Saved
    <2> QED
      BY <1>0, <2>3, <2>5 DEF SavedAt
  <1>5. CASE Write
    <2>1. /\ loop = "no" /\ UNCHANGED <<ln, hist, histU, useq, loop, snap, ragged>>
          /\ useqZero' = LbufSeq' /\ savedIn' = useq /\ saved' = ln' /\ useqLast' = useqLast
      BY <1>5 DEF Write, Saved
    <2>2. LbufSeq' = LbufSeq
      BY <2>1 DEF LbufSeq
    <2>3. SeqAt(histU) \in 0 .. useq
      BY <2>1, NextIsLater
    <2>4. LbufSeq = IF histU > 0 THEN SeqAt(histU) ELSE useqLast
      BY <1>0 DEF LbufSeq, SeqAt
    <2>5. useqZero' \in Nat /\ useqZero' <= savedIn'
      BY <1>0, <2>1, <2>2, <2>3, <2>4
    <2>6. ASSUME ~ragged', useqZero' # 1, NEW k \in 0 .. Len(hist'), SeqAt(k)' = useqZero',
                 k < Len(hist') => hist'[k + 1].seq > useqZero'
          PROVE  snap'[k + 1] = saved'
      <3>1. useqZero' = SeqAt(histU)
        BY <1>0, <2>1, <2>2, <2>4, <2>6 DEF SeqAt
      <3>2. SeqAt(k)' = SeqAt(k)
        BY <2>1 DEF SeqAt
      <3>3. k = histU
        BY <2>1, <2>6, <3>1, <3>2, OnlyPoint
      <3>4. ln = snap[histU + 1]
        BY <2>1, <2>6 DEF IInv, EditInv
      <3> QED
        BY <2>1, <3>3, <3>4
    <2> QED
      BY <1>0, <2>1, <2>5, <2>6 DEF SavedAt
  <1>6. CASE Tx \/ \E x \in Letters, k \in 0 .. Len(ln) - 1 : SetMark(x, k)
    BY <1>0, <1>6, SameSaved DEF Tx, SetMark, saveVars
  <1>7. CASE Undo \/ Redo \/ LoopEnds
    BY <1>0, <1>7, SameSaved DEF Undo, Redo, Begin, LoopEnds, saveVars
  <1>8. CASE UndoOne \/ RedoOne
    <2>1. UNCHANGED <<hist, snap, useq, saveVars>>
      BY <1>8 DEF UndoOne, RedoOne, Crash
    <2>2. ragged => ragged'
      BY <1>8 DEF UndoOne, RedoOne, Crash
    <2> QED
      BY <1>0, <2>1, <2>2, SameSaved DEF saveVars
  <1> QED
    BY <1>1, <1>3, <1>4, <1>5, <1>6, <1>7, <1>8 DEF Next

LEMMA SavedInvariant == Spec => []SavedAt
  <1>1. Init => SavedAt
    BY SavedInit
  <1>2. IInv /\ StackInv /\ SavedAt /\ StackInv' /\ [Next]_vars => SavedAt'
    BY SavedStep
  <1> QED
    BY <1>1, <1>2, Invariant, StackInvariant, PTL DEF Spec

(* A buffer that lbuf_modified calls unchanged has the lines it had at the *)
(* last lbuf_saved, unless that call or the opening of the buffer shares   *)
(* its change set with the operation last done then.                       *)
THEOREM UnmodifiedMeansSaved == Spec => []UnmodifiedIsSaved
  <1>1. ASSUME IInv, StackInv, SavedAt
        PROVE  UnmodifiedIsSaved
    <2> SUFFICES ASSUME ~ragged, loop = "no", LbufSeq = useqZero, useqZero \notin {1, savedIn}
                 PROVE  ln = saved
      BY DEF UnmodifiedIsSaved, Modified
    <2>1. ln = snap[histU + 1]
      BY <1>1 DEF IInv, EditInv
    <2>2. histU \in 0 .. Len(hist) /\ Len(hist) \in Nat /\ useqLast \in {0, 1}
      BY <1>1, LenProperties DEF StackInv, Shape, SavedAt
    <2>3. useqZero = SeqAt(histU)
      BY <2>2 DEF LbufSeq, SeqAt
    <2>4. histU < Len(hist) => hist[histU + 1].seq > useqZero
      BY <1>1, <2>3, NextIsLater
    <2> QED
      BY <1>1, <2>1, <2>2, <2>3, <2>4 DEF SavedAt
  <1>2. IInv /\ StackInv /\ SavedAt => UnmodifiedIsSaved
    BY <1>1
  <1> QED
    BY <1>2, Invariant, StackInvariant, SavedInvariant, PTL

-----------------------------------------------------------------------------
(* The history is a stack of versions, one for each change set.            *)

(* The point of the history that a version names.                          *)
AtVersion(v, k) ==
  /\ k = 0 \/ hist[k].seq <= v
  /\ k = Len(hist) \/ hist[k + 1].seq > v

Point(v) == CHOOSE k \in 0 .. Len(hist) : AtVersion(v, k)

(* A set of numbers up to n has a greatest one.                            *)
LEMMA Greatest ==
  ASSUME NEW n \in Nat, NEW S \in SUBSET (0 .. n), S # {}
  PROVE  \E i \in S : \A j \in S : j <= i
  <1> DEFINE T == {n - i : i \in S}
  <1>1. T \subseteq Nat /\ T # {}
    <2>1. \A i \in S : n - i \in Nat
      OBVIOUS
    <2> QED
      BY <2>1
  <1>2. PICK x \in T : \A y \in T : ~(<<y, x>> \in OpToRel(<, Nat))
    <2> HIDE DEF T
    <2> QED
      BY <1>1, NatLessThanWellFounded, WFMin, Zenon
  <1>3. \A y \in T : ~(y < x)
    BY <1>1, <1>2 DEF OpToRel
  <1>4. PICK i \in S : x = n - i
    OBVIOUS
  <1>5. ASSUME NEW j \in S
        PROVE  j <= i
    <2>1. n - j \in T
      OBVIOUS
    <2>2. ~(n - j < x)
      BY <2>1, <1>3
    <2>3. j \in Int /\ i \in Int
      OBVIOUS
    <2> QED
      BY <2>2, <2>3, <1>4
  <1> QED
    BY <1>5

(* Every version has its point, and only one.                              *)
LEMMA SomePoint ==
  ASSUME Shape, NEW v \in Nat
  PROVE  \E k \in 0 .. Len(hist) : AtVersion(v, k)
  <1> DEFINE S == {k \in 0 .. Len(hist) : k = 0 \/ hist[k].seq <= v}
  <1>1. Len(hist) \in Nat /\ \A i \in 1 .. Len(hist) : hist[i].seq \in Nat
    BY ShapeFacts
  <1>2. 0 \in S
    BY <1>1
  <1>3. PICK k \in S : \A j \in S : j <= k
    BY <1>1, <1>2, Greatest
  <1>4. k < Len(hist) => hist[k + 1].seq > v
    <2> SUFFICES ASSUME k < Len(hist)
                 PROVE  hist[k + 1].seq > v
      OBVIOUS
    <2>1. k + 1 \in 1 .. Len(hist) /\ k + 1 \in 0 .. Len(hist) /\ ~(k + 1 <= k)
      BY <1>1
    <2>2. k + 1 \notin S
      BY <1>3, <2>1
    <2>3. ~(hist[k + 1].seq <= v)
      BY <2>1, <2>2
    <2>4. hist[k + 1].seq \in Nat
      BY <1>1, <2>1
    <2> QED
      BY <2>3, <2>4
  <1>5. k = Len(hist) \/ k < Len(hist)
    BY <1>1
  <1> QED
    BY <1>4, <1>5 DEF AtVersion

LEMMA PointIs ==
  ASSUME Shape, Ordered, NEW v \in Nat, NEW k \in 0 .. Len(hist), AtVersion(v, k)
  PROVE  Point(v) = k
  <1>1. Len(hist) \in Nat /\ \A i \in 1 .. Len(hist) : hist[i].seq \in Nat
    BY ShapeFacts
  <1>2. ASSUME NEW a \in 0 .. Len(hist), NEW b \in 0 .. Len(hist),
               AtVersion(v, a), AtVersion(v, b), a < b
        PROVE  FALSE
    <2>1. /\ a + 1 \in 1 .. Len(hist) /\ b \in 1 .. Len(hist) /\ a + 1 <= b
          /\ a # Len(hist) /\ b # 0
      BY <1>1, <1>2
    <2>2. hist[a + 1].seq <= hist[b].seq
      BY <2>1 DEF Ordered
    <2>3. hist[a + 1].seq > v /\ hist[b].seq <= v
      BY <1>2, <2>1 DEF AtVersion
    <2>4. hist[a + 1].seq \in Nat /\ hist[b].seq \in Nat
      BY <1>1, <2>1
    <2>5. hist[a + 1].seq <= v
      BY <2>2, <2>3, <2>4
    <2> QED
      BY <2>3, <2>4, <2>5
  <1>3. ASSUME NEW j \in 0 .. Len(hist), AtVersion(v, j)
        PROVE  j = k
    <2>1. ~(j < k) /\ ~(k < j)
      BY <1>2, <1>3
    <2> QED
      BY <2>1, <1>1
  <1> QED
    BY <1>3 DEF Point

(* The versions are the start and the change sets of the history, and each *)
(* is the text left by its last operation.                                 *)
VersionsRight ==
  /\ DOMAIN VersionText = {0} \cup {hist[i].seq : i \in 1 .. Len(hist)}
  /\ VersionText = [v \in DOMAIN VersionText |-> VersionText[v]]
  /\ \A v \in DOMAIN VersionText, k \in 0 .. Len(hist) :
       AtVersion(v, k) => VersionText[v] = snap[k + 1]

LEMMA VersionsAre == Shape /\ Ordered => VersionsRight
  <1> SUFFICES ASSUME Shape, Ordered
               PROVE  VersionsRight
    OBVIOUS
  <1>0. VersionText = [v \in {0} \cup {hist[i].seq : i \in 1 .. Len(hist)} |-> snap[Point(v) + 1]]
    BY DEF VersionText, LastOf, Point, AtVersion
  <1>1. DOMAIN VersionText = {0} \cup {hist[i].seq : i \in 1 .. Len(hist)}
    BY <1>0
  <1>2. VersionText = [v \in DOMAIN VersionText |-> VersionText[v]]
    BY <1>0
  <1>3. ASSUME NEW v \in DOMAIN VersionText, NEW k \in 0 .. Len(hist), AtVersion(v, k)
        PROVE  VersionText[v] = snap[k + 1]
    <2>1. v \in Nat
      BY <1>1 DEF Shape
    <2>2. Point(v) = k
      BY <1>3, <2>1, PointIs
    <2> QED
      BY <1>0, <1>1, <2>2
  <1> QED
    BY <1>1, <1>2, <1>3 DEF VersionsRight

(* Up to a point between two change sets lie the versions up to its own.   *)
LEMMA UpTo ==
  ASSUME Shape, Ordered, NEW k \in 0 .. Len(hist), Parted(k)
  PROVE  /\ SeqAt(k) \in Nat /\ SeqAt(k) \in DOMAIN VersionText
         /\ \A i \in 1 .. Len(hist) : hist[i].seq \in Nat /\ hist[i].seq > 0
                                      /\ (hist[i].seq <= SeqAt(k) <=> i <= k)
  <1>1. /\ Len(hist) \in Nat /\ \A i \in 1 .. Len(hist) : hist[i].seq \in Nat /\ hist[i].seq > 0
    BY ShapeFacts
  <1>v. DOMAIN VersionText = {0} \cup {hist[i].seq : i \in 1 .. Len(hist)}
    <2>1. VersionsRight
      BY VersionsAre
    <2> QED
      BY <2>1 DEF VersionsRight
  <1>2. CASE k = 0
    <2>1. SeqAt(k) = 0
      BY <1>2 DEF SeqAt
    <2>2. \A i \in 1 .. Len(hist) : ~(i <= k)
      BY <1>1, <1>2
    <2> QED
      BY <1>1, <1>v, <2>1, <2>2
  <1>3. CASE k # 0
    <2>1. k \in 1 .. k /\ k \in 1 .. Len(hist) /\ SeqAt(k) = hist[k].seq
      BY <1>1, <1>3 DEF SeqAt
    <2>2. ASSUME NEW i \in 1 .. Len(hist)
          PROVE  hist[i].seq <= SeqAt(k) <=> i <= k
      <3>1. i <= k => hist[i].seq <= hist[k].seq
        BY <2>1 DEF Ordered
      <3>2. ~(i <= k) => hist[k].seq < hist[i].seq
        <4>1. ~(i <= k) => i \in k + 1 .. Len(hist)
          BY <1>1
        <4> QED
          BY <2>1, <4>1 DEF Parted
      <3>3. hist[i].seq \in Nat /\ hist[k].seq \in Nat
        BY <1>1, <2>1
      <3> QED
        BY <2>1, <3>1, <3>2, <3>3
    <2>3. SeqAt(k) \in Nat /\ SeqAt(k) \in DOMAIN VersionText
      BY <1>1, <1>v, <2>1
    <2> QED
      BY <1>1, <2>2, <2>3
  <1> QED
    BY <1>2, <1>3

LEMMA StackStarts == Init => Versions!Init
  <1> SUFFICES ASSUME Init
               PROVE  Versions!Init
    OBVIOUS
  <1>1. hist = <<>> /\ histU = 0 /\ loop = "no" /\ useq = 1
    BY DEF Init, Opened
  <1>2. Len(hist) = 0 /\ 1 .. 0 = {}
    BY <1>1
  <1>3. DOMAIN VersionText = {0}
    <2>1. VersionsRight
      BY StackInit, VersionsAre DEF StackInv
    <2>2. DOMAIN VersionText = {0} \cup {hist[i].seq : i \in 1 .. Len(hist)}
      BY <2>1 DEF VersionsRight
    <2> QED
      BY <1>2, <2>2
  <1>4. VersionAt = 0
    BY <1>1 DEF VersionAt, SeqAt
  <1> QED
    BY <1>1, <1>3, <1>4 DEF Versions!Init, Versions!Versions

(* An edit is a change of the stack.                                       *)
LEMMA CutsAreChange ==
  ASSUME StackInv, loop = "no", StackInv', NEW p \in Nat, Cuts(p)
  PROVE  Versions!Change(VersionText'[useq])
  <1>1. /\ p \in 0 .. histU /\ histU' = p + 1 /\ Len(hist') = p + 1
        /\ p < histU => histU = p + 1 /\ hist[histU].seq = useq
        /\ hist'[p + 1].seq = useq
        /\ \A i \in 1 .. p : hist'[i].seq = hist[i].seq
        /\ \A i \in 1 .. p + 1 : snap'[i] = snap[i]
        /\ useq' = useq /\ loop' = loop
    BY DEF Cuts
  <1>2. /\ Shape /\ Ordered /\ Parted(histU) /\ histU \in 0 .. Len(hist) /\ Len(hist) \in Nat
        /\ useq \in Nat /\ \A i \in 1 .. Len(hist) : hist[i].seq \in 1 .. useq
    BY ShapeFacts DEF StackInv, LoopAt
  <1> DEFINE D == DOMAIN VersionText
             now == SeqAt(histU)
  <1>3. /\ now \in Nat
        /\ \A i \in 1 .. Len(hist) : hist[i].seq <= now <=> i <= histU
    BY <1>2, UpTo
  <1>4. VersionAt = now /\ VersionAt' = useq
    <2>1. VersionAt = now
      BY DEF VersionAt
    <2>2. loop' = "no" /\ p + 1 # 0
      BY <1>1
    <2>3. VersionAt' = hist'[p + 1].seq
      BY <1>1, <2>2 DEF VersionAt, SeqAt
    <2> QED
      BY <1>1, <2>1, <2>3
  <1>v. VersionsRight /\ VersionsRight'
    <2>1. (Shape /\ Ordered => VersionsRight)'
      BY VersionsAre, PTL
    <2>2. Shape' /\ Ordered'
      BY DEF StackInv
    <2> QED
      BY <1>2, <2>1, <2>2, VersionsAre
  <1>5. D = {0} \cup {hist[i].seq : i \in 1 .. Len(hist)}
    BY <1>v DEF VersionsRight
  <1>6. /\ DOMAIN VersionText' = {0} \cup {hist'[i].seq : i \in 1 .. p + 1}
        /\ VersionText' = [v \in DOMAIN VersionText' |-> VersionText'[v]]
    BY <1>1, <1>v DEF VersionsRight
  <1> HIDE DEF now, D
  <1>7. DOMAIN VersionText' = {v \in D : ~(v > now)} \cup {useq}
    <2>1. ASSUME NEW v \in DOMAIN VersionText', v # useq
          PROVE  v \in D /\ ~(v > now)
      <3>1. CASE v = 0
        BY <1>3, <1>5, <3>1
      <3>2. CASE v # 0
        <4>1. PICK i \in 1 .. p + 1 : v = hist'[i].seq
          BY <1>6, <3>2
        <4>2. i # p + 1
          BY <1>1, <2>1, <4>1
        <4>3. i \in 1 .. p /\ i \in 1 .. Len(hist) /\ i <= histU
          BY <1>1, <1>2, <4>2
        <4>4. v = hist[i].seq /\ v <= now /\ v \in Nat
          BY <1>1, <1>2, <1>3, <4>1, <4>3
        <4> QED
          BY <1>3, <1>5, <4>3, <4>4
      <3> QED
        BY <3>1, <3>2
    <2>2. ASSUME NEW v \in D, ~(v > now)
          PROVE  v \in DOMAIN VersionText'
      <3>1. CASE v = 0
        BY <1>6, <3>1
      <3>2. CASE v # 0
        <4>1. PICK i \in 1 .. Len(hist) : v = hist[i].seq
          BY <1>5, <3>2
        <4>2. v \in Nat /\ v <= now
          BY <1>2, <1>3, <2>2, <4>1
        <4>3. i <= histU
          BY <1>3, <4>1, <4>2
        <4>4. CASE i <= p
          <5>1. i \in 1 .. p /\ i \in 1 .. p + 1
            BY <4>4
          <5> QED
            BY <1>1, <1>6, <4>1, <5>1
        <4>5. CASE ~(i <= p)
          <5>1. p < histU /\ i = histU /\ p + 1 \in 1 .. p + 1
            BY <1>1, <1>2, <4>3, <4>5
          <5>2. v = hist'[p + 1].seq
            BY <1>1, <4>1, <5>1
          <5> QED
            BY <1>6, <5>1, <5>2
        <4> QED
          BY <4>4, <4>5
      <3> QED
        BY <3>1, <3>2
    <2>3. useq \in DOMAIN VersionText'
      <3>1. p + 1 \in 1 .. p + 1
        OBVIOUS
      <3> QED
        BY <1>1, <1>6, <3>1
    <2> QED
      BY <2>1, <2>2, <2>3
  <1>8. ASSUME NEW v \in D, ~(v > now), v # useq
        PROVE  VersionText'[v] = VersionText[v]
    <2>1. v \in Nat /\ v < useq /\ v <= now
      BY <1>2, <1>3, <1>5, <1>8
    <2>2. PICK k \in 0 .. Len(hist) : AtVersion(v, k)
      BY <1>2, <2>1, SomePoint
    <2>3. k <= histU
      <3> SUFFICES ASSUME ~(k <= histU)
                   PROVE  FALSE
        OBVIOUS
      <3>1. k \in 1 .. Len(hist) /\ k # 0
        BY <1>2
      <3>2. hist[k].seq <= v /\ ~(hist[k].seq <= now) /\ hist[k].seq \in Nat
        BY <1>2, <1>3, <2>2, <3>1 DEF AtVersion
      <3> QED
        BY <1>3, <2>1, <3>2
    <2>4. k <= p
      <3> SUFFICES ASSUME ~(k <= p)
                   PROVE  FALSE
        OBVIOUS
      <3>1. p < histU /\ k = histU /\ k # 0
        BY <1>1, <1>2, <2>3
      <3>2. useq <= v
        BY <1>1, <2>2, <3>1 DEF AtVersion
      <3> QED
        BY <1>2, <2>1, <3>2
    <2>5. AtVersion(v, k)'
      <3>1. k = 0 \/ hist'[k].seq <= v
        <4>1. k # 0 => k \in 1 .. p
          BY <2>4
        <4> QED
          BY <1>1, <2>2, <4>1 DEF AtVersion
      <3>2. hist'[k + 1].seq > v
        <4>1. CASE k = p
          BY <1>1, <1>2, <2>1, <4>1
        <4>2. CASE k # p
          <5>1. k + 1 \in 1 .. p /\ k # Len(hist)
            BY <1>1, <1>2, <2>4, <4>2
          <5> QED
            BY <1>1, <2>2, <5>1 DEF AtVersion
        <4> QED
          BY <4>1, <4>2
      <3> QED
        BY <3>1, <3>2 DEF AtVersion
    <2>7. v \in DOMAIN VersionText' /\ k \in 0 .. Len(hist')
      BY <1>1, <1>7, <1>8, <2>4
    <2>8. VersionText'[v] = snap'[k + 1]
      BY <1>v, <2>5, <2>7 DEF VersionsRight
    <2>9. VersionText[v] = snap[k + 1]
      BY <1>v, <1>8, <2>2 DEF VersionsRight, D
    <2>10. k + 1 \in 1 .. p + 1
      BY <2>4
    <2> QED
      BY <1>1, <2>8, <2>9, <2>10
  <1>9. VersionText' = [v \in {v \in D : ~(v > now)} \cup {useq} |->
                          IF v = useq THEN VersionText'[useq] ELSE VersionText[v]]
    BY <1>6, <1>7, <1>8
  <1>10. D \ {v \in D : v > now} = {v \in D : ~(v > now)}
    OBVIOUS
  <1> QED
    BY <1>1, <1>4, <1>9, <1>10
       DEF Versions!Change, Versions!Versions, Versions!Ahead, D

LEMMA StackFacts ==
  ASSUME StackInv
  PROVE  /\ Shape /\ Ordered /\ LoopAt /\ histU \in 0 .. Len(hist) /\ Len(hist) \in Nat
         /\ from \in 0 .. Len(hist) /\ \A i \in 1 .. Len(hist) : hist[i].seq \in Nat
  BY ShapeFacts DEF StackInv

LEMMA StackMoves == StackInv /\ StackInv' /\ [Next]_vars => [Versions!Next]_Versions!vars
  <1> SUFFICES ASSUME StackInv, StackInv', [Next]_vars
               PROVE  [Versions!Next]_Versions!vars
    OBVIOUS
  <1>0. /\ Shape /\ Ordered /\ LoopAt /\ histU \in 0 .. Len(hist) /\ Len(hist) \in Nat
        /\ from \in 0 .. Len(hist) /\ \A i \in 1 .. Len(hist) : hist[i].seq \in Nat
    BY StackFacts
  <1>v. VersionsRight /\ VersionsRight'
    <2>1. (Shape /\ Ordered => VersionsRight)'
      BY VersionsAre, PTL
    <2>2. Shape' /\ Ordered'
      BY DEF StackInv
    <2> QED
      BY <1>0, <2>1, <2>2, VersionsAre
  <1>d. DOMAIN VersionText = {0} \cup {hist[i].seq : i \in 1 .. Len(hist)}
    BY <1>v DEF VersionsRight
  <1>1. ASSUME UNCHANGED <<hist, snap>>
        PROVE  VersionText' = VersionText
    <2>1. DOMAIN VersionText' = DOMAIN VersionText
      BY <1>1, <1>v DEF VersionsRight
    <2>2. ASSUME NEW v \in DOMAIN VersionText
          PROVE  VersionText'[v] = VersionText[v]
      <3>1. v \in Nat
        BY <1>0, <1>d
      <3>2. PICK k \in 0 .. Len(hist) : AtVersion(v, k)
        BY <1>0, <3>1, SomePoint
      <3>3. VersionText[v] = snap[k + 1]
        BY <1>v, <3>2 DEF VersionsRight
      <3>4. AtVersion(v, k)' /\ k \in 0 .. Len(hist') /\ v \in DOMAIN VersionText'
        BY <1>1, <2>1, <3>2 DEF AtVersion
      <3>5. VersionText'[v] = snap'[k + 1]
        BY <1>v, <3>4 DEF VersionsRight
      <3> QED
        BY <1>1, <3>3, <3>5
    <2>3. /\ VersionText' = [v \in DOMAIN VersionText' |-> VersionText'[v]]
          /\ VersionText = [v \in DOMAIN VersionText |-> VersionText[v]]
      BY <1>v DEF VersionsRight
    <2> QED
      BY <2>1, <2>2, <2>3
  <1>2. ASSUME UNCHANGED <<hist, snap, useq>>, VersionAt' = VersionAt
        PROVE  [Versions!Next]_Versions!vars
    BY <1>1, <1>2 DEF Versions!vars
  <1>3. CASE UNCHANGED vars
    BY <1>2, <1>3 DEF vars, VersionAt, SeqAt
  <1>4. ASSUME loop = "no", NEW s, NEW beg, NEW end, Change(s, beg, end)
        PROVE  [Versions!Next]_Versions!vars
    <2>1. from = 0
      BY <1>0, <1>4 DEF LoopAt
    <2>2. PICK p \in Nat : Cuts(p)
      BY <1>0, <1>4, <2>1, ChangeCuts
    <2>3. Versions!Change(VersionText'[useq])
      BY <1>4, <2>2, CutsAreChange
    <2> QED
      BY <2>3 DEF Versions!Next
  <1>5. CASE \E s \in Texts \cup {NoText}, end \in 0 .. Len(ln) + 1 :
               \E beg \in 0 .. end : Edit(s, beg, end)
    BY <1>4, <1>5 DEF Edit
  <1>6. CASE \E s \in Files : Reload(s)
    BY <1>4, <1>6 DEF Reload
  <1>7. CASE Write \/ \E x \in Letters, k \in 0 .. Len(ln) - 1 : SetMark(x, k)
    <2>1. UNCHANGED <<hist, snap, useq, loop, from, histU>>
      BY <1>7 DEF Write, SetMark
    <2> QED
      BY <1>2, <2>1 DEF VersionAt, SeqAt
  <1>8. CASE Tx
    <2>1. UNCHANGED <<hist, snap, loop, from, histU>> /\ useq' = useq + 1
      BY <1>8 DEF Tx
    <2>2. VersionText' = VersionText /\ VersionAt' = VersionAt
      BY <1>1, <2>1 DEF VersionAt, SeqAt
    <2> QED
      BY <2>1, <2>2 DEF Versions!Next, Versions!NewSet
  <1>9. CASE Undo \/ Redo
    <2>1. UNCHANGED <<hist, snap, useq>> /\ loop = "no" /\ loop' # "no" /\ from' = histU
      BY <1>9 DEF Undo, Redo, Begin
    <2> QED
      BY <1>2, <2>1 DEF VersionAt, SeqAt
  <1>10. CASE UndoOne \/ RedoOne
    <2>1. UNCHANGED <<hist, snap, useq, from>> /\ loop # "no" /\ loop' # "no"
      BY <1>10 DEF UndoOne, RedoOne, Crash
    <2> QED
      BY <1>2, <2>1 DEF VersionAt, SeqAt
  <1>11. ASSUME LoopEnds
         PROVE  /\ UNCHANGED <<hist, snap, useq>> /\ VersionText' = VersionText
                /\ VersionAt = SeqAt(from) /\ VersionAt' = SeqAt(histU)
    <2>1. UNCHANGED <<hist, histU, snap, useq>> /\ loop' = "no" /\ loop # "no"
      BY <1>11 DEF LoopEnds
    <2> QED
      BY <1>1, <2>1 DEF VersionAt, SeqAt
  <1>12. CASE LoopEnds /\ loop = "undo"
    <2>1. /\ Parted(histU) /\ histU < from /\ from \in 1 .. Len(hist)
          /\ group = hist[from].seq /\ \A i \in histU + 1 .. from : hist[i].seq = group
      BY <1>0, <1>12, UndoParts DEF LoopEnds, LoopAt
    <2>2. /\ SeqAt(histU) \in Nat /\ SeqAt(histU) \in DOMAIN VersionText
          /\ \A i \in 1 .. Len(hist) : hist[i].seq <= SeqAt(histU) <=> i <= histU
      BY <1>0, <2>1, UpTo
    <2>3. SeqAt(from) = hist[from].seq /\ hist[from].seq \in Nat
      BY <1>0, <2>1 DEF SeqAt
    <2>4. SeqAt(histU) < SeqAt(from)
      BY <1>0, <2>1, <2>2, <2>3
    <2>5. ASSUME NEW v \in DOMAIN VersionText, v < SeqAt(from)
          PROVE  v <= SeqAt(histU)
      <3>1. CASE v = 0
        BY <2>2, <3>1
      <3>2. CASE v # 0
        <4>1. PICK i \in 1 .. Len(hist) : v = hist[i].seq
          BY <1>d, <3>2
        <4>2. i <= histU
          <5> SUFFICES ASSUME i > histU
                       PROVE  FALSE
            BY <1>0
          <5>1. CASE i <= from
            <6>1. i \in histU + 1 .. from
              BY <1>0, <5>1
            <6> QED
              BY <2>1, <2>3, <2>5, <4>1, <6>1
          <5>2. CASE ~(i <= from)
            <6>1. hist[from].seq <= hist[i].seq
              BY <1>0, <2>1, <5>2 DEF Ordered
            <6> QED
              BY <1>0, <2>3, <2>5, <4>1, <6>1
          <5> QED
            BY <5>1, <5>2
        <4> QED
          BY <2>2, <4>1, <4>2
      <3> QED
        BY <3>1, <3>2
    <2>6. Versions!Undo
      BY <1>11, <1>12, <2>2, <2>4, <2>5 DEF Versions!Undo, Versions!Behind, Versions!Versions
    <2> QED
      BY <2>6 DEF Versions!Next
  <1>13. CASE LoopEnds /\ loop = "redo"
    <2>1. /\ Parted(histU) /\ from < histU /\ Parted(from) /\ from + 1 \in 1 .. Len(hist)
          /\ group = hist[from + 1].seq /\ \A i \in from + 1 .. histU : hist[i].seq = group
      BY <1>0, <1>13, RedoParts DEF LoopEnds, LoopAt
    <2>2. SeqAt(histU) \in Nat /\ SeqAt(histU) \in DOMAIN VersionText
      BY <1>0, <2>1, UpTo
    <2>3. /\ SeqAt(from) \in Nat
          /\ \A i \in 1 .. Len(hist) : hist[i].seq <= SeqAt(from) <=> i <= from
      BY <1>0, <2>1, UpTo
    <2>4. SeqAt(histU) = hist[from + 1].seq
      <3>1. histU \in from + 1 .. histU /\ histU # 0
        BY <1>0, <2>1
      <3> QED
        BY <2>1, <3>1 DEF SeqAt
    <2>5. SeqAt(histU) > SeqAt(from)
      <3>1. ~(from + 1 <= from)
        BY <1>0
      <3>2. ~(hist[from + 1].seq <= SeqAt(from))
        BY <2>1, <2>3, <3>1
      <3> QED
        BY <2>2, <2>3, <2>4, <3>2
    <2>6. ASSUME NEW v \in DOMAIN VersionText, v > SeqAt(from)
          PROVE  v >= SeqAt(histU)
      <3>1. v # 0
        BY <2>3, <2>6
      <3>2. PICK i \in 1 .. Len(hist) : v = hist[i].seq
        BY <1>d, <3>1
      <3>3. ~(v <= SeqAt(from)) /\ v \in Nat
        BY <1>0, <2>3, <2>6, <3>2
      <3>4. from + 1 <= i
        BY <1>0, <2>3, <3>2, <3>3
      <3>5. hist[from + 1].seq <= v
        BY <1>0, <2>1, <3>2, <3>4 DEF Ordered
      <3> QED
        BY <2>2, <2>4, <3>3, <3>5
    <2>7. Versions!Redo
      BY <1>11, <1>13, <2>2, <2>5, <2>6 DEF Versions!Redo, Versions!Ahead, Versions!Versions
    <2> QED
      BY <2>7 DEF Versions!Next
  <1>14. LoopEnds => loop = "undo" \/ loop = "redo"
    BY DEF LoopEnds
  <1> QED
    BY <1>3, <1>5, <1>6, <1>7, <1>8, <1>9, <1>10, <1>12, <1>13, <1>14 DEF Next

(* Undo and redo of the line buffer are those of a stack of versions, one  *)
(* for each change set, in ragged buffers too.                             *)
THEOREM HistoryIsAStack == Spec => UndoIsAStack
  <1>1. Spec => Versions!Init /\ [][Versions!Next]_Versions!vars
    BY StackStarts, StackMoves, StackInvariant, PTL DEF Spec
  <1> QED
    BY <1>1 DEF UndoIsAStack, Versions!Spec
==============================================================================
