-------------------------------- MODULE Lbuf --------------------------------
(***************************************************************************)
(* The line buffer of neatvi (lbuf.c) under the commands of its editor:    *)
(* edits with their undo history, marks, and the flag "modified".  Edits,  *)
(* undo and redo of one ex command or one turn of the vi loop belong to    *)
(* one change set; lbuf_tx starts the next.                                *)
(*                                                                         *)
(* A line knows whether it ends in a line feed: the last line of a file or *)
(* of a register may not.  What is copied out of the buffer are bytes, so  *)
(* a line without its end is one with the line after it.                   *)
(*                                                                         *)
(* Left out: the marks the buffer sets itself ("[", "]", "^", "*"), the    *)
(* columns of marks, and the flags of the global command.                  *)
(***************************************************************************)
EXTENDS Integers, SequencesExt

CONSTANTS
  Words,     \* contents of lines
  Texts,     \* the texts that commands insert
  Files,     \* the texts that the file may hold when it is read
  NoText,    \* a null pointer in place of a text
  Letters,   \* the marks a user sets: a-z, ' and `
  MaxSets,   \* bound on the change sets of a behaviour
  MaxLines,  \* bound on the lines of the buffer
  MaxHist    \* bound on the entries of the history

Line == [txt : Seq(Words), nl : BOOLEAN]

(* Only the last line of a text or of the buffer may lack its end.         *)
Whole(ls) == \A i \in 1 .. Len(ls) - 1 : ls[i].nl

ASSUME TextsAssumption ==
  /\ Texts \cup Files \subseteq {t \in Seq(Line) : Whole(t)}
  /\ NoText \notin Seq(Line)
ASSUME BoundsAssumption == MaxSets \in Nat /\ MaxLines \in Nat /\ MaxHist \in Nat

VARIABLES
  ln,         \* the lines
  hist,       \* the history of operations
  histU,      \* how many of them are done, not undone: hist_u
  useq,       \* the number of the present change set
  useqZero,   \* lbuf_seq at the last lbuf_saved
  useqLast,   \* lbuf_seq when the history is empty
  mark,       \* the line of each mark, -1 for none
  loop,       \* which loop is running, "undo" or "redo"; "dead" after a crash
  group,      \* the change set that this loop takes back or does again
  from,       \* history: histU when the loop was entered
  snap,       \* history: snap[i + 1] is the text left by the i-th operation
  ragged,     \* history: a line without its end had a line after it
  saved,      \* history: the lines at the last lbuf_saved
  savedIn     \* history: the change set in which it was called

vars == <<ln, hist, histU, useq, useqZero, useqLast, mark, loop, group, from,
          snap, ragged, saved, savedIn>>
saveVars == <<useqZero, useqLast, saved, savedIn>>

-----------------------------------------------------------------------------
(* Operators on texts, lines and marks.                                    *)

Glue(ls, l) ==
  IF ls = <<>> \/ ls[Len(ls)].nl THEN Append(ls, l)
  ELSE [ls EXCEPT ![Len(ls)] = [txt |-> @.txt \o l.txt, nl |-> l.nl]]

(* The lines that linecount and linelength find in the bytes of ls.        *)
Copy(ls) == IF Whole(ls) THEN ls ELSE FoldLeft(Glue, <<>>, ls)

LinesOf(s) == IF s = NoText THEN <<>> ELSE s

Replace(ls, s, pos, nDel) ==
  SubSeq(ls, 1, pos) \o LinesOf(s) \o SubSeq(ls, pos + nDel + 1, Len(ls))

(* Mutant of MovedLine: no case for a mark in lines that became fewer.     *)
MovedLineKept(k, s, pos, nDel) ==
  LET nIns == Len(LinesOf(s)) IN
  IF s = NoText /\ k >= pos /\ k < pos + nDel THEN -1
  ELSE IF k >= pos + nDel THEN k + nIns - nDel
  ELSE k

(* What lbuf_replace makes of a mark at line k.                            *)
MovedLine(k, s, pos, nDel) ==
  LET nIns == Len(LinesOf(s)) IN
  IF s = NoText /\ k >= pos /\ k < pos + nDel THEN -1
  ELSE IF k >= pos + nDel THEN k + nIns - nDel
  ELSE IF k >= pos + nIns THEN pos + nIns - 1
  ELSE k

Moved(m, s, pos, nDel) == [x \in Letters |-> MovedLine(m[x], s, pos, nDel)]

(* Mutant of SavedMarks: the last deleted line is left out.                *)
SavedMarksShort(m, pos, nDel) ==
  [x \in Letters |-> IF m[x] >= pos /\ m[x] < pos + nDel - 1 THEN m[x] ELSE -1]

(* The marks in the lines that go are saved, -1 stands for the others.     *)
SavedMarks(m, pos, nDel) ==
  [x \in Letters |-> IF m[x] >= pos /\ m[x] < pos + nDel THEN m[x] ELSE -1]

UndoneMarks(m, e) ==
  LET back == Moved(m, e.del, e.pos, e.nIns)
  IN [x \in Letters |-> IF e.mark[x] >= 0 THEN e.mark[x] ELSE back[x]]

(* What lbuf_opt keeps of the lines that go.                               *)
Deleted(pos, nDel) ==
  IF nDel = 0 THEN NoText ELSE Copy(SubSeq(ln, pos + 1, pos + nDel))

Entry(s, pos, nDel) ==
  [pos |-> pos, nDel |-> nDel, nIns |-> Len(LinesOf(s)), ins |-> s,
   del |-> Deleted(pos, nDel), seq |-> useq, mark |-> SavedMarks(mark, pos, nDel)]

(* Mutant of LbufSeq: of the whole history, with what was undone.          *)
LbufSeqTop == IF Len(hist) > 0 THEN hist[Len(hist)].seq ELSE useqLast

LbufSeq == IF histU > 0 THEN hist[histU].seq ELSE useqLast

Modified == LbufSeq # useqZero

-----------------------------------------------------------------------------
(* The state after ec_edit has opened a buffer: with a path, on a file f   *)
(* that it read, or on none.  Both lbuf_rd and lbuf_saved have run.        *)
Opened(f, path) ==
  /\ ln = LinesOf(f)
  /\ hist = <<>> /\ histU = 0
  /\ useq = 1
  /\ useqLast = IF path THEN 1 ELSE 0
  /\ useqZero = useqLast
  /\ mark = [x \in Letters |-> -1]
  /\ saved = ln /\ savedIn = useq
  /\ ragged = ~Whole(ln)

Init ==
  /\ \/ \E f \in Files \cup {NoText} : Opened(f, TRUE)
     \/ Opened(NoText, FALSE)
  /\ loop = "no" /\ group = 0 /\ from = 0
  /\ snap = <<ln>>

(* Mutant of Merges: in any change set.                                    *)
MergesAnySet(s, pos, nDel) ==
  /\ histU > 0
  /\ hist[histU].pos = pos
  /\ hist[histU].nIns = 1 /\ nDel = 1 /\ Len(LinesOf(s)) = 1

(* Mutant of Merges: whatever number of lines the entry inserted.          *)
MergesMany(s, pos, nDel) ==
  /\ histU > 0
  /\ hist[histU].seq = useq /\ hist[histU].pos = pos
  /\ nDel = 1 /\ Len(LinesOf(s)) = 1

(* lbuf_opt merges a change of one line into the entry before it.          *)
Merges(s, pos, nDel) ==
  /\ histU > 0
  /\ hist[histU].seq = useq /\ hist[histU].pos = pos
  /\ hist[histU].nIns = 1 /\ nDel = 1 /\ Len(LinesOf(s)) = 1

Min2(a, b) == IF a < b THEN a ELSE b

(* lbuf_editraw with lbuf_opt and lbuf_replace.                            *)
Change(s, beg, end) ==
  LET pos  == Min2(beg, Len(ln))
      nDel == Min2(end, Len(ln)) - pos
      new  == Replace(ln, s, pos, nDel)
  IN
  /\ ~(nDel = 0 /\ s = NoText)
  /\ ln' = new
  /\ IF Merges(s, pos, nDel)
     THEN /\ hist' = [SubSeq(hist, 1, histU) EXCEPT ![histU].ins = s]
          /\ snap' = Append(SubSeq(snap, 1, histU), new)
          /\ UNCHANGED histU
     ELSE /\ hist' = Append(SubSeq(hist, 1, histU), Entry(s, pos, nDel))
          /\ snap' = Append(SubSeq(snap, 1, histU + 1), new)
          /\ histU' = histU + 1
  /\ mark' = Moved(mark, s, pos, nDel)
  /\ ragged' = (ragged \/ ~Whole(new))
  /\ Len(new) <= MaxLines /\ Len(hist') <= MaxHist
  /\ UNCHANGED <<useq, loop, group, from>>

Edit(s, beg, end) ==
  /\ loop = "no"
  /\ Change(s, beg, end)
  /\ UNCHANGED saveVars

(* lbuf_saved(lb, 0).                                                      *)
Saved ==
  /\ UNCHANGED useqLast
  /\ useqZero' = LbufSeq'
  /\ saved' = ln' /\ savedIn' = useq

(* ":e!": the whole buffer is replaced by the file, which may have changed *)
(* on disk; the history stays.                                             *)
Reload(s) ==
  /\ loop = "no"
  /\ Change(s, 0, Len(ln))
  /\ Saved

(* ":w" to the buffer's own path, of all lines or of some.                 *)
Write ==
  /\ loop = "no"
  /\ UNCHANGED <<ln, hist, histU, useq, mark, loop, group, from, snap, ragged>>
  /\ Saved

Tx ==
  /\ loop = "no" /\ useq < MaxSets
  /\ useq' = useq + 1
  /\ UNCHANGED <<ln, hist, histU, mark, loop, group, from, snap, ragged, saveVars>>

SetMark(x, k) ==
  /\ loop = "no"
  /\ mark' = [mark EXCEPT ![x] = k]
  /\ UNCHANGED <<ln, hist, histU, useq, loop, group, from, snap, ragged, saveVars>>

-----------------------------------------------------------------------------
(* lbuf_undo and lbuf_redo: a step for each operation of the change set.   *)

Begin(which, g) ==
  /\ loop = "no"
  /\ loop' = which /\ group' = g /\ from' = histU
  /\ UNCHANGED <<ln, hist, histU, useq, mark, snap, ragged, saveVars>>

Undo == histU > 0 /\ Begin("undo", hist[histU].seq)
Redo == histU < Len(hist) /\ Begin("redo", hist[histU + 1].seq)

ToUndo == histU > 0 /\ hist[histU].seq = group
ToRedo == histU < Len(hist) /\ hist[histU + 1].seq = group

(* In a ragged buffer the lines to replace may be fewer than recorded;     *)
(* lbuf_replace then frees and moves past the end, taken for a crash.      *)
Crash(e, nDel) ==
  /\ e.pos + nDel > Len(ln)
  /\ loop' = "dead"
  /\ UNCHANGED <<ln, hist, histU, useq, mark, group, from, snap, ragged, saveVars>>

UndoOne ==
  /\ loop = "undo" /\ ToUndo
  /\ LET e == hist[histU] IN
     \/ Crash(e, e.nIns)
     \/ /\ e.pos + e.nIns <= Len(ln)
        /\ ln' = Replace(ln, e.del, e.pos, e.nIns)
        /\ histU' = histU - 1
        /\ mark' = UndoneMarks(mark, e)
        /\ ragged' = (ragged \/ ~Whole(ln'))
        /\ UNCHANGED <<hist, useq, loop, group, from, snap, saveVars>>

RedoOne ==
  /\ loop = "redo" /\ ToRedo
  /\ LET e == hist[histU + 1] IN
     \/ Crash(e, e.nDel)
     \/ /\ e.pos + e.nDel <= Len(ln)
        /\ ln' = Replace(ln, e.ins, e.pos, e.nDel)
        /\ histU' = histU + 1
        /\ mark' = Moved(mark, e.ins, e.pos, e.nDel)
        /\ ragged' = (ragged \/ ~Whole(ln'))
        /\ UNCHANGED <<hist, useq, loop, group, from, snap, saveVars>>

LoopEnds ==
  /\ \/ loop = "undo" /\ ~ToUndo
     \/ loop = "redo" /\ ~ToRedo
  /\ loop' = "no" /\ group' = 0 /\ from' = 0
  /\ UNCHANGED <<ln, hist, histU, useq, mark, snap, ragged, saveVars>>

-----------------------------------------------------------------------------
Next ==
  \/ \E s \in Texts \cup {NoText}, end \in 0 .. Len(ln) + 1 :
       \E beg \in 0 .. end : Edit(s, beg, end)
  \/ \E s \in Files : Reload(s)
  \/ Write
  \/ Tx
  \/ \E x \in Letters, k \in 0 .. Len(ln) - 1 : SetMark(x, k)
  \/ Undo \/ UndoOne
  \/ Redo \/ RedoOne
  \/ LoopEnds

Spec == Init /\ [][Next]_vars

-----------------------------------------------------------------------------
HistEntry ==
  [pos : Nat, nDel : Nat, nIns : Nat, ins : Seq(Line) \cup {NoText},
   del : Seq(Line) \cup {NoText}, seq : Nat, mark : [Letters -> Int]]

TypeOK ==
  /\ ln \in Seq(Line) /\ saved \in Seq(Line)
  /\ hist \in Seq(HistEntry) /\ histU \in 0 .. Len(hist)
  /\ useq \in Nat /\ useqZero \in Nat /\ useqLast \in Nat /\ savedIn \in Nat
  /\ mark \in [Letters -> Int]
  /\ loop \in {"no", "undo", "redo", "dead"} /\ group \in Nat
  /\ from \in 0 .. Len(hist)
  /\ snap \in Seq(Seq(Line)) /\ Len(snap) = Len(hist) + 1
  /\ ragged \in BOOLEAN

(* Undo and redo bring back, to the line, the text that was there when the *)
(* same operations were done; the bytes kept by lbuf_opt are enough for    *)
(* it, unless a line without its end was followed by another.              *)
Restored == ~ragged => ln = snap[histU + 1] /\ loop # "dead"

(* A mark of the user never points past the last line, whatever is edited  *)
(* under it, undone or done again.                                         *)
MarksInRange ==
  ~ragged => \A x \in Letters : mark[x] >= -1 /\ (mark[x] < Len(ln) \/ mark[x] = -1)

(* An edit and its undo put every mark of the user back on its line.       *)
UndoRestoresMarks ==
  \A s \in Texts \cup {NoText}, end \in 0 .. Len(ln) : \A beg \in 0 .. end :
    (Whole(ln) /\ ~(beg = end /\ s = NoText)) =>
      LET e == Entry(s, beg, end - beg)
          m == UndoneMarks(Moved(mark, s, beg, end - beg), e)
      IN \A x \in Letters : m[x] = mark[x]

(* A buffer that lbuf_modified calls unchanged has the lines it had at the *)
(* last lbuf_saved, if the operation last done then was neither of the     *)
(* change set of the save itself nor of the one the buffer was opened in.  *)
UnmodifiedIsSaved ==
  (~ragged /\ loop = "no" /\ ~Modified /\ useqZero \notin {1, savedIn}) => ln = saved

(* "Was the file modified since the last lbuf_saved()" (lbuf.c:415).       *)
ModifiedIsSound == (~ragged /\ loop = "no" /\ ~Modified) => ln = saved

(* lbuf_undo and lbuf_redo implement a stack of versions, one for each     *)
(* change set.                                                             *)
LastOf(v) ==
  CHOOSE k \in 0 .. Len(hist) :
    /\ k = 0 \/ hist[k].seq <= v
    /\ k = Len(hist) \/ hist[k + 1].seq > v
VersionText ==
  [v \in {0} \cup {hist[i].seq : i \in 1 .. Len(hist)} |-> snap[LastOf(v) + 1]]
SeqAt(k) == IF k = 0 THEN 0 ELSE hist[k].seq
VersionAt == SeqAt(IF loop = "no" THEN histU ELSE from)

Versions == INSTANCE UndoStack WITH text <- VersionText, at <- VersionAt, set <- useq
UndoIsAStack == Versions!Spec
==============================================================================
