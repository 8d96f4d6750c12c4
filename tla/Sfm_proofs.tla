----------------------------- MODULE Sfm_proofs -----------------------------
(***************************************************************************)
(* Proofs about Sfm: the signals of the watcher keep the entries of a pane *)
(* from going stale unnoticed, a deletion is of what the user saw, and what*)
(* the pane holds is well formed.                                          *)
(***************************************************************************)
EXTENDS Sfm, FiniteSetTheorems, WellFoundedInduction, TLAPS

(* What the two results need of the types.                                 *)
Types ==
  /\ disk \in [Dirs -> SUBSET Names] /\ path \in Dirs
  /\ queue \in Nat /\ batch \in Nat

(* From the start of the thread on, every directory shown is watched.      *)
Watched == main # "dead" => Unwatched \/ watch = path

(* A change since the read began is announced, if no other read came in    *)
(* between.                                                                *)
SnapIsKnown ==
  (Reading /\ ~torn /\ snap # Visible(path)) => lost \/ RefreshDue

StaleInv == Types /\ Watched /\ SnapIsKnown /\ StaleIsKnown

-----------------------------------------------------------------------------
(* A step of another program touches some directories, and the kernel      *)
(* reports it or does not.                                                 *)
Outside(ds) ==
  /\ disk' \in [Dirs -> SUBSET Names]
  /\ path \notin ds => disk'[path] = disk[path]
  /\ Changed(ds) \/ Renamed(ds)
  /\ UNCHANGED <<dots, path, list, main, watch, batch, thread, signal, snap, torn>>

LEMMA OneFileIsOutside ==
  ASSUME Types, NEW d \in Dirs, NEW n \in Names, Create(d, n) \/ Remove(d, n)
  PROVE  Outside({d})
<1>1. CASE Create(d, n)
  BY <1>1 DEF Create, Outside, Types, entryVars, readVars
<1>2. CASE Remove(d, n)
  BY <1>2 DEF Remove, Outside, Types, entryVars, readVars
<1> QED BY <1>1, <1>2

LEMMA RenameIsOutside ==
  ASSUME Types, NEW d \in Dirs, NEW e \in Dirs, NEW n \in Names, Rename(d, e, n)
  PROVE  Outside({d, e})
BY DEF Rename, Outside, Types, entryVars, readVars

LEMMA JobIsOutside ==
  ASSUME Types, JobRuns
  PROVE  \E ds \in SUBSET Dirs : Outside(ds)
<1> DEFINE from(d) == {p[2] : p \in {q \in job.what : q[1] = d /\ q[2] \in disk[d]}}
           all     == UNION {from(d) : d \in Dirs}
           less    == [d \in Dirs |-> disk[d] \ from(d)]
           more    == [disk EXCEPT ![job.to] = @ \cup all]
           moved   == [less EXCEPT ![job.to] = @ \cup all]
           touched == {d \in Dirs : disk'[d] # disk[d]}
<1>1. all \subseteq Names
  <2> SUFFICES ASSUME NEW d \in Dirs, NEW n \in from(d) PROVE n \in Names
    OBVIOUS
  <2>1. PICK p \in {q \in job.what : q[1] = d /\ q[2] \in disk[d]} : n = p[2]
    OBVIOUS
  <2> QED BY <2>1 DEF Types
<1>2. less \in [Dirs -> SUBSET Names]
  BY DEF Types
<1>3. /\ disk' = less \/ disk' = more \/ disk' = moved
      /\ Changed(touched) \/ Renamed(touched)
  <2>1. /\ job.op \in {"rm", "cp", "mv"}
        /\ CASE job.op = "rm" -> disk' = less /\ Changed(touched)
             [] job.op = "cp" -> disk' = more /\ Changed(touched)
             [] job.op = "mv" -> disk' = moved /\ Renamed(touched)
    BY DEF JobRuns
  <2> HIDE DEF less, more, moved, touched
  <2> QED BY <2>1
<1>4. disk' \in [Dirs -> SUBSET Names]
  <2> HIDE DEF all, less
  <2> QED BY <1>1, <1>2, <1>3 DEF Types
<1>5. UNCHANGED <<dots, path, list, main, watch, batch, thread, signal, snap, torn>>
  BY DEF JobRuns, readVars, entryVars
<1>6. path \notin touched => disk'[path] = disk[path]
  BY DEF Types
<1>7. Outside(touched)
  <2> HIDE DEF touched
  <2> QED BY <1>3, <1>4, <1>5, <1>6 DEF Outside
<1> QED BY <1>7

LEMMA OutsideKeepsInv ==
  ASSUME StaleInv, NEW ds \in SUBSET Dirs, Outside(ds)
  PROVE  StaleInv'
<1> USE DEF StaleInv
<1>1. Types'
  BY DEF Outside, Types, Changed, Renamed
<1>2. Watched'
  BY DEF Outside, Watched, Unwatched
<1>3. lost => lost'
  BY DEF Outside, Changed, Renamed
<1>4. lost \/ RefreshDue => lost' \/ RefreshDue'
  BY <1>3 DEF Outside, Changed, Renamed, RefreshDue, Types
<1>5. CASE path \in ds
  <2>1. main # "dead" => lost' \/ queue' > 0
    <3>1. Renamed(ds) \/ Unwatched => lost'
      <4>1. Changed(ds) \/ Renamed(ds)
        BY DEF Outside
      <4>2. CASE Renamed(ds)
        BY <1>5, <4>2, Zenon DEF Renamed
      <4>3. CASE Changed(ds) /\ Unwatched
        BY <1>5, <4>3, Zenon DEF Changed
      <4> QED BY <4>1, <4>2, <4>3
    <3>2. Changed(ds) /\ watch = path => queue' > 0
      BY <1>5 DEF Changed, Types
    <3> QED BY <3>1, <3>2 DEF Outside, Watched
  <2>2. main' # "dead" => lost' \/ RefreshDue'
    BY <2>1 DEF RefreshDue, Outside
  <2>3. SnapIsKnown'
    BY <2>2 DEF SnapIsKnown, Reading
  <2>4. StaleIsKnown'
    BY <2>2 DEF StaleIsKnown
  <2> QED BY <1>1, <1>2, <2>3, <2>4
<1>6. CASE path \notin ds
  <2>1. Visible(path)' = Visible(path)
    BY <1>6 DEF Outside, Visible, Shown
  <2> QED BY <1>1, <1>2, <1>4, <2>1 DEF Outside, SnapIsKnown, StaleIsKnown, Fresh, Reading
<1> QED BY <1>5, <1>6

-----------------------------------------------------------------------------
(* The steps of the thread and of the handler.                             *)

LEMMA WatcherKeepsInv ==
  ASSUME StaleInv, Watcher PROVE StaleInv'
<1> USE DEF StaleInv
<1>1. CASE WatcherStarts
  <2>1. Types' /\ Watched'
    BY <1>1 DEF WatcherStarts, Types, Watched, Unwatched, diskVars
  <2>2. Visible(path)' = Visible(path) /\ (RefreshDue' <=> RefreshDue)
    BY <1>1 DEF WatcherStarts, Visible, Shown, RefreshDue, diskVars
  <2>3. UNCHANGED <<main, list, lost, snap, torn>>
    BY <1>1 DEF WatcherStarts, entryVars, readVars
  <2> QED BY <2>1, <2>2, <2>3 DEF SnapIsKnown, StaleIsKnown, Fresh, Reading
<1>2. CASE ReadEvents \/ SendSignal
  <2>1. UNCHANGED <<disk, dots, path, main, list, lost, snap, torn, watch, thread>>
    BY <1>2 DEF ReadEvents, SendSignal, diskVars, entryVars, readVars
  <2>2. Types' /\ (RefreshDue => RefreshDue')
    BY <1>2, <2>1 DEF ReadEvents, SendSignal, Types, RefreshDue
  <2>3. Visible(path)' = Visible(path)
    BY <2>1 DEF Visible, Shown
  <2>4. Watched'
    BY <2>1 DEF Watched, Unwatched
  <2> QED BY <2>1, <2>2, <2>3, <2>4 DEF SnapIsKnown, StaleIsKnown, Fresh, Reading
<1> QED BY <1>1, <1>2 DEF Watcher

LEMMA HandlerKeepsInv ==
  ASSUME StaleInv, Handler PROVE StaleInv'
<1> USE DEF StaleInv
<1>1. UNCHANGED <<disk, dots, path, main, snap, watch, queue, batch, thread>>
  BY DEF Handler, HandlerIgnores, HandlerReads, diskVars, readVars
<1>2. Visible(path)' = Visible(path)
  BY <1>1 DEF Visible, Shown
<1>3. Types' /\ Watched'
  BY <1>1 DEF Types, Watched, Unwatched
<1>4. CASE HandlerIgnores
  <2>1. ~Reading /\ list' = list
    BY <1>4 DEF HandlerIgnores, Forked, Reading, entryVars
  <2>2. ~Fresh => lost'
    BY <1>4, Zenon DEF HandlerIgnores, Fresh
  <2> QED BY <1>1, <1>2, <1>3, <2>1, <2>2 DEF SnapIsKnown, StaleIsKnown, Fresh, Reading
<1>5. CASE HandlerReads
  <2>1. list' = Visible(path)
    BY <1>5 DEF HandlerReads
  <2>2. Reading => torn'
    BY <1>5, Zenon DEF HandlerReads
  <2> QED BY <1>1, <1>2, <1>3, <2>1, <2>2 DEF SnapIsKnown, StaleIsKnown, Fresh, Reading
<1> QED BY <1>4, <1>5 DEF Handler

-----------------------------------------------------------------------------
(* The steps of the main loop.                                             *)

(* Where the loop reads no directory.                                      *)
Elsewhere == main \notin {"cd", "cdread", "cdwatch", "dotsread", "dead"}

LEMMA ElsewhereKeepsInv ==
  ASSUME StaleInv, Elsewhere, Elsewhere',
         UNCHANGED <<disk, dots, path, list, watchVars, snap, torn, lost>>
  PROVE  StaleInv'
<1> USE DEF StaleInv
<1>1. Types' /\ Watched'
  BY DEF Types, Watched, Unwatched, watchVars, Elsewhere
<1>2. Visible(path)' = Visible(path) /\ (RefreshDue' <=> RefreshDue)
  BY DEF Visible, Shown, RefreshDue, watchVars
<1> QED BY <1>1, <1>2 DEF SnapIsKnown, StaleIsKnown, Fresh, Reading, Elsewhere

LEMMA ReadBeginsKeepsInv ==
  ASSUME StaleInv, NEW all, NEW next \in {"cdread", "dotsread"}, ReadBegins(all, next),
         dots' = all, UNCHANGED <<disk, path, watchVars>>,
         next = "cdread" \/ Elsewhere
  PROVE  StaleInv'
<1> USE DEF StaleInv
<1>1. Types' /\ Watched'
  BY DEF Types, Watched, Unwatched, watchVars, Elsewhere, ReadBegins
<1>2. snap' = Visible(path)'
  BY DEF Visible, Shown, ReadBegins
<1> QED BY <1>1, <1>2 DEF SnapIsKnown, StaleIsKnown, Reading, ReadBegins

LEMMA ReadEndsKeepsInv ==
  ASSUME StaleInv,
         ReadEnds("cdread", "cdwatch") \/ ReadEnds("dotsread", "loop")
  PROVE  StaleInv'
<1> USE DEF StaleInv
<1>1. UNCHANGED <<disk, dots, path, watch, queue, batch, thread, signal>>
  BY DEF ReadEnds, diskVars, watchVars
<1>2. Types' /\ Watched'
  BY <1>1 DEF ReadEnds, Types, Watched, Unwatched
<1>3. Visible(path)' = Visible(path) /\ (RefreshDue' <=> RefreshDue)
  BY <1>1 DEF Visible, Shown, RefreshDue
<1>4. Reading /\ ~Reading'
  BY DEF ReadEnds, Reading
<1>5. lost \/ torn => lost'
  BY Zenon DEF ReadEnds
<1>6. ~torn => list' \in {snap, Visible(path)}
  BY DEF ReadEnds
<1> QED BY <1>2, <1>3, <1>4, <1>5, <1>6 DEF SnapIsKnown, StaleIsKnown, Fresh

LEMMA ChangeDirKeepsInv ==
  ASSUME StaleInv, NEW d \in Dirs, ChangeDir(d)
  PROVE  StaleInv'
<1> USE DEF StaleInv
<1>1. Types' /\ main' \in {"cd", "dead"}
  BY DEF ChangeDir, Types, diskVars
<1> QED BY <1>1 DEF Watched, Unwatched, SnapIsKnown, StaleIsKnown, Reading

LEMMA CdWatchesKeepsInv ==
  ASSUME StaleInv, CdWatches
  PROVE  StaleInv'
<1> USE DEF StaleInv
<1>1. UNCHANGED <<disk, dots, path, list, queue, batch, signal, snap, torn, lost>>
  BY DEF CdWatches, diskVars, entryVars, readVars
<1>2. main = "cdwatch" /\ main' = "loop" /\ watch' = path
  BY DEF CdWatches
<1>3. Types' /\ Watched'
  BY <1>1, <1>2 DEF Types, Watched
<1>4. Visible(path)' = Visible(path) /\ (RefreshDue' <=> RefreshDue)
  BY <1>1 DEF Visible, Shown, RefreshDue
<1> QED BY <1>1, <1>2, <1>3, <1>4 DEF SnapIsKnown, StaleIsKnown, Fresh, Reading

LEMMA UserKeepsInv ==
  ASSUME StaleInv, User PROVE StaleInv'
<1>1. CASE \E d \in Dirs : ChangeDir(d)
  BY <1>1, ChangeDirKeepsInv
<1>2. CASE ToggleDotfiles
  <2>1. /\ Elsewhere /\ ReadBegins(~dots, "dotsread") /\ dots' = ~dots
        /\ UNCHANGED <<disk, path, watchVars>>
    BY <1>2 DEF ToggleDotfiles, Elsewhere, diskVars
  <2> QED BY <2>1, ReadBeginsKeepsInv
<1>3. CASE (\E step \in {-1, 1} : MoveCursor(step)) \/ MoveTop \/ MoveBottom
  <2>1. PICK i : SetCursor(i)
    BY <1>3 DEF MoveCursor, MoveTop, MoveBottom
  <2>2. /\ Elsewhere /\ Elsewhere'
        /\ UNCHANGED <<disk, dots, path, list, watchVars, snap, torn, lost>>
    BY <2>1 DEF SetCursor, Elsewhere, diskVars, entryVars, readVars
  <2> QED BY <2>2, ElsewhereKeepsInv
<1>4. CASE SelectCurrent \/ CopyEntries \/ DeleteEntry \/ Abort \/ OpenFile
  <2>1. /\ Elsewhere /\ Elsewhere'
        /\ UNCHANGED <<disk, dots, path, list, watchVars, snap, torn, lost>>
    BY <1>4 DEF SelectCurrent, CopyEntries, DeleteEntry, Abort, OpenFile, Spawn,
                Elsewhere, diskVars, entryVars, readVars
  <2> QED BY <2>1, ElsewhereKeepsInv
<1>5. CASE Confirm \/ \E op \in {"cp", "mv"} : PasteEntries(op)
  <2>1. main \in {"loop", "prompt"} /\ \E j : Spawn(j)
    BY <1>5 DEF Confirm, PasteEntries
  <2>2. /\ Elsewhere /\ Elsewhere'
        /\ UNCHANGED <<disk, dots, path, list, watchVars, snap, torn, lost>>
    BY <2>1 DEF Spawn, Elsewhere, entryVars, readVars
  <2> QED BY <2>2, ElsewhereKeepsInv
<1> QED BY <1>1, <1>2, <1>3, <1>4, <1>5 DEF User

LEMMA MainLoopKeepsInv ==
  ASSUME StaleInv, MainLoop \/ ProgramEnds PROVE StaleInv'
<1>1. CASE CdReadBegins
  <2>1. ReadBegins(dots, "cdread") /\ UNCHANGED <<disk, dots, path, watchVars>>
    BY <1>1 DEF CdReadBegins, diskVars
  <2> QED BY <2>1, ReadBeginsKeepsInv
<1>2. CASE CdReadEnds \/ ToggleEnds
  BY <1>2, ReadEndsKeepsInv DEF CdReadEnds, ToggleEnds
<1>3. CASE CdWatches
  BY <1>3, CdWatchesKeepsInv
<1>4. CASE ForkReturns \/ ForkFails \/ CommandLeft \/ ProgramEnds
  <2>1. /\ Elsewhere /\ Elsewhere'
        /\ UNCHANGED <<disk, dots, path, list, watchVars, snap, torn, lost>>
    BY <1>4 DEF ForkReturns, ForkFails, CommandLeft, ProgramEnds, WaitReturns,
                Elsewhere, diskVars, entryVars, readVars
  <2> QED BY <2>1, ElsewhereKeepsInv
<1> QED BY <1>1, <1>2, <1>3, <1>4 DEF MainLoop

LEMMA StaleInvariant == Spec => []StaleInv
<1>1. Init => StaleInv
  BY DirsAssumption DEF Init, StaleInv, Types, Watched, Unwatched, SnapIsKnown, Reading,
     StaleIsKnown, Fresh, Visible, Shown
<1>2. StaleInv /\ [Next]_vars => StaleInv'
  <2> SUFFICES ASSUME StaleInv, [Next]_vars PROVE StaleInv'
    OBVIOUS
  <2>1. CASE World
    BY <2>1, OneFileIsOutside, RenameIsOutside, OutsideKeepsInv DEF World, StaleInv
  <2>2. CASE JobRuns
    BY <2>2, JobIsOutside, OutsideKeepsInv DEF StaleInv
  <2>3. CASE User \/ Watcher \/ Handler
    BY <2>3, UserKeepsInv, WatcherKeepsInv, HandlerKeepsInv
  <2>4. CASE MainLoop \/ ProgramEnds
    BY <2>4, MainLoopKeepsInv
  <2>5. CASE UNCHANGED vars
    BY <2>5 DEF vars, StaleInv, Types, Watched, Unwatched, SnapIsKnown, Reading,
       StaleIsKnown, Fresh, RefreshDue, Visible, Shown
  <2> QED BY <2>1, <2>2, <2>3, <2>4, <2>5 DEF Next
<1> QED BY <1>1, <1>2, PTL DEF Spec

(* No change is missed: entries that differ from the directory will be     *)
(* read again, or the change fell into one of the gaps that lost names.    *)
THEOREM NoWakeUpIsLost == Spec => []StaleIsKnown
<1>1. StaleInv => StaleIsKnown
  BY DEF StaleInv
<1> QED BY <1>1, StaleInvariant, PTL

-----------------------------------------------------------------------------
(* Deletions.                                                              *)

(* The user's marks and those of the entries agree, unless the entries were*)
(* read again; a mark of an entry is always one of the user's.             *)
MarksKnown ==
  /\ main \in {"cd", "cdread", "cdwatch"} => chosen = {}
  /\ main = "cdwatch" => marks = {}
  /\ main \notin {"cd", "cdread", "dead"} =>
       marks \subseteq chosen /\ (placed => marks = chosen)

(* During the question.                                                    *)
Asked ==
  main = "prompt" =>
    /\ acted = [meant |-> acted.meant, got |-> {}, read |-> acted.read]
    /\ sel = acted.meant \/ acted.read

SeenInv == MarksKnown /\ Asked /\ DeletesWhatWasSeen

SeenVars == <<main, marks, chosen, placed, sel, acted>>

LEMMA OthersKeepSeen ==
  ASSUME SeenInv, World \/ JobRuns \/ Watcher \/ HandlerIgnores PROVE SeenInv'
<1>1. UNCHANGED SeenVars
  <2>1. CASE World
    BY <2>1 DEF World, Create, Remove, Rename, entryVars, selVars, jobVars, SeenVars
  <2>2. CASE JobRuns
    BY <2>2 DEF JobRuns, entryVars, selVars, SeenVars
  <2>3. CASE Watcher \/ HandlerIgnores
    BY <2>3 DEF Watcher, WatcherStarts, ReadEvents, SendSignal, HandlerIgnores,
                entryVars, selVars, jobVars, SeenVars
  <2> QED BY <2>1, <2>2, <2>3
<1> QED BY <1>1 DEF SeenVars, SeenInv, MarksKnown, Asked, DeletesWhatWasSeen

LEMMA ReadsKeepSeen ==
  ASSUME SeenInv,
         HandlerReads \/ ReadEnds("cdread", "cdwatch") \/ ReadEnds("dotsread", "loop")
  PROVE  SeenInv'
<1>1. marks' = {} /\ placed' = FALSE /\ UNCHANGED <<chosen, sel, acted>>
  BY DEF HandlerReads, ReadEnds, jobVars
<1>2. \/ main' = main
      \/ main = "cdread" /\ main' = "cdwatch"
      \/ main' = "loop"
  BY DEF HandlerReads, ReadEnds
<1> QED BY <1>1, <1>2 DEF SeenInv, MarksKnown, Asked, DeletesWhatWasSeen

LEMMA UserKeepsSeen ==
  ASSUME SeenInv, User PROVE SeenInv'
<1> USE DEF SeenInv
<1>1. CASE \E d \in Dirs : ChangeDir(d)
  BY <1>1 DEF ChangeDir, entryVars, jobVars, MarksKnown, Asked, DeletesWhatWasSeen
<1>2. CASE ToggleDotfiles
  BY <1>2 DEF ToggleDotfiles, ReadBegins, entryVars, selVars, jobVars, MarksKnown, Asked,
              DeletesWhatWasSeen
<1>3. CASE (\E step \in {-1, 1} : MoveCursor(step)) \/ MoveTop \/ MoveBottom
  <2>1. PICK i : SetCursor(i)
    BY <1>3 DEF MoveCursor, MoveTop, MoveBottom
  <2>2. main = "loop" /\ UNCHANGED <<main, marks, chosen, sel, acted>>
    BY <2>1 DEF SetCursor, entryVars, selVars, jobVars
  <2>3. placed' => placed \/ chosen = {}
    BY <2>1, Zenon DEF SetCursor
  <2> QED BY <2>2, <2>3 DEF MarksKnown, Asked, DeletesWhatWasSeen
<1>4. CASE SelectCurrent
  <2>1. PICK n : \/ n \in marks /\ marks' = marks \ {n} /\ chosen' = chosen \ {n}
                 \/ n \notin marks /\ marks' = marks \cup {n} /\ chosen' = chosen \cup {n}
    BY <1>4 DEF SelectCurrent
  <2>2. main = "loop" /\ UNCHANGED <<main, placed, sel, acted>>
    BY <1>4 DEF SelectCurrent, jobVars
  <2> QED BY <2>1, <2>2 DEF MarksKnown, Asked, DeletesWhatWasSeen
<1>5. CASE CopyEntries
  BY <1>5 DEF CopyEntries, entryVars, jobVars, MarksKnown, Asked, DeletesWhatWasSeen
<1>6. CASE DeleteEntry
  <2>1. placed => Marked = Meant
    BY <1>6 DEF DeleteEntry, MarksKnown, Marked, Meant
  <2>2. /\ sel' = Marked
        /\ acted' = [meant |-> Meant, got |-> {}, read |-> ~placed]
    BY <1>6 DEF DeleteEntry
  <2>3. Asked' /\ DeletesWhatWasSeen'
    BY <2>1, <2>2 DEF Asked, DeletesWhatWasSeen
  <2>4. MarksKnown'
    BY <1>6 DEF DeleteEntry, MarksKnown, entryVars
  <2> QED BY <2>3, <2>4
<1>7. CASE Abort
  BY <1>7 DEF Abort, DropSelection, NoDeletion, entryVars, MarksKnown, Asked,
              DeletesWhatWasSeen
<1>8. CASE Confirm
  <2>1. PICK what \in Followed :
          /\ Spawn([op |-> "rm", what |-> what, to |-> NoDir])
          /\ acted' = [acted EXCEPT !.got = what, !.read = @ \/ stale]
    BY <1>8 DEF Confirm
  <2>2. main = "prompt" /\ chosen' = marks
    BY <1>8 DEF Confirm, DropSelection
  <2>3. main' = "fork" /\ UNCHANGED <<marks, placed>>
    BY <2>1 DEF Spawn, entryVars
  <2>4. acted' = [meant |-> acted.meant, got |-> what, read |-> (acted.read \/ stale)]
    BY <2>1, <2>2 DEF Asked
  <2>5. ~stale => what = sel
    BY DEF Followed
  <2>6. DeletesWhatWasSeen'
    BY <2>2, <2>4, <2>5 DEF Asked, DeletesWhatWasSeen
  <2> QED BY <2>2, <2>3, <2>6 DEF MarksKnown, Asked
<1>9. CASE (\E op \in {"cp", "mv"} : PasteEntries(op)) \/ OpenFile
  <2>1. /\ main = "loop" /\ main' = "fork" /\ UNCHANGED <<marks, placed, acted>>
        /\ chosen' \in {marks, chosen}
    BY <1>9 DEF PasteEntries, OpenFile, Spawn, DropSelection, entryVars, selVars
  <2> QED BY <2>1 DEF MarksKnown, Asked, DeletesWhatWasSeen
<1> QED BY <1>1, <1>2, <1>3, <1>4, <1>5, <1>6, <1>7, <1>8, <1>9 DEF User

LEMMA MainLoopKeepsSeen ==
  ASSUME SeenInv, MainLoop \/ ProgramEnds PROVE SeenInv'
<1> USE DEF SeenInv
<1>1. CASE CdReadBegins
  BY <1>1 DEF CdReadBegins, ReadBegins, entryVars, selVars, jobVars, MarksKnown, Asked,
              DeletesWhatWasSeen
<1>2. CASE CdReadEnds \/ ToggleEnds
  BY <1>2, ReadsKeepSeen DEF CdReadEnds, ToggleEnds
<1>3. CASE CdWatches
  BY <1>3 DEF CdWatches, entryVars, selVars, jobVars, MarksKnown, Asked, DeletesWhatWasSeen
<1>4. CASE ForkReturns \/ ForkFails \/ CommandLeft \/ ProgramEnds
  <2>1. /\ main \in {"fork", "wait", "nowait"} /\ main' \in {"wait", "nowait", "loop"}
        /\ acted' \in {acted, NoDeletion}
        /\ UNCHANGED <<marks, chosen, placed>>
    BY <1>4 DEF ForkReturns, ForkFails, CommandLeft, ProgramEnds, WaitReturns,
                entryVars, selVars, jobVars
  <2> QED BY <2>1 DEF MarksKnown, Asked, DeletesWhatWasSeen, NoDeletion
<1> QED BY <1>1, <1>2, <1>3, <1>4 DEF MainLoop

(* A deletion acts on what the user had marked, or on the entry under the  *)
(* cursor, unless the entries were read again since the user last looked.  *)
THEOREM DeletionIsAsSeen == Spec => []DeletesWhatWasSeen
<1>1. Init => SeenInv
  BY DEF Init, SeenInv, MarksKnown, Asked, DeletesWhatWasSeen, NoDeletion
<1>2. SeenInv /\ [Next]_vars => SeenInv'
  <2> SUFFICES ASSUME SeenInv, [Next]_vars PROVE SeenInv'
    OBVIOUS
  <2>1. CASE World \/ JobRuns \/ Watcher \/ HandlerIgnores
    BY <2>1, OthersKeepSeen
  <2>2. CASE HandlerReads
    BY <2>2, ReadsKeepSeen
  <2>3. CASE User
    BY <2>3, UserKeepsSeen
  <2>4. CASE MainLoop \/ ProgramEnds
    BY <2>4, MainLoopKeepsSeen
  <2>5. CASE UNCHANGED vars
    BY <2>5 DEF vars, SeenInv, MarksKnown, Asked, DeletesWhatWasSeen
  <2> QED BY <2>1, <2>2, <2>3, <2>4, <2>5 DEF Next, Handler
<1>3. SeenInv => DeletesWhatWasSeen
  BY DEF SeenInv
<1> QED BY <1>1, <1>2, <1>3, PTL DEF Spec

-----------------------------------------------------------------------------
(* The cursor.                                                             *)

CursorInv ==
  /\ idx \in Int
  /\ list \in SUBSET Names /\ snap \in SUBSET Names
  /\ placed /\ list # {} => OnEntry

LEMMA EntriesCounted ==
  ASSUME NEW S \in SUBSET Names, S # {}
  PROVE  Cardinality(S) \in Nat /\ Cardinality(S) > 0
<1>1. IsFiniteSet(S)
  BY NamesAssumption, FS_Subset
<1> QED BY <1>1, FS_EmptySet, FS_CardinalityType

LEMMA ClampedOnEntry ==
  ASSUME NEW i \in Int, list \in SUBSET Names, list # {}
  PROVE  Clamped(i) \in 0 .. Cardinality(list) - 1
BY EntriesCounted DEF Clamped

LEMMA ShownAreNames ==
  ASSUME Types, NEW all PROVE Shown(path, all) \in SUBSET Names
BY DEF Types, Shown

LEMMA UserKeepsCursor ==
  ASSUME CursorInv, Types, User PROVE CursorInv'
<1> USE DEF CursorInv
<1>1. CASE \E d \in Dirs : ChangeDir(d)
  BY <1>1 DEF ChangeDir, entryVars, readVars, OnEntry
<1>2. CASE ToggleDotfiles
  <2>1. snap' \in SUBSET Names
    BY <1>2, ShownAreNames DEF ToggleDotfiles, ReadBegins
  <2> QED BY <1>2, <2>1 DEF ToggleDotfiles, entryVars, OnEntry
<1>3. CASE (\E step \in {-1, 1} : MoveCursor(step)) \/ MoveTop \/ MoveBottom
  <2>1. PICK i \in Int : SetCursor(i) /\ (list # {} => i \in 0 .. Cardinality(list) - 1)
    <3>1. CASE \E step \in {-1, 1} : MoveCursor(step)
      <4>1. PICK step \in {-1, 1} : list # {} /\ SetCursor(Clamped(idx + step))
        BY <3>1 DEF MoveCursor
      <4>2. Clamped(idx + step) \in 0 .. Cardinality(list) - 1
        BY <4>1, ClampedOnEntry
      <4> QED BY <4>1, <4>2
    <3>2. CASE MoveTop
      BY <3>2, EntriesCounted DEF MoveTop
    <3>3. CASE MoveBottom
      <4>1. Cardinality(list) \in Nat
        BY NamesAssumption, FS_Subset, FS_CardinalityType
      <4> QED BY <3>3, <4>1, EntriesCounted DEF MoveBottom
    <3> QED BY <1>3, <3>1, <3>2, <3>3
  <2>2. idx' = i /\ UNCHANGED <<list, snap>>
    BY <2>1 DEF SetCursor, entryVars, readVars
  <2>3. list # {} => Cardinality(list) \in Nat
    BY EntriesCounted
  <2> QED BY <2>1, <2>2, <2>3 DEF OnEntry
<1>4. CASE SelectCurrent \/ CopyEntries \/ DeleteEntry \/ Abort \/ Confirm
           \/ (\E op \in {"cp", "mv"} : PasteEntries(op)) \/ OpenFile
  <2>1. UNCHANGED <<idx, list, snap, placed>>
    BY <1>4 DEF SelectCurrent, CopyEntries, DeleteEntry, Abort, Confirm, PasteEntries,
                OpenFile, Spawn, entryVars, readVars
  <2> QED BY <2>1 DEF OnEntry
<1> QED BY <1>1, <1>2, <1>3, <1>4 DEF User

LEMMA OthersKeepCursor ==
  ASSUME CursorInv, Types, World \/ JobRuns \/ Watcher \/ HandlerIgnores
  PROVE  CursorInv'
<1>1. UNCHANGED <<idx, list, snap, placed>>
  <2>1. CASE World
    BY <2>1 DEF World, Create, Remove, Rename, entryVars, readVars
  <2>2. CASE JobRuns
    BY <2>2 DEF JobRuns, entryVars, readVars
  <2>3. CASE Watcher \/ HandlerIgnores
    BY <2>3 DEF Watcher, WatcherStarts, ReadEvents, SendSignal, HandlerIgnores,
                entryVars, readVars
  <2> QED BY <2>1, <2>2, <2>3
<1> QED BY <1>1 DEF CursorInv, OnEntry

LEMMA ReadsKeepCursor ==
  ASSUME CursorInv, Types,
         HandlerReads \/ ReadEnds("cdread", "cdwatch") \/ ReadEnds("dotsread", "loop")
  PROVE  CursorInv'
<1>1. placed' = FALSE /\ idx' = idx /\ snap' \in {snap, {}}
  BY DEF HandlerReads, ReadEnds
<1>2. list' \in SUBSET Names
  BY ShownAreNames DEF HandlerReads, ReadEnds, Visible, CursorInv
<1> QED BY <1>1, <1>2 DEF CursorInv

LEMMA MainLoopKeepsCursor ==
  ASSUME CursorInv, Types, MainLoop \/ ProgramEnds PROVE CursorInv'
<1>1. CASE CdReadBegins
  <2>1. snap' \in SUBSET Names
    BY <1>1, ShownAreNames DEF CdReadBegins, ReadBegins
  <2> QED BY <1>1, <2>1 DEF CdReadBegins, entryVars, CursorInv, OnEntry
<1>2. CASE CdReadEnds \/ ToggleEnds
  BY <1>2, ReadsKeepCursor DEF CdReadEnds, ToggleEnds
<1>3. CASE CdWatches
  <2>1. idx' = 0 /\ UNCHANGED <<list, snap>>
    BY <1>3 DEF CdWatches, entryVars, readVars
  <2> QED BY <2>1, EntriesCounted DEF CursorInv, OnEntry
<1>4. CASE ForkReturns \/ ForkFails \/ CommandLeft \/ ProgramEnds
  <2>1. UNCHANGED <<idx, list, snap, placed>>
    BY <1>4 DEF ForkReturns, ForkFails, CommandLeft, ProgramEnds, WaitReturns,
                entryVars, readVars
  <2> QED BY <2>1 DEF CursorInv, OnEntry
<1> QED BY <1>1, <1>2, <1>3, <1>4 DEF MainLoop

(* The cursor stands on an entry, if there is one and the entries were not *)
(* read again since it was set.                                            *)
THEOREM CursorStaysOnEntries == Spec => []CursorOnEntry
<1>1. Init => CursorInv
  <2> SUFFICES ASSUME Init PROVE CursorInv
    OBVIOUS
  <2>1. idx = 0 /\ snap = {} /\ list \in SUBSET Names
    BY DirsAssumption DEF Init
  <2> QED BY <2>1, EntriesCounted DEF CursorInv, OnEntry
<1>2. CursorInv /\ Types /\ [Next]_vars => CursorInv'
  <2> SUFFICES ASSUME CursorInv, Types, [Next]_vars PROVE CursorInv'
    OBVIOUS
  <2>1. CASE World \/ JobRuns \/ Watcher \/ HandlerIgnores
    BY <2>1, OthersKeepCursor
  <2>2. CASE HandlerReads
    BY <2>2, ReadsKeepCursor
  <2>3. CASE User
    BY <2>3, UserKeepsCursor
  <2>4. CASE MainLoop \/ ProgramEnds
    BY <2>4, MainLoopKeepsCursor
  <2>5. CASE UNCHANGED vars
    BY <2>5 DEF vars, CursorInv, OnEntry
  <2> QED BY <2>1, <2>2, <2>3, <2>4, <2>5 DEF Next, Handler
<1>3. StaleInv => Types
  BY DEF StaleInv
<1>4. CursorInv => CursorOnEntry
  BY DEF CursorInv, CursorOnEntry
<1> QED BY <1>1, <1>2, <1>3, <1>4, StaleInvariant, PTL DEF Spec

-----------------------------------------------------------------------------
(* Types.                                                                  *)

(* A set of numbers has a least element.                                   *)
LEMMA Least ==
  ASSUME NEW S \in SUBSET Nat, S # {}
  PROVE  \E n \in S : \A m \in S : n <= m
<1>1. PICK n \in S : \A m \in S : ~(<<m, n>> \in OpToRel(<, Nat))
  BY NatLessThanWellFounded, WFMin, Zenon
<1>2. \A m \in S : ~(m < n)
  BY <1>1 DEF OpToRel
<1> QED BY <1>2

(* How many elements of S are less than n.                                 *)
Rank(S, n) == Cardinality({m \in S : m < n})

(* The least element above one of rank i has rank i + 1.                   *)
LEMMA NextRank ==
  ASSUME NEW S \in SUBSET Nat, IsFiniteSet(S), NEW i \in Nat, i + 1 < Cardinality(S),
         NEW n \in S, Rank(S, n) = i
  PROVE  \E k \in S : Rank(S, k) = i + 1
<1> DEFINE Below(k) == {m \in S : m < k}
           Above == {m \in S : n < m}
<1>1. IsFiniteSet(Below(n)) /\ Cardinality(Below(n)) = i /\ n \notin Below(n)
  BY FS_Subset DEF Rank
<1>2. Cardinality(Below(n) \cup {n}) = i + 1
  BY <1>1, FS_AddElement
<1>3. Above # {}
  <2> SUFFICES ASSUME Above = {} PROVE FALSE
    OBVIOUS
  <2>1. S = Below(n) \cup {n}
    <3>1. ASSUME NEW m \in S PROVE m < n \/ m = n
      <4>1. ~(n < m)
        OBVIOUS
      <4>2. m \in Nat /\ n \in Nat
        OBVIOUS
      <4> QED BY <4>1, <4>2
    <3> QED BY <3>1
  <2>2. Cardinality(S) = i + 1
    BY <1>2, <2>1, Zenon
  <2> QED BY <2>2
<1>4. PICK k \in Above : \A m \in Above : k <= m
  BY <1>3, Least
<1>5. Below(k) = Below(n) \cup {n}
  <2>1. k \in Nat /\ n \in Nat /\ n < k
    BY <1>4
  <2>2. ASSUME NEW m \in S PROVE m < k <=> m < n \/ m = n
    <3>1. m \in Nat /\ (n < m => k <= m)
      BY <1>4
    <3> QED BY <2>1, <3>1
  <2> QED BY <2>2
<1> QED BY <1>2, <1>4, <1>5 DEF Rank

(* A finite set of numbers has an element of every rank.                   *)
LEMMA NthExists ==
  ASSUME NEW S \in SUBSET Nat, IsFiniteSet(S), NEW i \in Nat, i < Cardinality(S)
  PROVE  Nth(S, i) \in S
<1> DEFINE Bad == {j \in Nat : j < Cardinality(S) /\ ~\E n \in S : Rank(S, n) = j}
<1>1. Cardinality(S) \in Nat
  BY FS_CardinalityType
<1>2. Bad = {}
  <2> SUFFICES ASSUME Bad # {} PROVE FALSE
    OBVIOUS
  <2>1. Bad \in SUBSET Nat
    OBVIOUS
  <2>2. PICK j \in Bad : \A m \in Bad : j <= m
    <3> HIDE DEF Bad
    <3> QED BY <2>1, Least
  <2>3. CASE j = 0
    <3>1. S # {}
      BY <2>2, <2>3, FS_EmptySet
    <3>2. PICK n \in S : \A m \in S : n <= m
      BY <3>1, Least
    <3>3. {m \in S : m < n} = {}
      <4>1. ASSUME NEW m \in S PROVE ~(m < n)
        <5>1. m \in Nat /\ n \in Nat /\ n <= m
          BY <3>2
        <5> QED BY <5>1
      <4> QED BY <4>1
    <3>4. Rank(S, n) = 0
      BY <3>3, FS_EmptySet DEF Rank
    <3> QED BY <2>2, <2>3, <3>4
  <2>4. CASE j # 0
    <3>1. j - 1 \in Nat /\ j - 1 < Cardinality(S) /\ (j - 1) + 1 = j /\ ~(j <= j - 1)
      BY <1>1, <2>2, <2>4
    <3>2. PICK n \in S : Rank(S, n) = j - 1
      BY <2>2, <3>1
    <3>3. (j - 1) + 1 < Cardinality(S)
      BY <2>2, <3>1
    <3>4. \E k \in S : Rank(S, k) = (j - 1) + 1
      BY <3>1, <3>2, <3>3, NextRank
    <3> QED BY <2>2, <3>1, <3>4
  <2> QED BY <2>3, <2>4
<1>3. \E n \in S : Rank(S, n) = i
  BY <1>2
<1> QED BY <1>3 DEF Nth, Rank

(* The command that the loop waits for is always the same one, and one that*)
(* copies or moves has a directory to write to.                            *)
JobsKnown ==
  /\ fgJob.op = "wait" => fgJob = Wait
  /\ fgJob.op \in {"cp", "mv"} => fgJob.to \in Dirs

(* TypeOK, by the part of the program that holds the variables.            *)
DiskOK == disk \in [Dirs -> SUBSET Names] /\ changes \in 0 .. MaxChanges
PaneOK ==
  /\ dots \in BOOLEAN /\ path \in Dirs
  /\ list \in SUBSET Names /\ marks \in SUBSET list
  /\ idx \in Int /\ placed \in BOOLEAN
LoopOK ==
  /\ main \in {"loop", "cd", "cdread", "cdwatch", "dotsread", "prompt", "fork",
               "wait", "nowait", "dead"}
  /\ snap \in SUBSET Names /\ torn \in BOOLEAN
SelOK == sel \in SUBSET Paths /\ chosen \in SUBSET Names /\ stale \in BOOLEAN
JobOK ==
  /\ job \in Jobs /\ fgJob \in Jobs
  /\ job.op # "wait" /\ (job.op \in {"cp", "mv"} => job.to \in Dirs)
  /\ JobsKnown
ActedOK == acted \in [meant : SUBSET Paths, got : SUBSET Paths, read : BOOLEAN]
WatchOK ==
  /\ watch \in Dirs \cup {NoDir}
  /\ queue \in 0 .. MaxQueue /\ batch \in 0 .. MaxQueue
  /\ thread \in {"start", "run"} /\ signal \in BOOLEAN /\ lost \in BOOLEAN

TypeInv == DiskOK /\ PaneOK /\ LoopOK /\ SelOK /\ JobOK /\ ActedOK /\ WatchOK

(* The cursor, if it is on an entry, picks one that exists.                *)
LEMMA CurrentIsPath ==
  ASSUME PaneOK PROVE Current \in SUBSET Paths /\ (OnEntry => Nth(list, idx) \in list)
<1>1. list \in SUBSET Nat /\ IsFiniteSet(list)
  BY NamesAssumption, FS_Subset DEF PaneOK
<1>2. CASE OnEntry
  <2>1. idx \in Nat /\ idx < Cardinality(list)
    BY <1>2 DEF OnEntry, PaneOK
  <2>2. Nth(list, idx) \in list
    BY <1>1, <2>1, NthExists
  <2>3. Nth(list, idx) \in Names /\ path \in Dirs
    BY <2>2 DEF PaneOK
  <2>4. <<path, Nth(list, idx)>> \in Paths
    BY <2>3, Zenon DEF Paths
  <2> QED BY <2>2, <2>4 DEF Current
<1>3. CASE ~OnEntry
  BY <1>3 DEF Current
<1> QED BY <1>2, <1>3

(* What a command is given are paths.                                      *)
LEMMA CommandsGetPaths ==
  ASSUME PaneOK, SelOK
  PROVE  /\ Marked \in SUBSET Paths /\ Meant \in SUBSET Paths
         /\ Followed \subseteq SUBSET Paths
<1>1. Marked \in SUBSET Paths
  <2>1. {path} \X marks \in SUBSET Paths
    BY DEF PaneOK, Paths
  <2> QED BY <2>1, CurrentIsPath DEF Marked
<1>2. Meant \in SUBSET Paths
  <2>1. {path} \X chosen \in SUBSET Paths
    BY DEF PaneOK, SelOK, Paths
  <2> QED BY <2>1, CurrentIsPath DEF Meant
<1>3. Followed \subseteq SUBSET Paths
  <2>1. \A n \in list : <<path, n>> \in Paths
    BY DEF PaneOK, Paths
  <2> QED BY <2>1 DEF Followed, SelOK
<1> QED BY <1>1, <1>2, <1>3

LEMMA NoDeletionIsTyped ==
  NoDeletion \in [meant : SUBSET Paths, got : SUBSET Paths, read : BOOLEAN]
<1>1. {} \in SUBSET Paths /\ FALSE \in BOOLEAN
  OBVIOUS
<1> QED BY <1>1 DEF NoDeletion

LEMMA ChangeIsTyped ==
  ASSUME WatchOK, NEW ds, Changed(ds) \/ Renamed(ds), UNCHANGED <<watch, batch, thread, signal>>
  PROVE  WatchOK'
<1>1. lost' \in BOOLEAN
  BY DEF WatchOK, Changed, Renamed
<1>2. queue' \in 0 .. MaxQueue
  BY BoundsAssumption DEF WatchOK, Changed, Renamed
<1> QED BY <1>1, <1>2 DEF WatchOK

LEMMA OthersKeepTypes ==
  ASSUME TypeInv, World \/ JobRuns PROVE TypeInv'
<1> USE DEF TypeInv
<1>1. Types
  BY BoundsAssumption DEF Types, DiskOK, PaneOK, WatchOK
<1>2. PICK ds : Outside(ds)
  BY <1>1, OneFileIsOutside, RenameIsOutside, JobIsOutside DEF World
<1>3. disk' \in [Dirs -> SUBSET Names] /\ WatchOK'
  BY <1>2, ChangeIsTyped DEF Outside
<1>4. changes' \in 0 .. MaxChanges
  <2>1. Counted \/ changes' = changes
    BY DEF World, Create, Remove, Rename, JobRuns
  <2> QED BY <2>1, BoundsAssumption DEF Counted, DiskOK
<1>5. /\ UNCHANGED <<dots, path, entryVars, idx, placed, main, snap, torn, selVars, fgJob, acted>>
      /\ job' \in {job, NoJob}
  <2>1. CASE World
    BY <2>1 DEF World, Create, Remove, Rename, readVars, jobVars
  <2>2. CASE JobRuns
    BY <2>2 DEF JobRuns, readVars
  <2> QED BY <2>1, <2>2
<1>6. JobOK'
  BY <1>5 DEF JobOK, JobsKnown, NoJob, Jobs
<1> QED BY <1>3, <1>4, <1>5, <1>6 DEF DiskOK, PaneOK, LoopOK, SelOK, ActedOK, entryVars, selVars

LEMMA WatcherKeepsTypes ==
  ASSUME TypeInv, Watcher PROVE TypeInv'
<1> USE DEF TypeInv
<1>1. UNCHANGED <<diskVars, dots, path, entryVars, idx, main, selVars, jobVars, readVars, placed>>
  BY DEF Watcher, WatcherStarts, ReadEvents, SendSignal
<1>2. WatchOK'
  <2>1. CASE WatcherStarts
    BY <2>1 DEF WatcherStarts, WatchOK, PaneOK
  <2>2. CASE ReadEvents
    BY <2>2, BoundsAssumption DEF ReadEvents, WatchOK
  <2>3. CASE SendSignal
    BY <2>3, BoundsAssumption DEF SendSignal, WatchOK
  <2> QED BY <2>1, <2>2, <2>3 DEF Watcher
<1> QED BY <1>1, <1>2 DEF DiskOK, PaneOK, LoopOK, SelOK, JobOK, JobsKnown, ActedOK, diskVars,
     entryVars, selVars, jobVars, readVars

LEMMA VisibleIsTyped ==
  ASSUME DiskOK, PaneOK, NEW all PROVE Shown(path, all) \in SUBSET Names
BY DEF DiskOK, PaneOK, Shown

(* The entries are read, by the handler or at the end of a read.           *)
LEMMA EntriesAreTyped ==
  ASSUME TypeInv,
         HandlerReads \/ ReadEnds("cdread", "cdwatch") \/ ReadEnds("dotsread", "loop")
  PROVE  TypeInv'
<1> USE DEF TypeInv
<1>1. UNCHANGED <<diskVars, dots, path, idx, sel, chosen, jobVars, watch, queue, batch, thread>>
  BY DEF HandlerReads, ReadEnds, watchVars
<1>2. list' \in SUBSET Names
  BY VisibleIsTyped DEF HandlerReads, ReadEnds, Visible, LoopOK
<1>3. PaneOK'
  BY <1>1, <1>2 DEF PaneOK, HandlerReads, ReadEnds
<1>4. main' \in {main, "cdwatch", "loop"} /\ snap' \in {snap, {}} /\ torn' \in BOOLEAN
  BY DEF HandlerReads, ReadEnds, LoopOK
<1>5. lost' \in BOOLEAN /\ signal' \in BOOLEAN /\ stale' \in BOOLEAN
  BY DEF HandlerReads, ReadEnds, WatchOK, watchVars
<1> QED BY <1>1, <1>3, <1>4, <1>5 DEF DiskOK, LoopOK, SelOK, JobOK, JobsKnown, ActedOK,
     WatchOK, diskVars, jobVars

LEMMA HandlerKeepsTypes ==
  ASSUME TypeInv, Handler PROVE TypeInv'
<1> USE DEF TypeInv
<1>1. CASE HandlerIgnores
  <2>1. lost' \in BOOLEAN
    BY <1>1, Zenon DEF HandlerIgnores
  <2>2. /\ signal' = FALSE
        /\ UNCHANGED <<diskVars, dots, path, entryVars, idx, main, selVars, jobVars,
                       watch, queue, batch, thread, readVars, placed>>
    BY <1>1 DEF HandlerIgnores
  <2>3. WatchOK'
    BY <2>1, <2>2 DEF WatchOK
  <2> QED BY <2>2, <2>3 DEF DiskOK, PaneOK, LoopOK, SelOK, JobOK, JobsKnown, ActedOK,
          diskVars, entryVars, selVars, jobVars, readVars
<1>2. CASE HandlerReads
  BY <1>2, EntriesAreTyped
<1> QED BY <1>1, <1>2 DEF Handler

LEMMA LoopKeepsTypes ==
  ASSUME TypeInv, MainLoop \/ ProgramEnds PROVE TypeInv'
<1> USE DEF TypeInv
<1>1. CASE CdReadBegins
  <2>1. snap' \in SUBSET Names
    BY <1>1, VisibleIsTyped DEF CdReadBegins, ReadBegins
  <2>2. /\ main' = "cdread" /\ torn' = FALSE /\ lost' = FALSE
        /\ UNCHANGED <<diskVars, dots, path, entryVars, idx, selVars, jobVars, watchVars,
                       placed>>
    BY <1>1 DEF CdReadBegins, ReadBegins
  <2>3. LoopOK' /\ WatchOK'
    BY <2>1, <2>2 DEF LoopOK, WatchOK, watchVars
  <2> QED BY <2>2, <2>3 DEF DiskOK, PaneOK, SelOK, JobOK, JobsKnown, ActedOK,
          diskVars, entryVars, selVars, jobVars
<1>2. CASE CdReadEnds \/ ToggleEnds
  BY <1>2, EntriesAreTyped DEF CdReadEnds, ToggleEnds
<1>3. CASE CdWatches
  BY <1>3 DEF CdWatches, DiskOK, PaneOK, LoopOK, SelOK, JobOK, JobsKnown, ActedOK, WatchOK,
     diskVars, entryVars, selVars, jobVars, readVars
<1>4. CASE ForkReturns \/ ForkFails \/ CommandLeft \/ ProgramEnds
  <2>1. /\ UNCHANGED <<diskVars, dots, path, entryVars, idx, selVars, watchVars, readVars,
                       lost, placed>>
        /\ main' \in {"wait", "nowait", "loop"}
        /\ acted' \in {acted, NoDeletion} /\ fgJob' \in {fgJob, NoJob}
        /\ job' \in {job, NoJob} \/ (job' = fgJob /\ fgJob # Wait)
    BY <1>4 DEF ForkReturns, ForkFails, CommandLeft, ProgramEnds, WaitReturns, jobVars
  <2>2. JobOK'
    BY <2>1 DEF JobOK, JobsKnown, NoJob, Jobs
  <2>3. ActedOK'
    BY <2>1, NoDeletionIsTyped DEF ActedOK
  <2> QED BY <2>1, <2>2, <2>3 DEF DiskOK, PaneOK, LoopOK, SelOK, WatchOK,
          diskVars, entryVars, selVars, watchVars, readVars
<1> QED BY <1>1, <1>2, <1>3, <1>4 DEF MainLoop

(* A command is given to spawn, or the question before it ends.            *)
LEMMA SpawnKeepsTypes ==
  ASSUME TypeInv, NEW j \in Jobs, Spawn(j), j.op = "wait" => j = Wait,
         j.op \in {"cp", "mv"} => j.to \in Dirs, SelOK', ActedOK'
  PROVE  TypeInv'
<1> USE DEF TypeInv
<1>1. changes' \in 0 .. MaxChanges
  BY BoundsAssumption DEF Spawn, Counted, DiskOK
<1>2. JobOK'
  BY DEF Spawn, JobOK, JobsKnown
<1> QED BY <1>1, <1>2 DEF Spawn, DiskOK, PaneOK, LoopOK, WatchOK, entryVars, watchVars, readVars

LEMMA DropIsTyped ==
  ASSUME PaneOK, DropSelection PROVE SelOK'
BY DEF PaneOK, DropSelection, SelOK

LEMMA UserKeepsTypes ==
  ASSUME TypeInv, User PROVE TypeInv'
<1> USE DEF TypeInv
<1>1. ASSUME NEW d \in Dirs, ChangeDir(d) PROVE TypeInv'
  <2>1. WatchOK'
    BY <1>1, BoundsAssumption DEF ChangeDir, WatchOK
  <2>2. LoopOK' /\ SelOK'
    BY <1>1 DEF ChangeDir, LoopOK, SelOK, readVars
  <2> QED BY <1>1, <2>1, <2>2 DEF ChangeDir, DiskOK, PaneOK, JobOK, JobsKnown, ActedOK,
          diskVars, entryVars, jobVars
<1>2. CASE ToggleDotfiles
  <2>1. snap' \in SUBSET Names
    BY <1>2, VisibleIsTyped DEF ToggleDotfiles, ReadBegins
  <2>2. dots' \in BOOLEAN
    BY <1>2 DEF ToggleDotfiles
  <2>3. /\ main' = "dotsread" /\ torn' = FALSE /\ lost' = FALSE
        /\ UNCHANGED <<diskVars, path, entryVars, idx, selVars, jobVars, watchVars, placed>>
    BY <1>2 DEF ToggleDotfiles, ReadBegins
  <2>4. LoopOK' /\ WatchOK'
    BY <2>1, <2>3 DEF LoopOK, WatchOK, watchVars
  <2> QED BY <2>2, <2>3, <2>4 DEF DiskOK, PaneOK, SelOK, JobOK, JobsKnown, ActedOK,
          diskVars, entryVars, selVars, jobVars
<1>3. CASE (\E step \in {-1, 1} : MoveCursor(step)) \/ MoveTop \/ MoveBottom
  <2>1. Cardinality(list) \in Int
    <3>1. IsFiniteSet(list)
      BY NamesAssumption, FS_Subset DEF PaneOK
    <3> QED BY <3>1, FS_CardinalityType
  <2>2. PICK i \in Int : SetCursor(i)
    BY <1>3, <2>1 DEF MoveCursor, MoveTop, MoveBottom, Clamped, PaneOK
  <2>3. placed' \in BOOLEAN
    BY <2>2, Zenon DEF SetCursor
  <2> QED BY <2>2, <2>3 DEF SetCursor, DiskOK, PaneOK, LoopOK, SelOK, JobOK, JobsKnown,
          ActedOK, WatchOK, diskVars, entryVars, selVars, jobVars, watchVars, readVars
<1>4. CASE SelectCurrent
  <2>1. PICK n \in list :
          \/ marks' = marks \ {n} /\ chosen' = chosen \ {n}
          \/ marks' = marks \cup {n} /\ chosen' = chosen \cup {n}
    BY <1>4, CurrentIsPath DEF SelectCurrent
  <2>2. list' = list /\ marks' \in SUBSET list /\ chosen' \in SUBSET Names
    BY <1>4, <2>1 DEF SelectCurrent, PaneOK, SelOK
  <2> QED BY <1>4, <2>2 DEF SelectCurrent, DiskOK, PaneOK, LoopOK, SelOK, JobOK, JobsKnown,
          ActedOK, WatchOK, diskVars, jobVars, watchVars, readVars
<1>5. CASE CopyEntries \/ DeleteEntry
  <2>1. sel' = Marked /\ stale' = FALSE /\ chosen' = chosen
    BY <1>5 DEF CopyEntries, DeleteEntry
  <2>2. SelOK'
    BY <2>1, CommandsGetPaths DEF SelOK
  <2>3. acted' \in {acted, [meant |-> Meant, got |-> {}, read |-> ~placed]}
    BY <1>5 DEF CopyEntries, DeleteEntry, jobVars
  <2>4. ActedOK'
    <3>1. (~placed) \in BOOLEAN
      BY Zenon
    <3>2. Meant \in SUBSET Paths /\ {} \in SUBSET Paths
      BY CommandsGetPaths
    <3>3. [meant |-> Meant, got |-> {}, read |-> ~placed]
            \in [meant : SUBSET Paths, got : SUBSET Paths, read : BOOLEAN]
      BY <3>1, <3>2
    <3> QED BY <2>3, <3>3 DEF ActedOK
  <2>5. /\ UNCHANGED <<diskVars, dots, path, entryVars, idx, job, fgJob, watchVars, readVars,
                       lost, placed>>
        /\ main' \in {main, "prompt"}
    BY <1>5 DEF CopyEntries, DeleteEntry, jobVars
  <2> QED BY <2>2, <2>4, <2>5 DEF DiskOK, PaneOK, LoopOK, JobOK, JobsKnown, WatchOK,
          diskVars, entryVars, watchVars, readVars
<1>6. CASE Abort
  <2>1. SelOK' /\ ActedOK'
    BY <1>6, DropIsTyped, NoDeletionIsTyped DEF Abort, ActedOK
  <2> QED BY <1>6, <2>1 DEF Abort, DiskOK, PaneOK, LoopOK, JobOK, JobsKnown, WatchOK,
          diskVars, entryVars, watchVars, readVars
<1>7. CASE Confirm
  <2>1. PICK what \in Followed :
          /\ Spawn([op |-> "rm", what |-> what, to |-> NoDir])
          /\ acted' = [acted EXCEPT !.got = what, !.read = @ \/ stale]
    BY <1>7 DEF Confirm
  <2>2. what \in SUBSET Paths
    BY CommandsGetPaths
  <2>3. ActedOK'
    <3>1. acted.meant \in SUBSET Paths
      BY DEF ActedOK
    <3>2. acted' = [meant |-> acted.meant, got |-> what, read |-> (acted.read \/ stale)]
      BY <2>1 DEF ActedOK
    <3>3. (acted.read \/ stale) \in BOOLEAN
      OBVIOUS
    <3> QED BY <2>2, <3>1, <3>2, <3>3 DEF ActedOK
  <2>4. SelOK'
    BY <1>7, DropIsTyped DEF Confirm
  <2>5. [op |-> "rm", what |-> what, to |-> NoDir] \in Jobs
    BY <2>2 DEF Jobs
  <2> QED BY <2>1, <2>3, <2>4, <2>5, SpawnKeepsTypes
<1>8. ASSUME NEW op \in {"cp", "mv"}, PasteEntries(op) PROVE TypeInv'
  <2>1. PICK what \in Followed :
          Spawn([op |-> op, what |-> what, to |-> path]) /\ UNCHANGED acted
    BY <1>8 DEF PasteEntries
  <2>2. what \in SUBSET Paths
    BY CommandsGetPaths
  <2>3. SelOK' /\ ActedOK'
    BY <1>8, <2>1, DropIsTyped DEF PasteEntries, ActedOK
  <2>4. [op |-> op, what |-> what, to |-> path] \in Jobs /\ path \in Dirs
    BY <2>2 DEF Jobs, PaneOK
  <2> QED BY <2>1, <2>3, <2>4, SpawnKeepsTypes
<1>9. CASE OpenFile
  <2>1. Wait = [op |-> "wait", what |-> {}, to |-> NoDir]
    BY DEF Wait, NoJob
  <2>2. Wait \in Jobs /\ Wait.op = "wait"
    BY <2>1 DEF Jobs
  <2>3. Spawn(Wait) /\ SelOK' /\ ActedOK'
    BY <1>9 DEF OpenFile, selVars, SelOK, ActedOK
  <2> QED BY <2>2, <2>3, SpawnKeepsTypes
<1> QED BY <1>1, <1>2, <1>3, <1>4, <1>5, <1>6, <1>7, <1>8, <1>9 DEF User

(* What the pane holds is well formed: its entries and marks are names,    *)
(* what its commands are given are paths (the cursor picks an entry that   *)
(* exists), and a copy or a move has a directory to write to.              *)
THEOREM TypeCorrect == Spec => []TypeOK
<1>1. Init => TypeInv
  <2> SUFFICES ASSUME Init PROVE TypeInv
    OBVIOUS
  <2>1. DiskOK /\ list \in SUBSET Names
    BY DirsAssumption, BoundsAssumption DEF Init, DiskOK
  <2>2. PaneOK
    BY <2>1 DEF Init, PaneOK
  <2>3. LoopOK /\ SelOK
    BY DEF Init, LoopOK, SelOK
  <2>4. JobOK /\ ActedOK
    BY NoDeletionIsTyped DEF Init, JobOK, JobsKnown, Jobs, NoJob, ActedOK
  <2>5. queue = 0 /\ batch = 0 /\ 0 \in 0 .. MaxQueue
    BY BoundsAssumption DEF Init
  <2>6. signal \in BOOLEAN /\ lost \in BOOLEAN
    BY DEF Init
  <2>7. WatchOK
    BY <2>5, <2>6 DEF Init, WatchOK
  <2> QED BY <2>1, <2>2, <2>3, <2>4, <2>7 DEF TypeInv
<1>2. TypeInv /\ [Next]_vars => TypeInv'
  <2> SUFFICES ASSUME TypeInv, [Next]_vars PROVE TypeInv'
    OBVIOUS
  <2>1. CASE World \/ JobRuns
    BY <2>1, OthersKeepTypes
  <2>2. CASE User \/ Watcher \/ Handler
    BY <2>2, UserKeepsTypes, WatcherKeepsTypes, HandlerKeepsTypes
  <2>3. CASE MainLoop \/ ProgramEnds
    BY <2>3, LoopKeepsTypes
  <2>4. CASE UNCHANGED vars
    BY <2>4 DEF vars, TypeInv, DiskOK, PaneOK, LoopOK, SelOK, JobOK, JobsKnown, ActedOK, WatchOK
  <2> QED BY <2>1, <2>2, <2>3, <2>4 DEF Next
<1>3. TypeInv => TypeOK
  BY DEF TypeInv, DiskOK, PaneOK, LoopOK, SelOK, JobOK, ActedOK, WatchOK, TypeOK
<1> QED BY <1>1, <1>2, <1>3, PTL DEF Spec
==============================================================================
