-------------------------------- MODULE Sfm --------------------------------
(***************************************************************************)
(* A pane of the file manager sfm (sfm.c): what it shows of a directory    *)
(* that others change.  A thread waits for the inotify events of the       *)
(* directory and sends the process a signal; its handler reads the         *)
(* directory again, wherever the main loop happens to be.  The main loop   *)
(* changes the directory, takes pointers into the entries, asks for a      *)
(* confirmation and runs commands; while one runs the handler does nothing.*)
(*                                                                         *)
(* The other pane has a thread and a signal of its own and shares only the *)
(* main loop.  Left out: drawing, scrolling, searching.                    *)
(***************************************************************************)
EXTENDS Integers, FiniteSets

CONSTANTS
  Dirs,       \* directories
  Names,      \* names of files, numbers in the order of qsort
  Hidden,     \* names that begin with a dot
  Disks,      \* what the directories may hold at the start
  NoDir,      \* no watch
  MaxChanges, \* bound on the changes that others make and the commands
  MaxQueue    \* bound on the events queued

ASSUME NamesAssumption == Names \subseteq Nat /\ IsFiniteSet(Names) /\ Hidden \subseteq Names
ASSUME DirsAssumption ==
  Dirs # {} /\ NoDir \notin Dirs /\ Disks \subseteq [Dirs -> SUBSET Names]
ASSUME BoundsAssumption == MaxChanges \in Nat /\ MaxQueue \in Nat

VARIABLES
  disk,     \* the names in each directory
  dots,     \* show_dotfiles
  path,     \* the directory of the pane
  list,     \* the names in its entries
  marks,    \* those of them with the flag "selected"
  idx,      \* current_index
  main,     \* where the main loop is
  sel,      \* selected_entries: the paths it points to
  job,      \* a command that runs in the background
  watch,    \* the directory watched
  queue,    \* the number of events to be read
  batch,    \* the number of events read, and not yet signalled
  thread,   \* the watcher, "start" or "run"
  signal,   \* the signal is pending
  fgJob,    \* the command for which the main loop forks
  changes,  \* history: the number of changes by others and of commands
  snap,     \* history: the directory when the main loop began to read it
  torn,     \* history: the handler ran while the main loop read
  lost,     \* history: a change came unwatched, or its signal was dropped
  placed,   \* history: cursor and marks were set after the entries were read
  chosen,   \* history: what the user marked
  stale,    \* history: entries were freed after sel had been taken
  acted     \* history: what a deletion is to act on, and does act on

diskVars  == <<disk, changes>>
entryVars == <<list, marks>>
watchVars == <<watch, queue, batch, thread, signal>>
selVars   == <<sel, stale, chosen>>
jobVars   == <<job, fgJob, acted>>
readVars  == <<snap, torn>>
vars == <<disk, dots, path, list, marks, idx, main, sel, job, watch, queue,
          batch, thread, signal, fgJob, changes, snap, torn, lost, placed,
          chosen, stale, acted>>

-----------------------------------------------------------------------------
(* What should_skip_entry leaves of a directory.                           *)
Shown(d, all) == {n \in disk[d] : all \/ n \notin Hidden}
Visible(d) == Shown(d, dots)

(* The i-th entry, and the one under the cursor, if that is on an entry.   *)
Nth(S, i) == CHOOSE n \in S : Cardinality({m \in S : m < n}) = i
OnEntry == 0 <= idx /\ idx < Cardinality(list)
Current == IF OnEntry THEN {<<path, Nth(list, idx)>>} ELSE {}

NoJob == [op |-> "none", what |-> {}, to |-> NoDir]
NoDeletion == [meant |-> {}, got |-> {}, read |-> FALSE]
Wait == [NoJob EXCEPT !.op = "wait"]

Event(d) == IF watch = d THEN 1 ELSE 0

-----------------------------------------------------------------------------
(* Others, among them the commands that sfm runs, change the directories.  *)

(* The pane has no watch from set_panes until its thread begins, and from  *)
(* the read of another directory until the watch for it.                   *)
Unwatched == thread = "start" \/ main \in {"cd", "cdread", "cdwatch"}

Changed(ds) ==
  /\ queue' = queue + (IF watch \in ds THEN 1 ELSE 0) /\ queue' <= MaxQueue
  /\ lost' = (lost \/ (path \in ds /\ Unwatched))

Counted == changes < MaxChanges /\ changes' = changes + 1

Create(d, n) ==
  /\ Counted /\ n \notin disk[d]
  /\ disk' = [disk EXCEPT ![d] = @ \cup {n}]
  /\ Changed({d})
  /\ UNCHANGED <<dots, path, entryVars, idx, main, selVars, jobVars, watch,
                 batch, thread, signal, readVars, placed>>

Remove(d, n) ==
  /\ Counted /\ n \in disk[d]
  /\ disk' = [disk EXCEPT ![d] = @ \ {n}]
  /\ Changed({d})
  /\ UNCHANGED <<dots, path, entryVars, idx, main, selVars, jobVars, watch,
                 batch, thread, signal, readVars, placed>>

(* IN_CREATE and IN_DELETE do not report a file that is renamed.           *)
Renamed(ds) ==
  /\ lost' = (lost \/ path \in ds)
  /\ UNCHANGED queue

Rename(d, e, n) ==
  /\ Counted /\ n \in disk[d] /\ d # e
  /\ disk' = [disk EXCEPT ![d] = @ \ {n}, ![e] = @ \cup {n}]
  /\ Renamed({d, e})
  /\ UNCHANGED <<dots, path, entryVars, idx, main, selVars, jobVars, watch,
                 batch, thread, signal, readVars, placed>>

(* rm, cp or mv in the background does its work.                           *)
JobRuns ==
  LET from(d) == {p[2] : p \in {q \in job.what : q[1] = d /\ q[2] \in disk[d]}}
      all     == UNION {from(d) : d \in Dirs}
      less    == [d \in Dirs |-> disk[d] \ from(d)]
      more    == [disk EXCEPT ![job.to] = @ \cup all]
      touched == {d \in Dirs : disk'[d] # disk[d]}
  IN
  /\ job.op \in {"rm", "cp", "mv"} /\ job' = NoJob
  /\ CASE job.op = "rm" -> disk' = less /\ Changed(touched)
       [] job.op = "cp" -> disk' = more /\ Changed(touched)
       [] job.op = "mv" -> disk' = [less EXCEPT ![job.to] = @ \cup all] /\ Renamed(touched)
  /\ UNCHANGED <<changes, dots, path, entryVars, idx, main, selVars, fgJob, acted,
                 watch, batch, thread, signal, readVars, placed>>

-----------------------------------------------------------------------------
(* The thread of the pane.                                                 *)

(* event_handler begins; before it there is no watch.                      *)
WatcherStarts ==
  /\ thread = "start" /\ thread' = "run"
  /\ watch' = path
  /\ UNCHANGED <<diskVars, dots, path, entryVars, idx, main, selVars, jobVars,
                 queue, batch, signal, readVars, lost, placed>>

ReadEvents ==
  /\ thread = "run" /\ batch = 0 /\ queue > 0
  /\ batch' = queue /\ queue' = 0
  /\ UNCHANGED <<diskVars, dots, path, entryVars, idx, main, selVars, jobVars,
                 watch, thread, signal, readVars, lost, placed>>

(* 50 ms later, for each event.                                            *)
SendSignal ==
  /\ batch > 0 /\ batch' = batch - 1
  /\ signal' = TRUE
  /\ UNCHANGED <<diskVars, dots, path, entryVars, idx, main, selVars, jobVars,
                 watch, queue, thread, readVars, lost, placed>>

-----------------------------------------------------------------------------
(* sighandler                                                              *)

(* fork_pid > 0.                                                           *)
Forked == main \in {"wait", "nowait"}
Reading == main \in {"cdread", "dotsread"}

HandlerIgnores ==
  /\ signal /\ Forked
  /\ signal' = FALSE
  /\ lost' = (lost \/ list # Visible(path))
  /\ UNCHANGED <<diskVars, dots, path, entryVars, idx, main, selVars, jobVars,
                 watch, queue, batch, thread, readVars, placed>>

(* set_pane_entries: the entries are new, their flags are not kept.        *)
HandlerReads ==
  /\ signal /\ ~Forked /\ main # "dead"
  /\ signal' = FALSE
  /\ list' = Visible(path) /\ marks' = {}
  /\ lost' = FALSE /\ placed' = FALSE /\ stale' = (sel # {})
  /\ torn' = (torn \/ Reading)
  /\ UNCHANGED <<diskVars, dots, path, idx, main, sel, chosen, jobVars,
                 watch, queue, batch, thread, snap>>

-----------------------------------------------------------------------------
(* The main loop: reading a directory.                                     *)

ReadBegins(all, next) ==
  /\ snap' = Shown(path, all)
  /\ torn' = FALSE /\ lost' = FALSE
  /\ main' = next

(* The entries are those of some moment of the read; if the handler ran in *)
(* between, its array was filled on from where this one was.               *)
ReadEnds(now, next) ==
  /\ main = now /\ main' = next
  /\ IF torn THEN list' \in SUBSET Names ELSE list' \in {snap, Visible(path)}
  /\ lost' = (lost \/ torn)
  /\ marks' = {} /\ stale' = (sel # {}) /\ placed' = FALSE
  /\ snap' = {} /\ torn' = FALSE
  /\ UNCHANGED <<diskVars, dots, path, idx, sel, chosen, jobVars, watchVars>>

(* cd_to_parent and open_entry on a directory; inotify_rm_watch fails, and *)
(* the program with it, if the thread has not yet begun.                   *)
ChangeDir(d) ==
  /\ main = "loop" /\ d # path
  /\ path' = d
  /\ IF watch = NoDir THEN main' = "dead" /\ UNCHANGED <<watch, queue>>
     ELSE main' = "cd" /\ watch' = NoDir /\ queue' = queue + 1
  /\ queue' <= MaxQueue
  /\ chosen' = {}
  /\ UNCHANGED <<diskVars, dots, entryVars, idx, sel, stale, jobVars, batch,
                 thread, signal, readVars, lost, placed>>

CdReadBegins ==
  /\ main = "cd" /\ ReadBegins(dots, "cdread")
  /\ UNCHANGED <<diskVars, dots, path, entryVars, idx, selVars, jobVars, watchVars,
                 placed>>

CdReadEnds == ReadEnds("cdread", "cdwatch")

(* Mutant of CdWatches: the cursor is left where it was.                   *)
CdWatchesOnly ==
  /\ main = "cdwatch" /\ main' = "loop"
  /\ watch' = path /\ placed' = TRUE
  /\ UNCHANGED <<diskVars, dots, path, entryVars, selVars, jobVars, queue, idx,
                 batch, thread, signal, readVars, lost>>

(* Mutant of CdWatches: no watch for the new directory.                    *)
CdWatchesNothing ==
  /\ main = "cdwatch" /\ main' = "loop"
  /\ idx' = 0 /\ placed' = TRUE
  /\ UNCHANGED <<diskVars, dots, path, entryVars, selVars, jobVars, queue, watch,
                 batch, thread, signal, readVars, lost>>

CdWatches ==
  /\ main = "cdwatch" /\ main' = "loop"
  /\ watch' = path
  /\ idx' = 0 /\ placed' = TRUE
  /\ UNCHANGED <<diskVars, dots, path, entryVars, selVars, jobVars, queue,
                 batch, thread, signal, readVars, lost>>

ToggleDotfiles ==
  /\ main = "loop"
  /\ dots' = ~dots
  /\ ReadBegins(~dots, "dotsread")
  /\ UNCHANGED <<diskVars, path, entryVars, idx, selVars, jobVars, watchVars, placed>>

ToggleEnds == ReadEnds("dotsread", "loop")

-----------------------------------------------------------------------------
(* The main loop: cursor and marks.                                        *)

SetCursor(i) ==
  /\ main = "loop"
  /\ idx' = i /\ placed' = (placed \/ chosen = {})
  /\ UNCHANGED <<diskVars, dots, path, entryVars, main, selVars, jobVars, watchVars,
                 readVars, lost>>

Clamped(i) ==
  IF i < 0 THEN 0
  ELSE IF i >= Cardinality(list) THEN Cardinality(list) - 1 ELSE i

MoveCursor(step) == list # {} /\ SetCursor(Clamped(idx + step))
MoveTop == SetCursor(0)
MoveBottom == SetCursor(Cardinality(list) - 1)

(* select_cur_entry; outside of the entries it writes to other memory.     *)
SelectCurrent ==
  /\ main = "loop" /\ OnEntry
  /\ LET n == Nth(list, idx) IN
     IF n \in marks
     THEN marks' = marks \ {n} /\ chosen' = chosen \ {n}
     ELSE marks' = marks \cup {n} /\ chosen' = chosen \cup {n}
  /\ UNCHANGED <<diskVars, dots, path, list, idx, main, sel, stale, jobVars, watchVars,
                 readVars, lost, placed>>

-----------------------------------------------------------------------------
(* The main loop: commands on files.                                       *)

(* Mutant of Marked: all the entries when none has the flag.               *)
MarkedOrAll == {path} \X (IF marks = {} THEN list ELSE marks)

(* get_selected_paths, or the entry under the cursor.                      *)
Marked == IF marks = {} THEN Current ELSE {path} \X marks

(* What the user means: the marks made, or else the entry under the cursor.*)
Meant == IF chosen = {} THEN Current ELSE {path} \X chosen

(* The pointers of sel are followed: once the entries are freed they may   *)
(* lead to what was there, to an entry stored there now, or to none.       *)
Followed ==
  IF stale THEN {sel, {}} \cup {{<<path, n>>} : n \in list} ELSE {sel}

CopyEntries ==
  /\ main = "loop"
  /\ sel' = Marked /\ stale' = FALSE
  /\ UNCHANGED <<diskVars, dots, path, entryVars, idx, main, chosen, jobVars,
                 watchVars, readVars, lost, placed>>

(* delete_entry up to the question.                                        *)
DeleteEntry ==
  /\ main = "loop"
  /\ list # {} /\ idx < Cardinality(list)
  /\ sel' = Marked /\ stale' = FALSE
  /\ acted' = [meant |-> Meant, got |-> {}, read |-> ~placed]
  /\ main' = "prompt"
  /\ UNCHANGED <<diskVars, dots, path, entryVars, idx, chosen, job, fgJob,
                 watchVars, readVars, lost, placed>>

(* The user looks at the screen again.                                     *)
DropSelection ==
  /\ sel' = {} /\ stale' = FALSE
  /\ chosen' = marks

Abort ==
  /\ main = "prompt" /\ main' = "loop" /\ acted' = NoDeletion
  /\ DropSelection
  /\ UNCHANGED <<diskVars, dots, path, entryVars, idx, job, fgJob, watchVars,
                 readVars, lost, placed>>

(* A command is given to spawn.                                            *)
Spawn(j) ==
  /\ Counted
  /\ fgJob' = j /\ main' = "fork"
  /\ UNCHANGED <<disk, dots, path, entryVars, idx, job, watchVars, readVars,
                 lost, placed>>

Confirm ==
  /\ main = "prompt"
  /\ \E what \in Followed :
       /\ Spawn([op |-> "rm", what |-> what, to |-> NoDir])
       /\ acted' = [acted EXCEPT !.got = what, !.read = @ \/ stale]
  /\ DropSelection

(* paste_entries and move_entries.                                         *)
PasteEntries(op) ==
  /\ main = "loop" /\ sel # {}
  /\ \E what \in Followed :
       /\ Spawn([op |-> op, what |-> what, to |-> path])
       /\ UNCHANGED acted
  /\ DropSelection

(* open_entry on a file: an editor that is waited for.                     *)
OpenFile ==
  /\ main = "loop" /\ list # {} /\ OnEntry
  /\ Spawn(Wait)
  /\ UNCHANGED <<selVars, acted>>

(* execute_command: fork has returned in the child, fork_pid is not yet    *)
(* set in the parent.                                                      *)
ForkReturns ==
  /\ main = "fork" /\ job = NoJob
  /\ main' = IF fgJob = Wait THEN "wait" ELSE "nowait"
  /\ job' = IF fgJob = Wait THEN NoJob ELSE fgJob
  /\ fgJob' = NoJob /\ acted' = NoDeletion
  /\ UNCHANGED <<diskVars, dots, path, entryVars, idx, selVars,
                 watchVars, readVars, lost, placed>>

ForkFails ==
  /\ main = "fork" /\ main' = "loop" /\ fgJob' = NoJob /\ acted' = NoDeletion
  /\ UNCHANGED <<diskVars, dots, path, entryVars, idx, selVars, job,
                 watchVars, readVars, lost, placed>>

(* waitpid returns: at once with WNOHANG, or when the program has ended.   *)
WaitReturns(now) ==
  /\ main = now /\ main' = "loop"
  /\ UNCHANGED <<diskVars, dots, path, entryVars, idx, selVars, jobVars,
                 watchVars, readVars, lost, placed>>

ProgramEnds == WaitReturns("wait")
CommandLeft == WaitReturns("nowait")

-----------------------------------------------------------------------------
(* set_panes has read the directory, the thread has not begun.             *)
Init ==
  /\ disk \in Disks
  /\ dots = TRUE /\ path \in Dirs
  /\ list = disk[path] /\ marks = {} /\ idx = 0 /\ placed = TRUE
  /\ main = "loop" /\ sel = {} /\ chosen = {} /\ stale = FALSE
  /\ job = NoJob /\ fgJob = NoJob
  /\ acted = NoDeletion
  /\ watch = NoDir /\ queue = 0 /\ batch = 0 /\ thread = "start" /\ signal = FALSE
  /\ changes = 0 /\ snap = {} /\ torn = FALSE /\ lost = FALSE

World ==
  \/ \E d \in Dirs, n \in Names : Create(d, n) \/ Remove(d, n)
  \/ \E d, e \in Dirs, n \in Names : Rename(d, e, n)

User ==
  \/ \E d \in Dirs : ChangeDir(d)
  \/ ToggleDotfiles
  \/ \E step \in {-1, 1} : MoveCursor(step)
  \/ MoveTop \/ MoveBottom \/ SelectCurrent
  \/ CopyEntries \/ DeleteEntry \/ Abort \/ Confirm
  \/ \E op \in {"cp", "mv"} : PasteEntries(op)
  \/ OpenFile

Watcher == WatcherStarts \/ ReadEvents \/ SendSignal
Handler == HandlerIgnores \/ HandlerReads
MainLoop ==
  \/ CdReadBegins \/ CdReadEnds \/ CdWatches \/ ToggleEnds
  \/ ForkReturns \/ ForkFails \/ CommandLeft

Next == World \/ JobRuns \/ User \/ Watcher \/ Handler \/ MainLoop \/ ProgramEnds

Spec == Init /\ [][Next]_vars

-----------------------------------------------------------------------------
Paths == Dirs \X Names
Jobs == [op : {"none", "wait", "rm", "cp", "mv"}, what : SUBSET Paths, to : Dirs \cup {NoDir}]

TypeOK ==
  /\ disk \in [Dirs -> SUBSET Names] /\ changes \in 0 .. MaxChanges
  /\ dots \in BOOLEAN /\ path \in Dirs
  /\ list \in SUBSET Names /\ marks \in SUBSET list
  /\ idx \in Int
  /\ main \in {"loop", "cd", "cdread", "cdwatch", "dotsread", "prompt", "fork",
               "wait", "nowait", "dead"}
  /\ sel \in SUBSET Paths /\ chosen \in SUBSET Names /\ stale \in BOOLEAN
  /\ job \in Jobs /\ fgJob \in Jobs
  /\ job.op # "wait" /\ (job.op \in {"cp", "mv"} => job.to \in Dirs)
  /\ watch \in Dirs \cup {NoDir}
  /\ queue \in 0 .. MaxQueue /\ batch \in 0 .. MaxQueue
  /\ thread \in {"start", "run"} /\ signal \in BOOLEAN
  /\ snap \in SUBSET Names /\ torn \in BOOLEAN /\ lost \in BOOLEAN /\ placed \in BOOLEAN
  /\ acted \in [meant : SUBSET Paths, got : SUBSET Paths, read : BOOLEAN]

Fresh == list = Visible(path)
RefreshDue == queue > 0 \/ batch > 0 \/ signal

(* No wake-up is lost: entries that differ from the directory will be read *)
(* again, unless the change came while there was no watch, or was a        *)
(* rename, or its signal met a running command or another read.            *)
StaleIsKnown ==
  (main \notin {"cd", "cdread", "dotsread", "dead"} /\ ~Fresh) => lost \/ RefreshDue

(* What is deleted is what was marked, or stood under the cursor, when "d" *)
(* was typed, unless the entries were read again after the user had last   *)
(* looked.                                                                 *)
DeletesWhatWasSeen == acted.got \subseteq acted.meant \/ acted.read

(* The prompt of delete_entry is a confirmation (sfm.c:1160): nothing is   *)
(* deleted but what was marked or stood under the cursor.                  *)
DeletesConfirmed == acted.got \subseteq acted.meant

(* The cursor is on an entry, as long as there are entries and they were   *)
(* not read again since it was set.                                        *)
CursorOnEntry == (main = "loop" /\ list # {} /\ placed) => OnEntry
==============================================================================
