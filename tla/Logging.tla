------------------------------ MODULE Logging ------------------------------
(***************************************************************************)
(* The log of the process (logging.rs).  A thread that logs a line offers  *)
(* it to the bounded queue of the console writer, then writes it to        *)
(* latest.log and, every MaxLines lines, rolls that file to                *)
(* latest.1.log.gz without holding its lock.  A start first archives the   *)
(* log the previous run left.  Atomics, system calls and queue operations  *)
(* are steps, and the process may die between any two of them.             *)
(*                                                                         *)
(* A file is the set of lines it holds.  A compressed file that somebody   *)
(* still writes, or that two threads have written, is not whole; its       *)
(* writers go with it when it is renamed.                                  *)
(***************************************************************************)
EXTENDS Integers, Sequences, SequencesExt

CONSTANTS Threads,      \* threads that log
          MaxLines,     \* MAX_LINES_PER_FILE
          MaxRolled,    \* MAX_ROLLED_FILES
          MaxArchived,  \* MAX_ARCHIVED_LOGS
          MaxQueued,    \* MAX_QUEUED_LINES
          MaxLogged,    \* bound of the lines logged
          MaxCrashes,   \* bound of the crashes
          None

Lines == 1..MaxLogged

VARIABLES
    main,       \* the process: "dead", a step of archive_previous_log, or "up"
    task,       \* per thread: [pc, line, i, input]
    queued, dropped, console,   \* the console's queue, its drop counter and its writer
    count,      \* line_count
    latest, rolled, archives,   \* the files
    logged, crashes,
    rolls, archived,            \* history: rolls and archives begun
    moved,      \* history: the roll or archive that took a line out of latest.log
    unsafe,     \* history: lines written between the read and the truncation of a
                \* roll, in a file that could not be renamed, that could not be
                \* written, or in a thread's hands when the process died
    overlapped  \* history: two rolls have run at the same time
screen == <<queued, dropped, console>>
files == <<latest, rolled, archives>>
begun == <<rolls, archived>>
bounds == <<logged, crashes>>
lost == <<unsafe, overlapped>>
vars == <<main, task, screen, count, files, bounds, begun, moved, lost>>

Idle == [pc |-> "idle", line |-> None, i |-> 0, input |-> {}]

NewFile == [writers |-> {}, lines |-> {}, whole |-> FALSE, shared |-> FALSE]

\* File::create: a new file, or the old one cut to nothing under its writers.
Created(file, t) ==
    LET old == IF file = None THEN NewFile ELSE file
    IN  [NewFile EXCEPT !.writers = old.writers \cup {t}, !.shared = old.writers # {}]

\* encoder.finish, on the file t has open, whatever its name is by now.
Encoded(file, t, lines) ==
    IF file # None /\ t \in file.writers
      THEN [file EXCEPT !.writers = @ \ {t}, !.lines = lines, !.whole = ~file.shared]
      ELSE file

\* What the threads ts leave of a file they had open.
Abandoned(file, ts) == IF file = None THEN None ELSE [file EXCEPT !.writers = @ \ ts]

Init ==
    /\ main = "up"
    /\ task = [t \in Threads |-> Idle]
    /\ queued = 0 /\ dropped = 0 /\ console = "recv"
    /\ count = 0
    /\ latest = {} /\ rolled = [i \in 1..MaxRolled |-> None] /\ archives = <<>>
    /\ logged = 0 /\ crashes = 0
    /\ rolls = 0 /\ archived = 0
    /\ moved = [l \in Lines |-> None]
    /\ unsafe = {} /\ overlapped = FALSE

-----------------------------------------------------------------------------
(* The console writer.                                                       *)

At(t, label) == main = "up" /\ task[t].pc = label

\* ConsoleWriter::write: try_send ...
Offer(t) ==
    /\ At(t, "idle")
    /\ logged < MaxLogged
    /\ logged' = logged + 1
    /\ \/ /\ queued < MaxQueued
          /\ queued' = queued + 1
          /\ task' = [task EXCEPT ![t] = [Idle EXCEPT !.pc = "write", !.line = logged + 1]]
       \/ /\ queued = MaxQueued
          /\ task' = [task EXCEPT ![t] = [Idle EXCEPT !.pc = "drop", !.line = logged + 1]]
          /\ UNCHANGED queued
    /\ UNCHANGED <<main, dropped, console, count, files, crashes, begun, moved, lost>>

\* ... and, for a full queue, the drop counter.
CountDrop(t) ==
    /\ At(t, "drop")
    /\ dropped' = dropped + 1
    /\ task' = [task EXCEPT ![t].pc = "write"]
    /\ UNCHANGED <<main, queued, console, count, files, bounds, begun, moved, lost>>

\* The console-writer thread prints a line, then the notice of what was dropped.
PrintLine ==
    /\ main = "up" /\ console = "recv"
    /\ queued > 0
    /\ queued' = queued - 1
    /\ console' = "swap"
    /\ UNCHANGED <<main, task, dropped, count, files, bounds, begun, moved, lost>>

PrintNotice ==
    /\ main = "up" /\ console = "swap"
    /\ dropped' = 0
    /\ console' = "recv"
    /\ UNCHANGED <<main, task, queued, count, files, bounds, begun, moved, lost>>

-----------------------------------------------------------------------------
(* RollingFileWriter::write and roll.                                        *)

\* Threads between their read of latest.log and their truncation of it.
Taking == {t \in Threads : task[t].pc \in {"encode", "reopen"}}

Rolling == {t \in Threads : task[t].pc \in {"reset", "shift"}} \cup Taking

\* The line goes to the file under its lock ...
WriteLine(t) ==
    /\ At(t, "write")
    /\ latest' = latest \cup {task[t].line}
    /\ unsafe' = IF Taking = {} THEN unsafe ELSE unsafe \cup {task[t].line}
    /\ task' = [task EXCEPT ![t].pc = "count"]
    /\ UNCHANGED <<main, screen, count, rolled, archives, bounds, begun, moved, overlapped>>

\* ... if it can be written: the error is returned, and the line not counted ...
WriteFails(t) ==
    /\ At(t, "write")
    /\ unsafe' = unsafe \cup {task[t].line}
    /\ task' = [task EXCEPT ![t] = Idle]
    /\ UNCHANGED <<main, screen, count, files, bounds, begun, moved, overlapped>>

\* ... and to the counter after it is released: whoever reaches the limit rolls,
CountLine(t) ==
    /\ At(t, "count")
    /\ count' = count + 1
    /\ IF count + 1 >= MaxLines
         THEN /\ task' = [task EXCEPT ![t].pc = "reset"]
              /\ overlapped' = (overlapped \/ Rolling # {})
         ELSE task' = [task EXCEPT ![t] = Idle] /\ UNCHANGED overlapped
    /\ UNCHANGED <<main, screen, files, bounds, begun, moved, unsafe>>

\* having stored zero.
ResetCount(t) ==
    /\ At(t, "reset")
    /\ count' = 0
    /\ rolls' = rolls + 1
    /\ task' = [task EXCEPT ![t].pc = "shift", ![t].i = MaxRolled - 1]
    /\ UNCHANGED <<main, screen, files, bounds, archived, moved, lost>>

\* latest.i becomes latest.(i + 1), from the top down.
Shift(t) ==
    LET i == task[t].i
    IN  /\ At(t, "shift") /\ i > 0
        /\ rolled' = [rolled EXCEPT ![i + 1] = IF rolled[i] = None THEN @ ELSE rolled[i],
                                    ![i] = None]
        /\ task' = [task EXCEPT ![t].i = @ - 1]
        /\ UNCHANGED <<main, screen, count, latest, archives, bounds, begun, moved, lost>>

\* A rename that fails is ignored, and the next one, or File::create, takes the name.
ShiftFails(t) ==
    LET i == task[t].i
    IN  /\ At(t, "shift") /\ i > 0 /\ rolled[i] # None
        /\ unsafe' = unsafe \cup rolled[i].lines
        /\ task' = [task EXCEPT ![t].i = @ - 1]
        /\ UNCHANGED <<main, screen, count, files, bounds, begun, moved, overlapped>>

\* latest.log is read, without its lock, and latest.1 created.
TakeLatest(t) ==
    /\ At(t, "shift") /\ task[t].i = 0
    /\ rolled' = [rolled EXCEPT ![1] = Created(@, t)]
    /\ task' = [task EXCEPT ![t].pc = "encode", ![t].input = latest]
    /\ UNCHANGED <<main, screen, count, latest, archives, bounds, begun, moved, lost>>

EncodeRolled(t) ==
    /\ At(t, "encode")
    /\ rolled' = [i \in 1..MaxRolled |-> Encoded(rolled[i], t, task[t].input)]
    /\ task' = [task EXCEPT ![t].pc = "reopen"]
    /\ UNCHANGED <<main, screen, count, latest, archives, bounds, begun, moved, lost>>

\* The file is cut to nothing, under its lock.
Reopen(t) ==
    /\ At(t, "reopen")
    /\ latest' = {}
    /\ moved' = [l \in Lines |-> IF l \in task[t].input THEN <<"roll", rolls>> ELSE moved[l]]
    /\ task' = [task EXCEPT ![t] = Idle]
    /\ UNCHANGED <<main, screen, count, rolled, archives, bounds, begun, lost>>

\* M: the error is ignored and the file cut all the same.
M_RollFails(t) ==
    /\ (At(t, "shift") /\ task[t].i = 0) \/ (main = "up" /\ t \in Taking)
    /\ rolled' = [i \in 1..MaxRolled |-> Abandoned(rolled[i], {t})]
    /\ task' = [task EXCEPT ![t] = Idle]
    /\ latest' = {}
    /\ UNCHANGED <<main, screen, count, archives, bounds, begun, moved, lost>>

\* A step of roll fails: write returns the error, and the lines stay where they are.
RollFails(t) ==
    /\ (At(t, "shift") /\ task[t].i = 0) \/ (main = "up" /\ t \in Taking)
    /\ rolled' = [i \in 1..MaxRolled |-> Abandoned(rolled[i], {t})]
    /\ task' = [task EXCEPT ![t] = Idle]
    /\ UNCHANGED <<main, screen, count, latest, archives, bounds, begun, moved, lost>>

-----------------------------------------------------------------------------
(* A crash, and init in the next run.                                        *)

\* The process dies, or init returns an error: what was being written stays cut short.
Crash ==
    /\ main # "dead" /\ crashes < MaxCrashes
    /\ main' = "dead"
    /\ crashes' = crashes + 1
    /\ unsafe' = unsafe \cup
         {task[t].line : t \in {u \in Threads : task[u].pc \in {"drop", "write"}}}
    /\ task' = [t \in Threads |-> Idle]
    /\ queued' = 0 /\ dropped' = 0 /\ console' = "recv"
    /\ count' = 0
    /\ rolled' = [i \in 1..MaxRolled |-> Abandoned(rolled[i], Threads)]
    /\ UNCHANGED <<latest, archives, logged, begun, moved, overlapped>>

\* archive_previous_log: a log that is not empty gets an archive of its own,
Start ==
    /\ main = "dead"
    /\ IF latest = {} THEN main' = "prune" /\ UNCHANGED <<archives, archived>>
       ELSE /\ main' = "encode"
            /\ archived' = archived + 1
            /\ archives' = Append(archives, NewFile)
    /\ UNCHANGED <<task, screen, count, latest, rolled, bounds, rolls, moved, lost>>

\* is copied to it whole,
EncodeArchive ==
    /\ main = "encode"
    /\ archives' = [archives EXCEPT ![Len(archives)].lines = latest,
                                    ![Len(archives)].whole = TRUE]
    /\ main' = "remove"
    /\ UNCHANGED <<task, screen, count, latest, rolled, bounds, begun, moved, lost>>

\* and removed.
RemoveLatest ==
    /\ main = "remove"
    /\ moved' = [l \in Lines |-> IF l \in latest THEN <<"archive", archived>> ELSE moved[l]]
    /\ latest' = {}
    /\ main' = "prune"
    /\ UNCHANGED <<task, screen, count, rolled, archives, bounds, begun, lost>>

\* prune_old_archives keeps the newest; the writers of the new run open.
Prune ==
    /\ main = "prune"
    /\ archives' = SubSeq(archives, Max({1, Len(archives) - MaxArchived + 1}), Len(archives))
    /\ main' = "up"
    /\ UNCHANGED <<task, screen, count, latest, rolled, bounds, begun, moved, lost>>

Next ==
    \/ \E t \in Threads :
         \/ Offer(t) \/ CountDrop(t) \/ WriteLine(t) \/ WriteFails(t) \/ CountLine(t)
         \/ ResetCount(t) \/ Shift(t) \/ ShiftFails(t) \/ TakeLatest(t)
         \/ EncodeRolled(t) \/ Reopen(t) \/ RollFails(t)
    \/ PrintLine \/ PrintNotice
    \/ Crash \/ Start \/ EncodeArchive \/ RemoveLatest \/ Prune

Spec == Init /\ [][Next]_vars

-----------------------------------------------------------------------------
\* Lines that can be read back.
Kept ==
    LET gz == ToSet(rolled) \cup ToSet(archives)
    IN  latest \cup UNION {f.lines : f \in {g \in gz : g # None /\ g.whole}}

\* Lines past a retention limit: MaxRolled rolls, or MaxArchived archives, have begun
\* since the one that took the line.
Outlived(l) ==
    \/ moved[l] # None /\ moved[l][1] = "roll" /\ rolls >= moved[l][2] + MaxRolled
    \/ moved[l] # None /\ moved[l][1] = "archive" /\ archived >= moved[l][2] + MaxArchived

TypeOK ==
    /\ main \in {"dead", "encode", "remove", "prune", "up"}
    /\ task \in [Threads -> [pc : {"idle", "drop", "write", "count", "reset", "shift",
                                   "encode", "reopen"},
                             line : Lines \cup {None}, i : 0..MaxRolled, input : SUBSET Lines]]
    /\ queued \in 0..MaxQueued
    /\ dropped \in Nat
    /\ console \in {"recv", "swap"}
    /\ latest \subseteq Lines

\* A logged line, whatever the console did with it, can be read back from latest.log
\* or from a whole compressed file until a retention limit outlives it, over rolls that
\* cannot read, create or write a file, crashes at any step and archives begun twice.
\* Four things lose lines in this code, and nothing else does: a write between a roll's
\* read of latest.log and its truncation (writes do not wait for the roll); two rolls
\* that overlap; a rename that fails, whose error roll ignores, so that the file is
\* overwritten by the one below it, though "nothing overwrites a not-yet-moved file"
\* (logging.rs:355); and a write that fails or is not reached before the process dies.
LinesKept ==
    overlapped \/ \A l \in 1..logged :
        \/ l \in Kept \cup unsafe
        \/ Outlived(l)
        \/ \E t \in Threads : task[t].line = l /\ task[t].pc \in {"drop", "write"}
=============================================================================
