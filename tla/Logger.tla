-------------------------------- MODULE Logger --------------------------------
(***************************************************************************)
(* The logger of lib_c5t_logger.cc: a logger per name, created on its first *)
(* use, that writes each line into the file of the hour at which its writer *)
(* looked at the clock.  The clock is looked at before the mutex is taken,   *)
(* so two threads may take a logger forth and back between two hours.  A     *)
(* file that is found when a logger moves to it is first renamed away.       *)
(*                                                                         *)
(* The process may be killed at any moment and started again: the files      *)
(* stay.  Lines are numbers, in the order in which their writers began; the  *)
(* logger's own lines, which say what it does, are all Remark.               *)
(***************************************************************************)
EXTENDS Naturals, Sequences

CONSTANTS
  Threads,   \* the threads that log
  Names,     \* the names of loggers
  MaxHour,   \* bounds the clock
  MaxLines,  \* bounds how many lines are logged
  MaxFaults, \* bounds how many times a file cannot be opened
  MaxKills   \* bounds how many times the process is killed

ASSUME LoggerAssumption == {MaxHour, MaxLines, MaxFaults, MaxKills} \subseteq Nat

Hours == 0..MaxHour
None == MaxHour + 1
Remark == 0
Text == Seq(0..MaxLines)

VARIABLES
  clock,     \* the hour
  dirSet,    \* SetLogsDir has been called
  logger,    \* the loggers in per_file_loggers: "none", "stdout" or "file"
  active,    \* the hour of the file that is active, or None
  sound,     \* the active file was opened
  at,        \* how far each thread is in its call
  job,       \* what it writes: the name, the line, and the hour once it has looked
  notes,     \* which remarks the thread that has the logger's mutex is to write
  toList,    \* the loggers that a listing has yet to ask
  file,      \* the file of each name and hour
  old,       \* the files that were renamed away
  stdout,    \* what was written to stdout
  lines, faults, kills,  \* how many lines, failures and kills there were
  kept       \* history: the lines whose call has returned, and where they should be

callVars == <<at, job, notes>>
loggerVars == <<logger, active, sound>>
counts == <<lines, faults, kills>>
vars == <<clock, dirSet, loggerVars, callVars, toList, file, old, stdout, counts, kept>>

Sections == {"move", "open", "write"}  \* the mutex of the logger is held

\* A plausible bug: it is the singleton's mutex that is taken.
Free_Singleton(n) == \A t \in Threads : at[t] # "list"

\* A plausible bug: the mutex is taken when the clock is looked at, and taken again.
Free_Twice(n) == \A t \in Threads : job[t].name = n => at[t] \notin Sections \cup {"timed"}

Free(n) == \A t \in Threads : job[t].name = n => at[t] \notin Sections

Listing == \E t \in Threads : at[t] = "list"  \* the mutex of the singleton is held

LoggerTypeOK ==
  /\ clock \in Hours /\ dirSet \in BOOLEAN
  /\ logger \in [Names -> {"none", "stdout", "file"}]
  /\ active \in [Names -> Hours \cup {None}] /\ sound \in [Names -> BOOLEAN]
  /\ at \in [Threads -> {"idle", "found", "timed", "list"} \cup Sections]
  /\ job \in [Threads -> [name : Names, line : 0..MaxLines, hour : Hours]]
  /\ notes \in [Threads -> SUBSET {"started", "renamed"}] /\ toList \subseteq Names
  /\ file \in [Names -> [Hours -> Text]] /\ old \in [Names -> Seq(Hours \X Text)]
  /\ stdout \in Text
  /\ lines \in 0..MaxLines /\ faults \in 0..MaxFaults /\ kills \in 0..MaxKills
  /\ \A n \in Names : active[n] # None => logger[n] = "file"
  /\ \A t, u \in Threads : at[t] \in Sections /\ at[u] \in Sections /\ t # u => job[t].name # job[u].name

Init ==
  /\ clock = 0 /\ dirSet = FALSE
  /\ logger = [n \in Names |-> "none"]
  /\ active = [n \in Names |-> None] /\ sound = [n \in Names |-> FALSE]
  /\ at = [t \in Threads |-> "idle"] /\ notes = [t \in Threads |-> {}] /\ toList = {}
  /\ job \in [Threads -> {[name |-> n, line |-> 0, hour |-> 0] : n \in Names}]
  /\ file = [n \in Names |-> [h \in Hours |-> <<>>]] /\ old = [n \in Names |-> <<>>] /\ stdout = <<>>
  /\ lines = 0 /\ faults = 0 /\ kills = 0 /\ kept = {}

-----------------------------------------------------------------------------
(* The singleton.                                                          *)

\* Once only; the loggers that exist stay what they are.
SetLogsDir ==
  /\ ~dirSet
  /\ dirSet' = TRUE
  /\ UNCHANGED <<clock, loggerVars, callVars, toList, file, old, stdout, counts, kept>>

\* C5T_LOGGER(n), with the logger made if it is new.
LookUp(t, n) ==
  /\ at[t] = "idle" /\ ~Listing /\ lines < MaxLines
  /\ logger' = [logger EXCEPT ![n] = IF @ # "none" THEN @ ELSE IF dirSet THEN "file" ELSE "stdout"]
  /\ at' = [at EXCEPT ![t] = "found"] /\ lines' = lines + 1
  /\ job' = [job EXCEPT ![t] = [name |-> n, line |-> lines', hour |-> 0]]
  /\ UNCHANGED <<clock, dirSet, active, sound, notes, toList, file, old, stdout, faults, kills, kept>>

\* C5T_LOGGER_FIND asks one logger, C5T_LOGGER_LIST all there are, each under
\* its own mutex and with the singleton's held.
List(t) ==
  /\ at[t] = "idle" /\ ~Listing
  /\ at' = [at EXCEPT ![t] = "list"]
  /\ LET known == {n \in Names : logger[n] # "none"}
     IN  toList' \in {known} \cup {{n} : n \in known}
  /\ UNCHANGED <<clock, dirSet, loggerVars, job, notes, file, old, stdout, counts, kept>>

ListLogger(n) ==
  /\ n \in toList /\ Free(n)
  /\ toList' = toList \ {n}
  /\ UNCHANGED <<clock, dirSet, loggerVars, callVars, file, old, stdout, counts, kept>>

ListEnd(t) ==
  /\ at[t] = "list" /\ toList = {}
  /\ at' = [at EXCEPT ![t] = "idle"]
  /\ UNCHANGED <<clock, dirSet, loggerVars, job, notes, toList, file, old, stdout, counts, kept>>

-----------------------------------------------------------------------------
(* Writing a line.                                                         *)

Returns(t, where) ==
  /\ at' = [at EXCEPT ![t] = "idle"]
  /\ kept' = kept \cup {[line |-> job[t].line, name |-> job[t].name, hour |-> where]}

\* One line after the other, although the parts of lines of several threads may mix
\* on the terminal: the text is one of these parts.
WriteToStdout(t) ==
  /\ at[t] = "found" /\ logger[job[t].name] = "stdout"
  /\ stdout' = Append(stdout, job[t].line)
  /\ Returns(t, None)
  /\ UNCHANGED <<clock, dirSet, loggerVars, job, notes, toList, file, old, counts>>

\* TS, and the name of the file that goes with it.
LookAtClock(t) ==
  /\ at[t] = "found" /\ logger[job[t].name] = "file"
  /\ at' = [at EXCEPT ![t] = "timed"] /\ job' = [job EXCEPT ![t].hour = clock]
  /\ UNCHANGED <<clock, dirSet, loggerVars, notes, toList, file, old, stdout, counts, kept>>

\* What is written to a file that could not be opened is lost.  A file that is open
\* takes all that is written to it: there is room on the disk.
Into(n, h, line) == file' = IF sound[n] THEN [file EXCEPT ![n][h] = Append(@, line)] ELSE file

\* The mutex is taken, and the file is the right one.
Stay(t) ==
  /\ at[t] = "timed" /\ Free(job[t].name) /\ active[job[t].name] = job[t].hour
  /\ at' = [at EXCEPT ![t] = "write"]
  /\ UNCHANGED <<clock, dirSet, loggerVars, job, notes, toList, file, old, stdout, counts, kept>>

\* The mutex is taken, and this is the logger's first line.
Start(t) ==
  /\ at[t] = "timed" /\ Free(job[t].name) /\ active[job[t].name] = None
  /\ at' = [at EXCEPT ![t] = "move"] /\ notes' = [notes EXCEPT ![t] = {"started"}]
  /\ UNCHANGED <<clock, dirSet, loggerVars, job, toList, file, old, stdout, counts, kept>>

\* The mutex is taken, and the file is the one of another hour, before or after.
MoveOn(t) ==
  /\ at[t] = "timed" /\ Free(job[t].name) /\ active[job[t].name] \notin {None, job[t].hour}
  /\ Into(job[t].name, active[job[t].name], Remark)
  /\ at' = [at EXCEPT ![t] = "move"] /\ notes' = [notes EXCEPT ![t] = {}]
  /\ UNCHANGED <<clock, dirSet, loggerVars, job, toList, old, stdout, counts, kept>>

\* A file with something in it is renamed away, under a name that is new; if this
\* fails it stays.
Rename(t) ==
  LET n == job[t].name  h == job[t].hour
  IN  /\ at[t] = "move" /\ file[n][h] # <<>>
      /\ \/ /\ old' = [old EXCEPT ![n] = Append(@, <<h, file[n][h]>>)]
            /\ file' = [file EXCEPT ![n][h] = <<>>]
            /\ UNCHANGED faults
         \/ /\ faults < MaxFaults /\ faults' = faults + 1
            /\ UNCHANGED <<old, file>>
      /\ at' = [at EXCEPT ![t] = "open"] /\ notes' = [notes EXCEPT ![t] = @ \cup {"renamed"}]
      /\ UNCHANGED <<clock, dirSet, loggerVars, job, toList, stdout, lines, kills, kept>>

NothingToRename(t) ==
  /\ at[t] = "move" /\ file[job[t].name][job[t].hour] = <<>>
  /\ at' = [at EXCEPT ![t] = "open"]
  /\ UNCHANGED <<clock, dirSet, loggerVars, job, notes, toList, file, old, stdout, counts, kept>>

\* A plausible bug: the file is not opened for appending.
Open_Truncates(t) ==
  LET n == job[t].name
  IN  /\ at[t] = "open"
      /\ active' = [active EXCEPT ![n] = job[t].hour] /\ sound' = [sound EXCEPT ![n] = TRUE]
      /\ file' = [file EXCEPT ![n][job[t].hour] = <<>>]
      /\ at' = [at EXCEPT ![t] = "write"]
      /\ UNCHANGED <<clock, dirSet, logger, job, notes, toList, old, stdout, counts, kept>>

\* Whether or not it can be opened, it is the active file.
Open(t) ==
  LET n == job[t].name
  IN  /\ at[t] = "open"
      /\ active' = [active EXCEPT ![n] = job[t].hour]
      /\ \/ sound' = [sound EXCEPT ![n] = TRUE] /\ UNCHANGED faults
         \/ faults < MaxFaults /\ faults' = faults + 1 /\ sound' = [sound EXCEPT ![n] = FALSE]
      /\ at' = [at EXCEPT ![t] = "write"]
      /\ UNCHANGED <<clock, dirSet, logger, job, notes, toList, file, old, stdout, lines, kills, kept>>

WriteRemark(t) ==
  /\ at[t] = "write" /\ notes[t] # {}
  /\ Into(job[t].name, job[t].hour, Remark)
  /\ \E note \in notes[t] : notes' = [notes EXCEPT ![t] = @ \ {note}]
  /\ UNCHANGED <<clock, dirSet, loggerVars, at, job, toList, old, stdout, counts, kept>>

\* The line itself, and the mutex is released.
WriteLine(t) ==
  /\ at[t] = "write" /\ notes[t] = {}
  /\ Into(job[t].name, job[t].hour, job[t].line)
  /\ IF sound[job[t].name] THEN Returns(t, job[t].hour) ELSE at' = [at EXCEPT ![t] = "idle"] /\ UNCHANGED kept
  /\ UNCHANGED <<clock, dirSet, loggerVars, job, notes, toList, old, stdout, counts>>

Writing(t) ==
  \/ WriteToStdout(t) \/ LookAtClock(t)
  \/ Stay(t) \/ Start(t) \/ MoveOn(t)
  \/ Rename(t) \/ NothingToRename(t) \/ Open(t)
  \/ WriteRemark(t) \/ WriteLine(t)

-----------------------------------------------------------------------------
(* The clock, and the process.                                             *)

Tick ==
  /\ clock < MaxHour
  /\ clock' = clock + 1
  /\ UNCHANGED <<dirSet, loggerVars, callVars, toList, file, old, stdout, counts, kept>>

\* A new process takes over, and finds the files.
Restart ==
  /\ kills < MaxKills /\ kills' = kills + 1
  /\ dirSet' = FALSE /\ logger' = [n \in Names |-> "none"]
  /\ active' = [n \in Names |-> None] /\ sound' = [n \in Names |-> FALSE]
  /\ at' = [t \in Threads |-> "idle"] /\ notes' = [t \in Threads |-> {}] /\ toList' = {}
  /\ UNCHANGED <<clock, job, old, stdout, lines, faults, kept>>

Killed == Restart /\ UNCHANGED file

\* The loggers say that they close their files.
Ended ==
  /\ \A t \in Threads : at[t] = "idle"
  /\ Restart
  /\ file' = [n \in Names |-> [h \in Hours |->
                IF sound[n] /\ h = active[n] THEN Append(file[n][h], Remark) ELSE file[n][h]]]

Next ==
  \/ SetLogsDir
  \/ \E t \in Threads : Writing(t) \/ List(t) \/ ListEnd(t) \/ \E n \in Names : LookUp(t, n)
  \/ \E n \in Names : ListLogger(n)
  \/ Tick \/ Killed \/ Ended

Spec == Init /\ [][Next]_vars

\* A thread in a call goes on.  Nobody has to log, or to list.
FairSpec ==
  /\ Spec
  /\ \A t \in Threads : WF_vars(Writing(t)) /\ WF_vars(ListEnd(t))
  /\ \A n \in Names : WF_vars(ListLogger(n))

-----------------------------------------------------------------------------

\* Where a line is in a text.
In(line, text) == {i \in 1..Len(text) : text[i] = line}

\* Of the files fs and the renamed ones os of a name, those of an hour: the one that
\* has its name, which is number 0, and the ones renamed away.
TextOf(fs, os, h, j) == IF j = 0 THEN fs[h] ELSE IF os[j][1] = h THEN os[j][2] ELSE <<>>

\* A line is in one place of one of them, and nowhere else in them.
Once(line, fs, os, h) ==
  \E j \in 0..Len(os) : \E i \in In(line, TextOf(fs, os, h, j)) :
    \A k \in 0..Len(os) : \A m \in In(line, TextOf(fs, os, h, k)) : k = j /\ m = i

\* A line whose call has returned is, from then on, where its writer meant it: once
\* among the files of its logger and its hour, the renamed ones included, whatever
\* the other threads, the clock and the restarts do.  (That a file could not be
\* opened is not told to the writer: lines written to it are not counted.)
ReturnedIsKept ==
  \A k \in kept :
    IF k.hour = None THEN \E i \in In(k.line, stdout) : In(k.line, stdout) = {i}
    ELSE Once(k.line, file[k.name], old[k.name], k.hour)

\* Nobody waits for ever to write a line, whatever is being listed or moved.
WritesReturn == \A t \in Threads : at[t] = "found" ~> at[t] = "idle"

-----------------------------------------------------------------------------
(* What makes the safety properties inductive.                             *)

Busy(t) == at[t] \in {"found", "timed"} \cup Sections

\* A thread that has looked at the clock writes to a logger with a file.
ToFiles == \A t \in Threads : at[t] \in {"timed"} \cup Sections => logger[job[t].name] = "file"

\* Each call has a line of its own.
OwnLines ==
  \A t \in Threads : Busy(t) =>
    /\ job[t].line \in 1..lines
    /\ \A u \in Threads \ {t} : Busy(u) => job[u].line # job[t].line

\* A line that is to be written, now or later.
Pending(line) == line > lines \/ \E t \in Threads : Busy(t) /\ job[t].line = line

Absent(line, fs, os) == \A h \in Hours : \A j \in 0..Len(os) : In(line, TextOf(fs, os, h, j)) = {}

\* It is nowhere yet, under any name or hour.
NotYetWritten ==
  \A line \in 1..MaxLines : Pending(line) =>
    In(line, stdout) = {} /\ \A n \in Names : Absent(line, file[n], old[n])

KeptInv ==
  /\ ToFiles /\ OwnLines /\ NotYetWritten /\ ReturnedIsKept
  /\ kept \subseteq [line : 1..MaxLines, name : Names, hour : Hours \cup {None}]
===============================================================================
