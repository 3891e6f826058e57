----------------------------- MODULE LoggerProofs -----------------------------
(***************************************************************************)
(* Proofs about Logger, for any threads, names, hours, lines, faults and    *)
(* kills.                                                                  *)
(***************************************************************************)
EXTENDS Logger, TLAPS

\* The steps, by their actions.
LEMMA NextCases ==
  ASSUME NEW P, SetLogsDir \/ Tick \/ Killed \/ Ended \/ UNCHANGED vars => P,
         \A n \in Names : ListLogger(n) => P,
         \A t \in Threads : List(t) \/ ListEnd(t) \/ WriteToStdout(t) \/ LookAtClock(t) => P,
         \A t \in Threads : Stay(t) \/ Start(t) \/ MoveOn(t) => P,
         \A t \in Threads : Rename(t) \/ NothingToRename(t) \/ Open(t) => P,
         \A t \in Threads : WriteRemark(t) \/ WriteLine(t) => P,
         \A t \in Threads, n \in Names : LookUp(t, n) => P,
         [Next]_vars
  PROVE  P
  BY DEF Next, Writing

-----------------------------------------------------------------------------
(* Type correctness, and the mutex of a logger.                            *)

\* What LoggerTypeOK says of the variables, apart from the mutex.
Typed ==
  /\ clock \in Hours /\ dirSet \in BOOLEAN
  /\ logger \in [Names -> {"none", "stdout", "file"}]
  /\ active \in [Names -> Hours \cup {None}] /\ sound \in [Names -> BOOLEAN]
  /\ at \in [Threads -> {"idle", "found", "timed", "list"} \cup Sections]
  /\ job \in [Threads -> [name : Names, line : 0..MaxLines, hour : Hours]]
  /\ notes \in [Threads -> SUBSET {"started", "renamed"}] /\ toList \subseteq Names
  /\ file \in [Names -> [Hours -> Text]] /\ old \in [Names -> Seq(Hours \X Text)]
  /\ stdout \in Text
  /\ lines \in 0..MaxLines /\ faults \in 0..MaxFaults /\ kills \in 0..MaxKills

\* And what it says of the mutex: who holds it holds it alone, and a logger has an
\* active file only if it writes to files.
Mutex ==
  /\ \A n \in Names : active[n] # None => logger[n] = "file"
  /\ \A t, u \in Threads : at[t] \in Sections /\ at[u] \in Sections /\ t # u => job[t].name # job[u].name

LEMMA TypedAndMutex == LoggerTypeOK <=> Typed /\ Mutex
  BY DEF LoggerTypeOK, Typed, Mutex

LEMMA ConstantsTyped == /\ 0 \in Hours /\ 0 \in 0..MaxLines /\ Remark \in 0..MaxLines /\ None \notin Hours
                        /\ MaxHour \in Nat /\ MaxLines \in Nat /\ MaxFaults \in Nat /\ MaxKills \in Nat
  BY LoggerAssumption DEF Hours, None, Remark

\* A line more in a file leaves the files what they are.
LEMMA IntoType ==
  ASSUME Typed, NEW n \in Names, NEW h \in Hours, NEW line \in 0..MaxLines, Into(n, h, line)
  PROVE  file' \in [Names -> [Hours -> Text]]
  <1>1. file[n] \in [Hours -> Text] /\ file[n][h] \in Text
    BY DEF Typed
  <1>2. Append(file[n][h], line) \in Text
    BY <1>1 DEF Text
  <1> QED
    BY <1>1, <1>2 DEF Into, Typed

LEMMA TypedInit == Init => Typed /\ Mutex /\ KeptInv
  <1> SUFFICES ASSUME Init PROVE Typed /\ Mutex /\ KeptInv
    OBVIOUS
  <1>1. <<>> \in Text /\ <<>> \in Seq(Hours \X Text)
    BY DEF Text
  <1>2. file \in [Names -> [Hours -> Text]] /\ old \in [Names -> Seq(Hours \X Text)] /\ stdout \in Text
    BY <1>1 DEF Init
  <1>3. job \in [Threads -> [name : Names, line : 0..MaxLines, hour : Hours]]
    BY ConstantsTyped DEF Init
  <1>4. Typed
    <2>1. /\ clock \in Hours /\ lines \in 0..MaxLines /\ faults \in 0..MaxFaults /\ kills \in 0..MaxKills
      BY ConstantsTyped DEF Init
    <2>2. /\ active \in [Names -> Hours \cup {None}] /\ sound \in [Names -> BOOLEAN]
          /\ logger \in [Names -> {"none", "stdout", "file"}]
          /\ at \in [Threads -> {"idle", "found", "timed", "list"} \cup Sections]
      BY DEF Init
    <2>3. dirSet \in BOOLEAN /\ notes \in [Threads -> SUBSET {"started", "renamed"}] /\ toList \subseteq Names
      BY DEF Init
    <2> QED
      BY <1>2, <1>3, <2>1, <2>2, <2>3 DEF Typed
  <1>5. Mutex
    BY DEF Init, Mutex, Sections
  <1>6. NotYetWritten
    <2>1. \A text : In(text, <<>>) = {}
      BY DEF In
    <2>2. ASSUME NEW n \in Names, NEW line, NEW h \in Hours, NEW j \in 0..Len(old[n])
          PROVE  In(line, TextOf(file[n], old[n], h, j)) = {}
      <3>1. Len(old[n]) = 0 /\ file[n][h] = <<>>
        BY DEF Init
      <3>2. TextOf(file[n], old[n], h, j) = <<>>
        BY <3>1 DEF TextOf
      <3> QED
        BY <2>1, <3>2
    <2>3. stdout = <<>>
      BY DEF Init
    <2> QED
      BY <2>1, <2>2, <2>3 DEF NotYetWritten, Absent
  <1>7. ToFiles /\ OwnLines /\ ReturnedIsKept /\ kept = {}
    BY DEF Init, ToFiles, OwnLines, ReturnedIsKept, Busy, Sections
  <1> QED
    BY <1>4, <1>5, <1>6, <1>7 DEF KeptInv

LEMMA ListingTyped ==
  ASSUME Typed, NEW t \in Threads, List(t) \/ ListEnd(t) \/ WriteToStdout(t) \/ LookAtClock(t)
  PROVE  Typed'
  <1> USE DEF Typed, callVars, loggerVars, counts
  <1>1. CASE List(t)
    <2>1. toList' \subseteq Names
      BY <1>1 DEF List
    <2> QED
      BY <1>1, <2>1 DEF List
  <1>2. CASE ListEnd(t)
    BY <1>2 DEF ListEnd
  <1>3. CASE WriteToStdout(t)
    <2>1. stdout' \in Text
      BY <1>3 DEF WriteToStdout, Text
    <2> QED
      BY <1>3, <2>1 DEF WriteToStdout, Returns
  <1>4. CASE LookAtClock(t)
    <2>1. job[t] \in [name : Names, line : 0..MaxLines, hour : Hours] /\ clock \in Hours
      OBVIOUS
    <2>2. job' = [job EXCEPT ![t] = [job[t] EXCEPT !.hour = clock]]
      BY <1>4 DEF LookAtClock
    <2>3. job' \in [Threads -> [name : Names, line : 0..MaxLines, hour : Hours]]
      BY <2>1, <2>2
    <2> QED
      BY <1>4, <2>3 DEF LookAtClock
  <1> QED
    BY <1>1, <1>2, <1>3, <1>4

LEMMA EntryTyped ==
  ASSUME Typed, NEW t \in Threads, Stay(t) \/ Start(t) \/ MoveOn(t)
  PROVE  Typed'
  <1> USE DEF Typed, loggerVars, callVars, counts
  <1>1. CASE Stay(t)
    BY <1>1 DEF Stay, Sections
  <1>2. CASE Start(t)
    BY <1>2 DEF Start, Sections
  <1>3. CASE MoveOn(t)
    <2>1. job[t].name \in Names /\ active[job[t].name] \in Hours /\ Into(job[t].name, active[job[t].name], Remark)
      BY <1>3 DEF MoveOn
    <2>2. file' \in [Names -> [Hours -> Text]]
      BY <2>1, ConstantsTyped, IntoType
    <2>3. notes' \in [Threads -> SUBSET {"started", "renamed"}]
      BY <1>3 DEF MoveOn
    <2>4. at' \in [Threads -> {"idle", "found", "timed", "list"} \cup Sections]
      BY <1>3 DEF MoveOn, Sections
    <2>5. UNCHANGED <<clock, dirSet, logger, active, sound, job, toList, old, stdout, lines, faults, kills>>
      BY <1>3 DEF MoveOn
    <2> QED
      BY <2>2, <2>3, <2>4, <2>5
  <1> QED
    BY <1>1, <1>2, <1>3

LEMMA OpeningTyped ==
  ASSUME Typed, NEW t \in Threads, Rename(t) \/ NothingToRename(t) \/ Open(t)
  PROVE  Typed'
  <1> USE DEF Typed, loggerVars, callVars, counts
  <1>1. CASE Rename(t)
    <2> DEFINE n == job[t].name  h == job[t].hour
    <2>1. n \in Names /\ h \in Hours
      OBVIOUS
    <2>2. \/ /\ old' = [old EXCEPT ![n] = Append(@, <<h, file[n][h]>>)]
             /\ file' = [file EXCEPT ![n][h] = <<>>]
             /\ UNCHANGED faults
          \/ /\ faults < MaxFaults /\ faults' = faults + 1
             /\ UNCHANGED <<old, file>>
      BY <1>1 DEF Rename
    <2> HIDE DEF n, h
    <2>3. <<h, file[n][h]>> \in Hours \X Text /\ <<>> \in Text
      BY <2>1 DEF Text
    <2>4. file' \in [Names -> [Hours -> Text]] /\ old' \in [Names -> Seq(Hours \X Text)]
      <3>1. file[n] \in [Hours -> Text] /\ [file[n] EXCEPT ![h] = <<>>] \in [Hours -> Text]
        BY <2>1, <2>3
      <3>2. Append(old[n], <<h, file[n][h]>>) \in Seq(Hours \X Text)
        BY <2>1, <2>3
      <3>3. \/ old' = [old EXCEPT ![n] = Append(@, <<h, file[n][h]>>)]
            \/ old' = old
        BY <2>2
      <3>4. \/ file' = [file EXCEPT ![n] = [file[n] EXCEPT ![h] = <<>>]]
            \/ file' = file
        BY <2>2
      <3>5. file' \in [Names -> [Hours -> Text]]
        BY <2>1, <3>1, <3>4
      <3>6. old' \in [Names -> Seq(Hours \X Text)]
        BY <2>1, <3>2, <3>3
      <3> QED
        BY <3>5, <3>6
    <2>5. faults' \in 0..MaxFaults
      BY <2>2, ConstantsTyped
    <2> QED
      BY <1>1, <2>4, <2>5, SMTT(60) DEF Rename, Sections
  <1>2. CASE NothingToRename(t)
    BY <1>2 DEF NothingToRename, Sections
  <1>3. CASE Open(t)
    <2>1. faults' \in 0..MaxFaults /\ sound' \in [Names -> BOOLEAN]
      <3>1. \/ sound' = [sound EXCEPT ![job[t].name] = TRUE] /\ UNCHANGED faults
            \/ faults < MaxFaults /\ faults' = faults + 1 /\ sound' = [sound EXCEPT ![job[t].name] = FALSE]
        BY <1>3 DEF Open
      <3>2. faults' \in 0..MaxFaults
        BY <3>1, ConstantsTyped
      <3>3. sound' \in [Names -> BOOLEAN]
        BY <3>1
      <3> QED
        BY <3>2, <3>3
    <2> QED
      BY <1>3, <2>1 DEF Open, Sections
  <1> QED
    BY <1>1, <1>2, <1>3

LEMMA WritingTyped ==
  ASSUME Typed, NEW t \in Threads, WriteRemark(t) \/ WriteLine(t)
  PROVE  Typed'
  <1> USE DEF Typed, loggerVars, callVars, counts
  <1>1. job[t].name \in Names /\ job[t].hour \in Hours /\ job[t].line \in 0..MaxLines
    OBVIOUS
  <1>2. CASE WriteRemark(t)
    <2>1. file' \in [Names -> [Hours -> Text]]
      BY <1>1, <1>2, IntoType, ConstantsTyped DEF WriteRemark
    <2>2. notes' \in [Threads -> SUBSET {"started", "renamed"}]
      BY <1>2 DEF WriteRemark
    <2> QED
      BY <1>2, <2>1, <2>2 DEF WriteRemark
  <1>3. CASE WriteLine(t)
    <2>1. file' \in [Names -> [Hours -> Text]]
      BY <1>1, <1>3, IntoType DEF WriteLine
    <2> QED
      BY <1>3, <2>1 DEF WriteLine, Returns
  <1> QED
    BY <1>2, <1>3

LEMMA LookUpTyped == ASSUME Typed, NEW t \in Threads, NEW n \in Names, LookUp(t, n) PROVE Typed'
  <1> USE DEF Typed, loggerVars, callVars, counts
  <1>1. lines' \in 0..MaxLines /\ 0 \in Hours
    BY ConstantsTyped DEF LookUp
  <1>2. job' \in [Threads -> [name : Names, line : 0..MaxLines, hour : Hours]]
    BY <1>1 DEF LookUp
  <1>3. logger' \in [Names -> {"none", "stdout", "file"}]
    BY DEF LookUp
  <1> QED
    BY <1>1, <1>2, <1>3 DEF LookUp

LEMMA RestartTyped == ASSUME Typed, Killed \/ Ended PROVE Typed'
  <1> USE DEF Typed, loggerVars, callVars, counts
  <1>1. file' \in [Names -> [Hours -> Text]]
    <2>1. CASE Killed
      BY <2>1 DEF Killed
    <2>2. CASE Ended
      <3>1. \A n \in Names, h \in Hours : file[n][h] \in Text /\ Append(file[n][h], Remark) \in Text
        BY ConstantsTyped DEF Text
      <3> QED
        BY <2>2, <3>1 DEF Ended
    <2> QED
      BY <2>1, <2>2
  <1>2. Restart
    BY DEF Killed, Ended
  <1>3. kills' \in 0..MaxKills
    BY <1>2, ConstantsTyped DEF Restart
  <1> QED
    BY <1>1, <1>2, <1>3 DEF Restart

LEMMA TypedNext == Typed /\ [Next]_vars => Typed'
  <1> SUFFICES ASSUME Typed, [Next]_vars PROVE Typed'
    OBVIOUS
  <1>1. SetLogsDir \/ Tick \/ UNCHANGED vars => Typed'
    <2>1. SetLogsDir \/ UNCHANGED vars => Typed'
      BY DEF SetLogsDir, vars, Typed, loggerVars, callVars, counts
    <2>2. Tick => clock' \in Hours
      BY ConstantsTyped DEF Tick, Hours, Typed
    <2>3. Tick => Typed'
      BY <2>2 DEF Tick, Typed, loggerVars, callVars, counts
    <2> QED
      BY <2>1, <2>3
  <1>2. \A n \in Names : ListLogger(n) => Typed'
    BY DEF ListLogger, Typed, loggerVars, callVars, counts
  <1> QED
    BY <1>1, <1>2, NextCases, ListingTyped, EntryTyped, OpeningTyped, WritingTyped, LookUpTyped, RestartTyped

\* A step of t that leaves what the mutex and ToFiles are about to the others alone.
LEMMA MutexMoves ==
  ASSUME Typed, Mutex, ToFiles, NEW t \in Threads,
         UNCHANGED <<logger, active>>, at' = [at EXCEPT ![t] = at'[t]],
         job' = [job EXCEPT ![t] = job'[t]], job'[t].name = job[t].name,
         at'[t] \in Sections => at[t] \in Sections \/ Free(job[t].name),
         at'[t] \in {"timed"} \cup Sections => logger[job[t].name] = "file"
  PROVE  Mutex' /\ ToFiles'
  <1>1. \A u \in Threads : job'[u].name = job[u].name /\ (u # t => at'[u] = at[u])
    BY DEF Typed
  <1>2. ToFiles'
    BY <1>1 DEF ToFiles, Sections
  <1>3. ASSUME NEW u \in Threads, NEW v \in Threads, at'[u] \in Sections, at'[v] \in Sections, u # v
        PROVE  job[u].name # job[v].name
    <2>1. CASE u = t
      <3>1. at[v] \in Sections /\ at'[t] \in Sections
        BY <1>1, <1>3, <2>1
      <3>2. CASE at[t] \in Sections
        BY <1>3, <2>1, <3>1, <3>2 DEF Mutex
      <3>3. CASE Free(job[t].name)
        BY <2>1, <3>1, <3>3 DEF Free
      <3> QED
        BY <3>1, <3>2, <3>3
    <2>2. CASE v = t
      <3>1. at[u] \in Sections /\ at'[t] \in Sections
        BY <1>1, <1>3, <2>2
      <3>2. CASE at[t] \in Sections
        BY <1>3, <2>2, <3>1, <3>2 DEF Mutex
      <3>3. CASE Free(job[t].name)
        BY <2>2, <3>1, <3>3 DEF Free
      <3> QED
        BY <3>1, <3>2, <3>3
    <2>3. CASE u # t /\ v # t
      BY <1>1, <1>3, <2>3 DEF Mutex
    <2> QED
      BY <2>1, <2>2, <2>3
  <1>4. Mutex'
    BY <1>1, <1>3 DEF Mutex, Sections
  <1> QED
    BY <1>2, <1>4

LEMMA MutexNext == Typed /\ Mutex /\ ToFiles /\ [Next]_vars => Mutex' /\ ToFiles'
  <1> SUFFICES ASSUME Typed, Mutex, ToFiles, [Next]_vars PROVE Mutex' /\ ToFiles'
    OBVIOUS
  <1> USE DEF callVars, loggerVars, counts
  <1>1. SetLogsDir \/ Tick \/ UNCHANGED vars => Mutex' /\ ToFiles'
    BY DEF SetLogsDir, Tick, vars, Mutex, ToFiles, Sections
  <1>2. \A n \in Names : ListLogger(n) => Mutex' /\ ToFiles'
    BY DEF ListLogger, Mutex, ToFiles, Sections
  <1>3. ASSUME NEW t \in Threads, List(t) \/ ListEnd(t) \/ WriteToStdout(t) \/ LookAtClock(t)
        PROVE  Mutex' /\ ToFiles'
    <2>1. /\ UNCHANGED <<logger, active>> /\ at' = [at EXCEPT ![t] = at'[t]]
          /\ at'[t] \notin Sections /\ (at'[t] = "timed" => logger[job[t].name] = "file")
      BY <1>3 DEF List, ListEnd, WriteToStdout, Returns, LookAtClock, Typed, Sections
    <2>2. job' = [job EXCEPT ![t] = job'[t]] /\ job'[t].name = job[t].name
      BY <1>3 DEF List, ListEnd, WriteToStdout, LookAtClock, Typed
    <2> QED
      BY <2>1, <2>2, MutexMoves DEF Sections
  <1>4. ASSUME NEW t \in Threads, Stay(t) \/ Start(t) \/ MoveOn(t)
        PROVE  Mutex' /\ ToFiles'
    <2>1. /\ UNCHANGED <<logger, active, job>> /\ at' = [at EXCEPT ![t] = at'[t]]
          /\ at[t] = "timed" /\ Free(job[t].name)
      BY <1>4 DEF Stay, Start, MoveOn, Typed
    <2> QED
      BY <2>1, MutexMoves DEF Typed, ToFiles
  <1>5. ASSUME NEW t \in Threads, Rename(t) \/ NothingToRename(t) \/ WriteRemark(t) \/ WriteLine(t)
        PROVE  Mutex' /\ ToFiles'
    <2>1. /\ UNCHANGED <<logger, active, job>> /\ at' = [at EXCEPT ![t] = at'[t]]
          /\ at[t] \in Sections
      BY <1>5 DEF Rename, NothingToRename, WriteRemark, WriteLine, Returns, Typed, Sections
    <2> QED
      BY <2>1, MutexMoves DEF Typed, ToFiles
  <1>6. ASSUME NEW t \in Threads, Open(t)
        PROVE  Mutex' /\ ToFiles'
    <2>1. /\ at[t] = "open" /\ at' = [at EXCEPT ![t] = "write"] /\ UNCHANGED <<logger, job>>
          /\ active' = [active EXCEPT ![job[t].name] = job[t].hour]
      BY <1>6 DEF Open
    <2>2. logger[job[t].name] = "file"
      BY <2>1 DEF ToFiles, Sections
    <2>3. \A n \in Names : active'[n] # None => logger[n] = "file"
      BY <2>1, <2>2 DEF Mutex, Typed
    <2>4. \A u \in Threads : (at'[u] \in Sections <=> at[u] \in Sections) /\ (at'[u] = "timed" => at[u] = "timed")
      BY <2>1 DEF Typed, Sections
    <2>5. ToFiles'
      BY <2>1, <2>4 DEF ToFiles, Sections
    <2>6. Mutex'
      BY <2>1, <2>3, <2>4 DEF Mutex, Sections
    <2> QED
      BY <2>5, <2>6
  <1>7. ASSUME NEW t \in Threads, NEW n \in Names, LookUp(t, n)
        PROVE  Mutex' /\ ToFiles'
    <2>1. /\ at' = [at EXCEPT ![t] = "found"] /\ UNCHANGED active
          /\ logger' = [logger EXCEPT ![n] = IF @ # "none" THEN @ ELSE IF dirSet THEN "file" ELSE "stdout"]
          /\ job' = [job EXCEPT ![t] = [name |-> n, line |-> lines', hour |-> 0]]
      BY <1>7 DEF LookUp
    <2>2. \A m \in Names : logger[m] = "file" => logger'[m] = "file"
      BY <2>1 DEF Typed
    <2>3. \A u \in Threads : u # t => at'[u] = at[u] /\ job'[u] = job[u]
      BY <2>1 DEF Typed
    <2>4. at'[t] = "found"
      BY <2>1 DEF Typed
    <2>5. ToFiles'
      <3>1. \A u \in Threads : at'[u] \in {"timed"} \cup Sections => u # t
        BY <2>4 DEF Sections
      <3>2. \A u \in Threads : at'[u] \in {"timed"} \cup Sections => logger'[job'[u].name] = "file"
        BY <2>2, <2>3, <3>1, ZenonT(60) DEF ToFiles, Typed
      <3> QED
        BY <3>2 DEF ToFiles, Sections
    <2>6. Mutex'
      BY <2>1, <2>2, <2>3, <2>4 DEF Mutex, Sections
    <2> QED
      BY <2>5, <2>6
  <1>8. Killed \/ Ended => Mutex' /\ ToFiles'
    <2>1. Restart => Mutex' /\ ToFiles'
      BY DEF Restart, Mutex, ToFiles, Sections
    <2> QED
      BY <2>1 DEF Killed, Ended
  <1> QED
    BY <1>1, <1>2, <1>3, <1>4, <1>5, <1>6, <1>7, <1>8, NextCases

\* The variables keep their types, nobody else is in a logger's section while a thread
\* is, and a logger without a directory has no file: the use of inner_logger_ in
\* WriteLineToFile, with the clock looked at before.
THEOREM LoggerTypeInvariant == Spec => []LoggerTypeOK
  <1>1. Init => Typed /\ Mutex /\ ToFiles
    BY TypedInit DEF KeptInv
  <1>2. Typed /\ Mutex /\ ToFiles /\ [Next]_vars => (Typed /\ Mutex /\ ToFiles)'
    BY TypedNext, MutexNext
  <1> QED
    BY <1>1, <1>2, TypedAndMutex, PTL DEF Spec

-----------------------------------------------------------------------------
(* Where a line is, when files grow and are renamed.                       *)

LEMMA InAppend ==
  ASSUME NEW text \in Text, NEW x, NEW line
  PROVE  /\ x # line => In(line, Append(text, x)) = In(line, text)
         /\ In(line, Append(text, line)) = In(line, text) \cup {Len(text) + 1}
  <1>1. /\ Len(text) \in Nat /\ \A y : Len(Append(text, y)) = Len(text) + 1
        /\ \A y : Append(text, y)[Len(text) + 1] = y
        /\ \A y : \A i \in 1..Len(text) : Append(text, y)[i] = text[i]
    BY DEF Text
  <1>2. \A i : i \in 1..(Len(text) + 1) <=> i \in 1..Len(text) \/ i = Len(text) + 1
    BY <1>1
  <1> QED
    BY <1>1, <1>2 DEF In

\* A line stays once where it is once, and nowhere where it is not.
Keeps(line, fs, os, gs, ps) ==
  /\ \A h \in Hours : Once(line, fs, os, h) => Once(line, gs, ps, h)
  /\ Absent(line, fs, os) => Absent(line, gs, ps)

\* So it is when other lines are written to the files, a line at most to each.
LEMMA OthersGrow ==
  ASSUME NEW line, NEW fs \in [Hours -> Text], NEW gs, NEW os \in Seq(Hours \X Text),
         \A h \in Hours : gs[h] = fs[h] \/ \E x : x # line /\ gs[h] = Append(fs[h], x)
  PROVE  Keeps(line, fs, os, gs, os)
  <1>1. ASSUME NEW h \in Hours, NEW j \in 0..Len(os)
        PROVE  In(line, TextOf(gs, os, h, j)) = In(line, TextOf(fs, os, h, j))
    <2>1. In(line, gs[h]) = In(line, fs[h])
      <3>1. fs[h] \in Text
        OBVIOUS
      <3>2. \A x : x # line => In(line, Append(fs[h], x)) = In(line, fs[h])
        BY <3>1, InAppend
      <3>3. CASE gs[h] = fs[h]
        BY <3>3
      <3>4. ASSUME NEW x, x # line, gs[h] = Append(fs[h], x)
            PROVE  In(line, gs[h]) = In(line, fs[h])
        BY <3>2, <3>4
      <3>5. gs[h] = fs[h] \/ \E x : x # line /\ gs[h] = Append(fs[h], x)
        OBVIOUS
      <3> QED
        BY <3>3, <3>4, <3>5, Zenon
    <2> QED
      BY <2>1 DEF TextOf
  <1> QED
    BY <1>1 DEF Keeps, Once, Absent

\* And when a file is renamed away.
LEMMA RenamedKeeps ==
  ASSUME NEW line, NEW fs \in [Hours -> Text], NEW os \in Seq(Hours \X Text), NEW g \in Hours
  PROVE  Keeps(line, fs, os, [fs EXCEPT ![g] = <<>>], Append(os, <<g, fs[g]>>))
  <1> DEFINE gs == [fs EXCEPT ![g] = <<>>]
             ps == Append(os, <<g, fs[g]>>)
             last == Len(os) + 1
  <1>1. /\ Len(os) \in Nat /\ Len(ps) = last /\ ps[last][1] = g /\ ps[last][2] = fs[g]
        /\ \A j \in 1..Len(os) : ps[j] = os[j]
    BY DEF Text
  <1>2. gs[g] = <<>> /\ \A h \in Hours \ {g} : gs[h] = fs[h]
    OBVIOUS
  <1> HIDE DEF gs, ps
  <1>3. In(line, <<>>) = {}
    BY DEF In
  <1>4. ASSUME NEW h \in Hours
        PROVE  /\ \A j \in 1..Len(os) : In(line, TextOf(gs, ps, h, j)) = In(line, TextOf(fs, os, h, j))
               /\ h = g => /\ In(line, TextOf(gs, ps, h, 0)) = {}
                           /\ In(line, TextOf(gs, ps, h, last)) = In(line, TextOf(fs, os, h, 0))
               /\ h # g => /\ In(line, TextOf(gs, ps, h, 0)) = In(line, TextOf(fs, os, h, 0))
                           /\ In(line, TextOf(gs, ps, h, last)) = {}
    BY <1>1, <1>2, <1>3 DEF TextOf
  <1>5. 0..Len(ps) = {0, last} \cup 1..Len(os) /\ 0..Len(os) = {0} \cup 1..Len(os) /\ last # 0 /\ last \notin 1..Len(os)
    BY <1>1
  <1> HIDE DEF last
  <1>6. ASSUME NEW h \in Hours, Once(line, fs, os, h)
        PROVE  Once(line, gs, ps, h)
    <2>1. PICK j \in 0..Len(os) : \E i \in In(line, TextOf(fs, os, h, j)) :
            \A k \in 0..Len(os) : \A m \in In(line, TextOf(fs, os, h, k)) : k = j /\ m = i
      BY <1>6 DEF Once
    <2>4. PICK i \in In(line, TextOf(fs, os, h, j)) :
            \A k \in 0..Len(os) : \A m \in In(line, TextOf(fs, os, h, k)) : k = j /\ m = i
      BY <2>1
    <2> DEFINE where == IF j = 0 /\ h = g THEN last ELSE j
    <2>2. where \in 0..Len(ps) /\ i \in In(line, TextOf(gs, ps, h, where))
      BY <1>4, <1>5, <2>4
    <2>3. ASSUME NEW k \in 0..Len(ps), NEW m \in In(line, TextOf(gs, ps, h, k))
          PROVE  k = where /\ m = i
      <3>1. CASE k \in 1..Len(os)
        BY <1>4, <1>5, <2>4, <3>1
      <3>2. CASE k = 0
        BY <1>4, <1>5, <2>4, <3>2
      <3>3. CASE k = last
        BY <1>4, <1>5, <2>4, <3>3
      <3> QED
        BY <1>5, <3>1, <3>2, <3>3
    <2> QED
      BY <2>2, <2>3 DEF Once
  <1>7. Absent(line, fs, os) => Absent(line, gs, ps)
    BY <1>4, <1>5 DEF Absent
  <1> QED
    BY <1>6, <1>7 DEF Keeps, gs, ps

\* A line that is written for the first time is there once.
LEMMA WrittenOnce ==
  ASSUME NEW line, NEW fs \in [Hours -> Text], NEW os \in Seq(Hours \X Text), NEW h \in Hours,
         Absent(line, fs, os)
  PROVE  Once(line, [fs EXCEPT ![h] = Append(@, line)], os, h)
  <1> DEFINE gs == [fs EXCEPT ![h] = Append(@, line)]
  <1>1. gs[h] = Append(fs[h], line) /\ Len(os) \in Nat /\ fs[h] \in Text
    OBVIOUS
  <1> HIDE DEF gs
  <1>2. \A j \in 0..Len(os) : In(line, TextOf(fs, os, h, j)) = {}
    BY DEF Absent
  <1>3. In(line, TextOf(gs, os, h, 0)) = {Len(fs[h]) + 1}
    <2>1. In(line, Append(fs[h], line)) = In(line, fs[h]) \cup {Len(fs[h]) + 1}
      BY <1>1, InAppend
    <2>2. In(line, TextOf(fs, os, h, 0)) = {}
      BY <1>1, <1>2
    <2> QED
      BY <1>1, <2>1, <2>2 DEF TextOf
  <1>4. \A j \in 0..Len(os) : j # 0 => In(line, TextOf(gs, os, h, j)) = {}
    BY <1>2 DEF TextOf
  <1>5. 0 \in 0..Len(os)
    BY <1>1
  <1> DEFINE place == Len(fs[h]) + 1
  <1>6. place \in In(line, TextOf(gs, os, h, 0))
    BY <1>3
  <1>7. \A k \in 0..Len(os) : \A m \in In(line, TextOf(gs, os, h, k)) : k = 0 /\ m = place
    BY <1>3, <1>4
  <1> HIDE DEF place
  <1>8. Once(line, gs, os, h)
    BY <1>5, <1>6, <1>7 DEF Once
  <1> QED
    BY <1>8 DEF gs

LEMMA OnceIsThere ==
  ASSUME NEW line, NEW fs, NEW os, NEW h \in Hours, Once(line, fs, os, h)
  PROVE  ~Absent(line, fs, os)
  BY DEF Once, Absent

-----------------------------------------------------------------------------
(* Lines that are to be written.                                           *)

\* Nothing becomes pending but what always was, for a line that is not begun is.
NoneAdded == \A line \in 1..MaxLines : Pending(line)' => Pending(line)

LEMMA CallsGoOn ==
  ASSUME Typed, OwnLines, lines' = lines,
         \A t \in Threads : Busy(t)' => Busy(t) /\ job'[t].line = job[t].line
  PROVE  OwnLines' /\ NoneAdded
  <1>1. ASSUME NEW t \in Threads, Busy(t)'
        PROVE  /\ job'[t].line \in 1..lines'
               /\ \A u \in Threads \ {t} : Busy(u)' => job'[u].line # job'[t].line
    BY <1>1 DEF OwnLines
  <1>2. OwnLines'
    BY <1>1 DEF OwnLines, Busy, Sections
  <1>3. NoneAdded
    BY DEF NoneAdded, Pending
  <1> QED
    BY <1>2, <1>3

LEMMA LineBegins ==
  ASSUME Typed, OwnLines, NEW t \in Threads, NEW n \in Names, LookUp(t, n)
  PROVE  OwnLines' /\ NoneAdded
  <1>1. lines \in Nat /\ lines' = lines + 1 /\ MaxLines \in Nat
    BY ConstantsTyped DEF LookUp, Typed
  <1>2. at'[t] = "found" /\ \A u \in Threads \ {t} : at'[u] = at[u]
    BY DEF LookUp, Typed
  <1>3. job'[t].line = lines' /\ \A u \in Threads \ {t} : job'[u] = job[u]
    BY DEF LookUp, Typed
  <1>4. \A u \in Threads \ {t} : Busy(u)' => Busy(u) /\ job'[u].line = job[u].line /\ job[u].line \in 1..lines
    BY <1>2, <1>3 DEF Busy, OwnLines
  <1>5. ASSUME NEW u \in Threads, Busy(u)'
        PROVE  /\ job'[u].line \in 1..lines'
               /\ \A v \in Threads \ {u} : Busy(v)' => job'[v].line # job'[u].line
    <2>1. job'[u].line \in 1..lines'
      BY <1>1, <1>3, <1>4, <1>5
    <2>2. ASSUME NEW v \in Threads \ {u}, Busy(v)'
          PROVE  job'[v].line # job'[u].line
      <3>1. CASE u = t
        BY <1>1, <1>3, <1>4, <2>2, <3>1
      <3>2. CASE v = t
        BY <1>1, <1>3, <1>4, <1>5, <2>2, <3>2
      <3>3. CASE u # t /\ v # t
        BY <1>4, <1>5, <2>2, <3>3 DEF OwnLines
      <3> QED
        BY <3>1, <3>2, <3>3
    <2> QED
      BY <2>1, <2>2
  <1>6. OwnLines'
    BY <1>5 DEF OwnLines, Busy, Sections
  <1>7. ASSUME NEW line \in 1..MaxLines, Pending(line)'
        PROVE  Pending(line)
    <2>1. CASE line > lines'
      BY <1>1, <2>1 DEF Pending
    <2>2. ASSUME NEW u \in Threads, Busy(u)', job'[u].line = line
          PROVE  Pending(line)
      <3>1. CASE u = t
        BY <1>1, <1>3, <2>2, <3>1 DEF Pending
      <3>2. CASE u # t
        BY <1>4, <2>2, <3>2 DEF Pending
      <3> QED
        BY <3>1, <3>2
    <2> QED
      BY <1>7, <2>1, <2>2 DEF Pending
  <1> QED
    BY <1>6, <1>7 DEF NoneAdded

LEMMA OwnLinesNext == Typed /\ OwnLines /\ [Next]_vars => OwnLines' /\ NoneAdded
  <1> SUFFICES ASSUME Typed, OwnLines, [Next]_vars PROVE OwnLines' /\ NoneAdded
    OBVIOUS
  <1> USE DEF callVars, loggerVars, counts
  <1> DEFINE GoOn == lines' = lines /\ \A t \in Threads : Busy(t)' => Busy(t) /\ job'[t].line = job[t].line
  <1>1. SetLogsDir \/ Tick \/ UNCHANGED vars => GoOn
    BY DEF SetLogsDir, Tick, vars, Busy
  <1>2. Killed \/ Ended => GoOn
    BY DEF Killed, Ended, Restart, Busy, Sections
  <1>3. \A n \in Names : ListLogger(n) => GoOn
    BY DEF ListLogger, Busy
  <1>4. \A t \in Threads : List(t) \/ ListEnd(t) \/ WriteToStdout(t) => GoOn
    BY DEF List, ListEnd, WriteToStdout, Returns, Busy, Sections, Typed
  <1>5. ASSUME NEW t \in Threads, LookAtClock(t)
        PROVE  GoOn
    <2>1. job[t] \in [name : Names, line : 0..MaxLines, hour : Hours]
      BY DEF Typed
    <2>2. job' = [job EXCEPT ![t] = [job[t] EXCEPT !.hour = clock]]
      BY <1>5 DEF LookAtClock
    <2>3. \A u \in Threads : job'[u].line = job[u].line
      BY <2>1, <2>2 DEF Typed
    <2>4. lines' = lines /\ at[t] = "found" /\ \A u \in Threads : u # t => at'[u] = at[u]
      BY <1>5 DEF LookAtClock, Typed
    <2> QED
      BY <2>3, <2>4 DEF Busy
  <1>6. \A t \in Threads : Stay(t) \/ Start(t) \/ MoveOn(t) => GoOn
    BY DEF Stay, Start, MoveOn, Busy, Typed
  <1>7. \A t \in Threads : Rename(t) \/ NothingToRename(t) \/ Open(t) => GoOn
    BY DEF Rename, NothingToRename, Open, Busy, Sections, Typed
  <1>8. \A t \in Threads : WriteRemark(t) \/ WriteLine(t) => GoOn
    BY DEF WriteRemark, WriteLine, Returns, Busy, Sections, Typed
  <1>9. GoOn => OwnLines' /\ NoneAdded
    BY CallsGoOn
  <1> HIDE DEF GoOn
  <1> QED
    BY <1>1, <1>2, <1>3, <1>4, <1>5, <1>6, <1>7, <1>8, <1>9, LineBegins, NextCases

-----------------------------------------------------------------------------
(* What is kept.                                                           *)

KeptTyped == kept \subseteq [line : 1..MaxLines, name : Names, hour : Hours \cup {None}]

\* A step that writes no line of a call.
LEMMA NothingWritten ==
  ASSUME Typed, NotYetWritten, ReturnedIsKept, KeptTyped, NoneAdded, UNCHANGED <<stdout, kept>>,
         \A line \in 1..MaxLines, n \in Names : Keeps(line, file[n], old[n], file'[n], old'[n])
  PROVE  NotYetWritten' /\ ReturnedIsKept' /\ KeptTyped'
  <1>1. ASSUME NEW line \in 1..MaxLines, Pending(line)'
        PROVE  In(line, stdout) = {} /\ \A n \in Names : Absent(line, file'[n], old'[n])
    BY <1>1 DEF NotYetWritten, NoneAdded, Keeps
  <1>2. NotYetWritten'
    BY <1>1 DEF NotYetWritten
  <1>3. ASSUME NEW k \in kept
        PROVE  IF k.hour = None THEN \E i \in In(k.line, stdout) : In(k.line, stdout) = {i}
               ELSE Once(k.line, file'[k.name], old'[k.name], k.hour)
    <2>1. k.line \in 1..MaxLines /\ k.name \in Names /\ k.hour \in Hours \cup {None}
      BY DEF KeptTyped
    <2> QED
      BY <2>1 DEF ReturnedIsKept, Keeps
  <1>4. ReturnedIsKept'
    BY <1>3 DEF ReturnedIsKept
  <1> QED
    BY <1>2, <1>4 DEF KeptTyped

LEMMA SameFilesKeep ==
  ASSUME Typed, NEW n \in Names, NEW line, file'[n] = file[n], old'[n] = old[n]
  PROVE  Keeps(line, file[n], old[n], file'[n], old'[n])
  BY DEF Keeps

\* A line of another, or a remark, is written.
LEMMA IntoKeeps ==
  ASSUME Typed, NEW n \in Names, NEW h \in Hours, NEW x, Into(n, h, x), old' = old,
         NEW line, line # x, NEW m \in Names
  PROVE  Keeps(line, file[m], old[m], file'[m], old'[m])
  <1>1. file[m] \in [Hours -> Text] /\ old[m] \in Seq(Hours \X Text) /\ old'[m] = old[m]
    BY DEF Typed
  <1>2. \A g \in Hours : file'[m][g] = file[m][g] \/ file'[m][g] = Append(file[m][g], x)
    BY DEF Into, Typed
  <1>3. \A g \in Hours : file'[m][g] = file[m][g] \/ \E y : y # line /\ file'[m][g] = Append(file[m][g], y)
    BY <1>2
  <1>4. Keeps(line, file[m], old[m], file'[m], old[m])
    BY <1>1, <1>3, OthersGrow
  <1> QED
    BY <1>1, <1>4

LEMMA RenameKeeps ==
  ASSUME Typed, NEW t \in Threads, Rename(t), NEW line, NEW m \in Names
  PROVE  Keeps(line, file[m], old[m], file'[m], old'[m])
  <1> DEFINE n == job[t].name  h == job[t].hour
  <1>1. n \in Names /\ h \in Hours
    BY SMTT(60) DEF Typed
  <1>2. \/ /\ old' = [old EXCEPT ![n] = Append(@, <<h, file[n][h]>>)]
           /\ file' = [file EXCEPT ![n][h] = <<>>]
        \/ UNCHANGED <<old, file>>
    BY DEF Rename
  <1> HIDE DEF n, h
  <1>3. file[m] \in [Hours -> Text] /\ old[m] \in Seq(Hours \X Text)
    BY DEF Typed
  <1>4. \/ m = n /\ file'[m] = [file[m] EXCEPT ![h] = <<>>] /\ old'[m] = Append(old[m], <<h, file[m][h]>>)
        \/ file'[m] = file[m] /\ old'[m] = old[m]
    <2>1. CASE UNCHANGED <<old, file>>
      BY <2>1
    <2>2. CASE /\ old' = [old EXCEPT ![n] = Append(@, <<h, file[n][h]>>)]
               /\ file' = [file EXCEPT ![n][h] = <<>>]
      <3>1. m # n => file'[m] = file[m] /\ old'[m] = old[m]
        BY <2>2 DEF Typed
      <3>2. m = n => old'[m] = Append(old[m], <<h, file[m][h]>>)
        BY <2>2 DEF Typed
      <3>3. m = n => file'[m] = [file[m] EXCEPT ![h] = <<>>]
        BY <2>2 DEF Typed
      <3> QED
        BY <3>1, <3>2, <3>3
    <2> QED
      BY <1>2, <2>1, <2>2
  <1>5. Keeps(line, file[m], old[m], [file[m] EXCEPT ![h] = <<>>], Append(old[m], <<h, file[m][h]>>))
    BY <1>1, <1>3, RenamedKeeps
  <1> QED
    BY <1>4, <1>5, SameFilesKeep

LEMMA EndedKeeps ==
  ASSUME Typed, Ended, NEW line \in 1..MaxLines, NEW m \in Names
  PROVE  Keeps(line, file[m], old[m], file'[m], old'[m])
  <1>1. file[m] \in [Hours -> Text] /\ old[m] \in Seq(Hours \X Text) /\ old'[m] = old[m]
    BY DEF Typed, Ended, Restart
  <1>2. \A g \in Hours : file'[m][g] = file[m][g] \/ file'[m][g] = Append(file[m][g], Remark)
    BY DEF Ended
  <1>3. Remark # line
    BY ConstantsTyped DEF Remark
  <1>4. \A g \in Hours : file'[m][g] = file[m][g] \/ \E y : y # line /\ file'[m][g] = Append(file[m][g], y)
    BY <1>2, <1>3
  <1>5. Keeps(line, file[m], old[m], file'[m], old[m])
    BY <1>1, <1>4, OthersGrow
  <1> QED
    BY <1>1, <1>5

\* The line of a call in progress is not kept yet.
LEMMA KeptIsNotPending ==
  ASSUME Typed, NotYetWritten, ReturnedIsKept, KeptTyped, NEW k \in kept
  PROVE  ~Pending(k.line)
  <1> SUFFICES ASSUME Pending(k.line) PROVE FALSE
    OBVIOUS
  <1>1. k.line \in 1..MaxLines /\ k.name \in Names /\ k.hour \in Hours \cup {None}
    BY DEF KeptTyped
  <1>2. In(k.line, stdout) = {} /\ Absent(k.line, file[k.name], old[k.name])
    BY <1>1 DEF NotYetWritten
  <1> QED
    BY <1>1, <1>2, OnceIsThere DEF ReturnedIsKept

\* The line that a thread has written is pending no longer.
LEMMA LineDone ==
  ASSUME Typed, OwnLines, NEW t \in Threads, Busy(t), ~Busy(t)', UNCHANGED <<job, lines>>,
         \A u \in Threads : u # t => at'[u] = at[u]
  PROVE  /\ job[t].line \in 1..MaxLines /\ Pending(job[t].line)
         /\ \A line \in 1..MaxLines : Pending(line)' => line # job[t].line
  <1>1. job[t].line \in 1..lines /\ lines \in 0..MaxLines /\ MaxLines \in Nat
    BY ConstantsTyped DEF OwnLines, Typed
  <1>2. \A u \in Threads \ {t} : Busy(u) => job[u].line # job[t].line
    BY DEF OwnLines
  <1>3. \A u \in Threads : Busy(u)' => Busy(u) /\ u # t
    BY DEF Busy
  <1>4. \A line \in 1..MaxLines : Pending(line)' => line # job[t].line
    BY <1>1, <1>2, <1>3 DEF Pending
  <1> QED
    BY <1>1, <1>4 DEF Pending

LEMMA LineToFile ==
  ASSUME Typed, OwnLines, NotYetWritten, ReturnedIsKept, KeptTyped, NoneAdded, NEW t \in Threads, WriteLine(t)
  PROVE  NotYetWritten' /\ ReturnedIsKept' /\ KeptTyped'
  <1> DEFINE mine == job[t].line  n == job[t].name  h == job[t].hour
  <1>1. n \in Names /\ h \in Hours /\ MaxLines \in Nat
    BY ConstantsTyped DEF Typed
  <1>2. /\ Into(n, h, mine) /\ old' = old /\ stdout' = stdout
        /\ kept' = IF sound[n] THEN kept \cup {[line |-> mine, name |-> n, hour |-> h]} ELSE kept
    BY DEF WriteLine, Returns
  <1>3. /\ mine \in 1..MaxLines /\ Pending(mine)
        /\ \A line \in 1..MaxLines : Pending(line)' => line # mine
    <2>1. Busy(t) /\ ~Busy(t)' /\ UNCHANGED <<job, lines>> /\ \A u \in Threads : u # t => at'[u] = at[u]
      BY DEF WriteLine, Returns, Busy, Sections, Typed, counts, loggerVars
    <2> QED
      BY <2>1, LineDone
  <1>4. In(mine, stdout) = {} /\ Absent(mine, file[n], old[n])
    BY <1>1, <1>3 DEF NotYetWritten
  <1>5. sound[n] => Once(mine, file'[n], old'[n], h)
    <2>1. SUFFICES ASSUME sound[n] PROVE Once(mine, file'[n], old'[n], h)
      OBVIOUS
    <2>2. file[n] \in [Hours -> Text] /\ old[n] \in Seq(Hours \X Text)
      BY <1>1 DEF Typed
    <2>3. file'[n] = [file[n] EXCEPT ![h] = Append(@, mine)] /\ old'[n] = old[n]
      BY <1>1, <1>2, <2>1 DEF Into, Typed
    <2>4. Once(mine, [file[n] EXCEPT ![h] = Append(@, mine)], old[n], h)
      BY <1>1, <1>4, <2>2, WrittenOnce
    <2> QED
      BY <2>3, <2>4
  <1> HIDE DEF mine, n, h
  <1>6. \A line, m : m \in Names /\ line # mine => Keeps(line, file[m], old[m], file'[m], old'[m])
    BY <1>1, <1>2, IntoKeeps
  <1>7. ASSUME NEW line \in 1..MaxLines, Pending(line)'
        PROVE  In(line, stdout) = {} /\ \A m \in Names : Absent(line, file'[m], old'[m])
    <2>1. In(line, stdout) = {} /\ \A m \in Names : Absent(line, file[m], old[m])
      BY <1>7 DEF NotYetWritten, NoneAdded
    <2> QED
      BY <1>3, <1>6, <1>7, <2>1 DEF Keeps
  <1>8. NotYetWritten'
    BY <1>2, <1>7 DEF NotYetWritten
  <1>9. ASSUME NEW k \in kept'
        PROVE  /\ IF k.hour = None THEN \E i \in In(k.line, stdout) : In(k.line, stdout) = {i}
                  ELSE Once(k.line, file'[k.name], old'[k.name], k.hour)
               /\ k \in [line : 1..MaxLines, name : Names, hour : Hours \cup {None}]
    <2>1. CASE k \in kept
      <3>1. k.line \in 1..MaxLines /\ k.name \in Names /\ k.hour \in Hours \cup {None}
        BY <2>1 DEF KeptTyped
      <3>2. k.line # mine
        BY <1>3, <2>1, KeptIsNotPending
      <3>3. Keeps(k.line, file[k.name], old[k.name], file'[k.name], old'[k.name])
        BY <1>6, <3>1, <3>2
      <3> QED
        BY <2>1, <3>1, <3>3 DEF ReturnedIsKept, KeptTyped, Keeps
    <2>2. CASE k = [line |-> mine, name |-> n, hour |-> h] /\ sound[n]
      BY <1>1, <1>3, <1>5, <2>2, ConstantsTyped
    <2> QED
      BY <1>2, <1>9, <2>1, <2>2
  <1> QED
    BY <1>2, <1>8, <1>9 DEF ReturnedIsKept, KeptTyped

LEMMA LineToStdout ==
  ASSUME Typed, OwnLines, NotYetWritten, ReturnedIsKept, KeptTyped, NoneAdded, NEW t \in Threads, WriteToStdout(t)
  PROVE  NotYetWritten' /\ ReturnedIsKept' /\ KeptTyped'
  <1> DEFINE mine == job[t].line  n == job[t].name
  <1>1. n \in Names /\ stdout \in Text
    BY DEF Typed
  <1>2. /\ file' = file /\ old' = old /\ stdout' = Append(stdout, mine)
        /\ kept' = kept \cup {[line |-> mine, name |-> n, hour |-> None]}
    BY DEF WriteToStdout, Returns
  <1>3. /\ mine \in 1..MaxLines /\ Pending(mine)
        /\ \A line \in 1..MaxLines : Pending(line)' => line # mine
    <2>1. Busy(t) /\ ~Busy(t)' /\ UNCHANGED <<job, lines>> /\ \A u \in Threads : u # t => at'[u] = at[u]
      BY DEF WriteToStdout, Returns, Busy, Sections, Typed, counts, loggerVars
    <2> QED
      BY <2>1, LineDone
  <1>4. In(mine, stdout) = {}
    BY <1>3 DEF NotYetWritten
  <1> HIDE DEF mine, n
  <1>5. /\ In(mine, stdout') = {Len(stdout) + 1}
        /\ \A line : line # mine => In(line, stdout') = In(line, stdout)
    BY <1>1, <1>2, <1>4, InAppend
  <1>6. ASSUME NEW line \in 1..MaxLines, Pending(line)'
        PROVE  In(line, stdout') = {} /\ \A m \in Names : Absent(line, file[m], old[m])
    BY <1>3, <1>5, <1>6 DEF NotYetWritten, NoneAdded
  <1>7. NotYetWritten'
    BY <1>2, <1>6 DEF NotYetWritten
  <1>8. ASSUME NEW k \in kept'
        PROVE  /\ IF k.hour = None THEN \E i \in In(k.line, stdout') : In(k.line, stdout') = {i}
                  ELSE Once(k.line, file[k.name], old[k.name], k.hour)
               /\ k \in [line : 1..MaxLines, name : Names, hour : Hours \cup {None}]
    <2>1. CASE k \in kept
      <3>1. k.line # mine
        BY <1>3, <2>1, KeptIsNotPending
      <3> QED
        BY <1>5, <2>1, <3>1 DEF ReturnedIsKept, KeptTyped
    <2>2. CASE k = [line |-> mine, name |-> n, hour |-> None]
      BY <1>1, <1>3, <1>5, <2>2
    <2> QED
      BY <1>2, <1>8, <2>1, <2>2
  <1> QED
    BY <1>2, <1>7, <1>8 DEF ReturnedIsKept, KeptTyped

LEMMA KeptNext == Typed /\ Mutex /\ KeptInv /\ [Next]_vars => KeptInv'
  <1> SUFFICES ASSUME Typed, Mutex, KeptInv, [Next]_vars PROVE KeptInv'
    OBVIOUS
  <1> USE DEF callVars, loggerVars, counts
  <1>1. ToFiles /\ OwnLines /\ NotYetWritten /\ ReturnedIsKept /\ KeptTyped
    BY DEF KeptInv, KeptTyped
  <1>2. ToFiles' /\ OwnLines' /\ NoneAdded
    BY <1>1, MutexNext, OwnLinesNext
  <1> DEFINE Good == NotYetWritten' /\ ReturnedIsKept' /\ KeptTyped'
  <1>3. UNCHANGED <<file, old, stdout, kept>> => Good
    <2>1. UNCHANGED <<file, old>> => \A line \in 1..MaxLines, n \in Names : Keeps(line, file[n], old[n], file'[n], old'[n])
      BY SameFilesKeep, <1>1
    <2> QED
      BY <1>1, <1>2, <2>1, NothingWritten
  <1>4. SetLogsDir \/ Tick \/ Killed \/ UNCHANGED vars => UNCHANGED <<file, old, stdout, kept>>
    BY DEF SetLogsDir, Tick, Killed, Restart, vars
  <1>5. \A n \in Names : ListLogger(n) => UNCHANGED <<file, old, stdout, kept>>
    BY DEF ListLogger
  <1>6. \A t \in Threads : List(t) \/ ListEnd(t) \/ LookAtClock(t) \/ Stay(t) \/ Start(t) \/ NothingToRename(t)
          \/ Open(t) => UNCHANGED <<file, old, stdout, kept>>
    BY DEF List, ListEnd, LookAtClock, Stay, Start, NothingToRename, Open
  <1>7. \A t \in Threads, n \in Names : LookUp(t, n) => UNCHANGED <<file, old, stdout, kept>>
    BY DEF LookUp
  <1>8. ASSUME NEW t \in Threads, MoveOn(t) \/ WriteRemark(t)
        PROVE  Good
    <2>1. /\ job[t].name \in Names /\ job[t].hour \in Hours
          /\ UNCHANGED <<old, stdout, kept>>
          /\ \E h \in Hours : Into(job[t].name, h, Remark)
      BY <1>8 DEF MoveOn, WriteRemark, Typed
    <2>2. \A line \in 1..MaxLines : line # Remark
      BY ConstantsTyped DEF Remark
    <2>3. \A line \in 1..MaxLines, m \in Names : Keeps(line, file[m], old[m], file'[m], old'[m])
      BY <2>1, <2>2, IntoKeeps
    <2> QED
      BY <1>1, <1>2, <2>1, <2>3, NothingWritten
  <1>9. ASSUME NEW t \in Threads, Rename(t)
        PROVE  Good
    <2>1. UNCHANGED <<stdout, kept>>
      BY <1>9 DEF Rename
    <2>2. \A line \in 1..MaxLines, m \in Names : Keeps(line, file[m], old[m], file'[m], old'[m])
      BY <1>9, RenameKeeps
    <2> QED
      BY <1>1, <1>2, <2>1, <2>2, NothingWritten
  <1>10. Ended => Good
    <2>1. Ended => UNCHANGED <<stdout, kept>>
      BY DEF Ended, Restart
    <2>2. Ended => \A line \in 1..MaxLines, m \in Names : Keeps(line, file[m], old[m], file'[m], old'[m])
      BY EndedKeeps
    <2> QED
      BY <1>1, <1>2, <2>1, <2>2, NothingWritten
  <1>11. \A t \in Threads : WriteLine(t) \/ WriteToStdout(t) => Good
    BY <1>1, <1>2, LineToFile, LineToStdout
  <1> HIDE DEF Good
  <1>12. Good
    BY <1>3, <1>4, <1>5, <1>6, <1>7, <1>8, <1>9, <1>10, <1>11, NextCases
  <1> QED
    BY <1>2, <1>12 DEF Good, KeptInv, KeptTyped

\* What a thread has written stays where it meant it, once: neither the turn of an
\* hour, at which threads switch a logger forth and back and rename files away, nor a
\* restart between any two steps loses or doubles a line of WriteLineToFile.
THEOREM WrittenIsKept == Spec => []ReturnedIsKept
  <1>1. Init => Typed /\ Mutex /\ KeptInv
    BY TypedInit
  <1>2. Typed /\ Mutex /\ KeptInv /\ [Next]_vars => (Typed /\ Mutex /\ KeptInv)'
    BY TypedNext, MutexNext, KeptNext DEF KeptInv
  <1>3. KeptInv => ReturnedIsKept
    BY DEF KeptInv
  <1> QED
    BY <1>1, <1>2, <1>3, PTL DEF Spec
===============================================================================
