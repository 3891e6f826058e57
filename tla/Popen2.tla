------------------------------- MODULE Popen2 -------------------------------
(***************************************************************************)
(* C5T_POPEN2 of lib_c5t_popen2.cc: one call of it, which forks a child,    *)
(* runs the user's code on a thread of its own, reads the child's output on *)
(* one thread per stream, and returns once the child and all three threads *)
(* are done.  Other threads may ask to kill the child while the user's code *)
(* runs: C5T_LIFETIME_MANAGER_TRACKED_POPEN2 does so when the program is to *)
(* terminate.                                                              *)
(*                                                                         *)
(* A piece is what one ::read returns, and it may end a line or not.  The   *)
(* child is a filter: it reads its input unless it has something to say.   *)
(***************************************************************************)
EXTENDS Naturals, Sequences, SequencesExt

CONSTANTS
  Streams,   \* the child's output streams, stdout and stderr
  User,      \* the thread that runs cb_user_code
  Others,    \* further threads that may call Kill
  PipeCap,   \* how many pieces a pipe holds
  Greeting,  \* how many pieces the child writes before it reads
  MaxWrites  \* bounds how many times the user's code writes

ASSUME Popen2Assumption ==
  /\ User \notin Others
  /\ PipeCap \in Nat \ {0} /\ Greeting \in Nat /\ MaxWrites \in Nat

Killers == {User} \cup Others

VARIABLES
  parent,    \* how far the call is
  user,      \* how far the user's code is
  killer,    \* how far each thread is in Kill
  done,      \* already_done
  sent,      \* how many times each thread has sent SIGTERM
  writes,    \* how many times the user's code has written
  stdin,     \* how many pieces the child has not read yet
  child,     \* "none", "running", "ended" or, once waited for, "reaped"
  owed,      \* the streams to which the child is about to write a piece, in order
  written,   \* what the child has written, per stream
  pipe,      \* what is still in the pipe of each stream
  told,      \* the streams whose terminate pipe holds a byte
  reader,    \* how far each reader thread is
  group,     \* the line that each reader's grouper holds
  lines,     \* the lines given to the callback of each stream
  sigpipe,   \* what a write to a pipe nobody reads does to this program
  crashed    \* the program was killed by SIGPIPE

userVars == <<user, writes>>
killVars == <<killer, done, sent>>
childVars == <<child, owed, written>>
readVars == <<told, reader, group, lines>>
vars == <<parent, userVars, killVars, stdin, childVars, pipe, readVars, sigpipe, crashed>>

Pieces == [nr : Nat, endsLine : BOOLEAN]

Popen2TypeOK ==
  /\ parent \in {"fork", "start", "read", "wait", "mark", "tell", "join", "close", "returned"}
  /\ user \in {"no", "running", "writing", "done"} /\ writes \in 0..MaxWrites
  /\ killer \in [Killers -> {"idle", "kill"}]
  /\ done \in BOOLEAN
  /\ sent \in [Killers -> Nat]
  /\ stdin \in 0..PipeCap
  /\ child \in {"none", "running", "ended", "reaped"} /\ owed \in Seq(Streams)
  /\ written \in [Streams -> Seq(Pieces)]
  /\ pipe \in [Streams -> Seq(Pieces)] /\ \A s \in Streams : Len(pipe[s]) <= PipeCap
  /\ told \subseteq Streams
  /\ reader \in [Streams -> {"no", "polling", "done"}]
  /\ group \in [Streams -> Seq(Pieces)]
  /\ lines \in [Streams -> Seq(Seq(Pieces))]
  /\ sigpipe \in {"ignored", "deadly"} /\ crashed \in BOOLEAN

Init ==
  /\ parent = "fork" /\ child = "none" /\ user = "no"
  /\ killer = [k \in Killers |-> "idle"] /\ sent = [k \in Killers |-> 0]
  /\ done = FALSE /\ writes = 0 /\ stdin = 0 /\ owed = <<>> /\ told = {}
  /\ written = [s \in Streams |-> <<>>] /\ pipe = [s \in Streams |-> <<>>]
  /\ reader = [s \in Streams |-> "no"]
  /\ group = [s \in Streams |-> <<>>] /\ lines = [s \in Streams |-> <<>>]
  /\ sigpipe \in {"ignored", "deadly"} /\ crashed = FALSE

-----------------------------------------------------------------------------
(* The thread that calls C5T_POPEN2.                                       *)

Fork ==
  /\ parent = "fork"
  /\ parent' = "start" /\ child' = "running" /\ owed' \in [1..Greeting -> Streams]
  /\ UNCHANGED <<userVars, killVars, stdin, written, pipe, readVars, sigpipe, crashed>>

StartUserCode ==
  /\ parent = "start"
  /\ parent' = "read" /\ user' = "running"
  /\ UNCHANGED <<writes, killVars, stdin, childVars, pipe, readVars, sigpipe, crashed>>

SpawnReaders ==
  /\ parent = "read"
  /\ parent' = "wait" /\ reader' = [s \in Streams |-> "polling"]
  /\ UNCHANGED <<userVars, killVars, stdin, childVars, pipe, told, group, lines, sigpipe, crashed>>

\* ::waitpid returns: from here on the pid may be another process's.
WaitPid ==
  /\ parent = "wait" /\ child = "ended"
  /\ parent' = "mark" /\ child' = "reaped"
  /\ UNCHANGED <<userVars, killVars, stdin, owed, written, pipe, readVars, sigpipe, crashed>>

MarkDone ==
  /\ parent = "mark"
  /\ parent' = "tell" /\ done' = TRUE
  /\ UNCHANGED <<userVars, killer, sent, stdin, childVars, pipe, readVars, sigpipe, crashed>>

\* A plausible bug: only one of the readers is told.
TellReaders_One ==
  /\ parent = "tell"
  /\ parent' = "join" /\ told' = {CHOOSE s \in Streams : TRUE}
  /\ UNCHANGED <<userVars, killVars, stdin, childVars, pipe, reader, group, lines, sigpipe, crashed>>

TellReaders ==
  /\ parent = "tell"
  /\ parent' = "join" /\ told' = Streams
  /\ UNCHANGED <<userVars, killVars, stdin, childVars, pipe, reader, group, lines, sigpipe, crashed>>

\* A plausible bug: the thread of the user's code is not waited for.
Join_Readers ==
  /\ parent = "join" /\ \A s \in Streams : reader[s] = "done"
  /\ parent' = "close"
  /\ UNCHANGED <<userVars, killVars, stdin, childVars, pipe, readVars, sigpipe, crashed>>

Join ==
  /\ parent = "join" /\ user = "done" /\ \A s \in Streams : reader[s] = "done"
  /\ parent' = "close"
  /\ UNCHANGED <<userVars, killVars, stdin, childVars, pipe, readVars, sigpipe, crashed>>

\* Closes the pipes, and returns: what is left in them is gone.
Close ==
  /\ parent = "close"
  /\ parent' = "returned"
  /\ UNCHANGED <<userVars, killVars, stdin, childVars, pipe, readVars, sigpipe, crashed>>

Calling == Fork \/ StartUserCode \/ SpawnReaders \/ WaitPid \/ MarkDone \/ TellReaders \/ Join \/ Close

-----------------------------------------------------------------------------
(* The user's code, and whoever else may call Kill.                        *)

Write ==
  /\ user = "running" /\ killer[User] = "idle" /\ writes < MaxWrites
  /\ user' = "writing" /\ writes' = writes + 1
  /\ UNCHANGED <<parent, killVars, stdin, childVars, pipe, readVars, sigpipe, crashed>>

\* A plausible bug: a pipe is taken to have room for everything.
Written_Unbounded ==
  /\ user = "writing"
  /\ user' = "running" /\ stdin' = stdin + 1
  /\ UNCHANGED <<parent, writes, killVars, childVars, pipe, readVars, sigpipe, crashed>>

\* ::write blocks for as long as the pipe is full.
Written ==
  /\ user = "writing" /\ child = "running" /\ stdin < PipeCap
  /\ user' = "running" /\ stdin' = stdin + 1
  /\ UNCHANGED <<parent, writes, killVars, childVars, pipe, readVars, sigpipe, crashed>>

\* There is nobody left to read it: an error that write_ drops, or SIGPIPE.
BrokenPipe ==
  /\ user = "writing" /\ child # "running"
  /\ user' = "running" /\ crashed' = (sigpipe = "deadly")
  /\ UNCHANGED <<parent, writes, killVars, stdin, childVars, pipe, readVars, sigpipe>>

\* Another thread gets at the runtime context only while the user's code runs.
MayKill(k) ==
  /\ killer[k] = "idle"
  /\ IF k = User THEN user = "running" ELSE user \in {"running", "writing"}

CheckDone(k) ==
  /\ MayKill(k) /\ ~done
  /\ killer' = [killer EXCEPT ![k] = "kill"]
  /\ UNCHANGED <<parent, userVars, done, sent, stdin, childVars, pipe, readVars, sigpipe, crashed>>

\* The flag is checked and set in two steps.
Kill(k) ==
  /\ killer[k] = "kill"
  /\ killer' = [killer EXCEPT ![k] = "idle"] /\ sent' = [sent EXCEPT ![k] = @ + 1]
  /\ done' = TRUE
  /\ UNCHANGED <<parent, userVars, stdin, childVars, pipe, readVars, sigpipe, crashed>>

\* The scope of the tracked call waits for a callback that is running.
UserCodeReturns ==
  /\ user = "running" /\ \A k \in Killers : killer[k] = "idle"
  /\ user' = "done"
  /\ UNCHANGED <<parent, writes, killVars, stdin, childVars, pipe, readVars, sigpipe, crashed>>

Writing == Written \/ BrokenPipe
Killing == \E k \in Killers : Kill(k)
UsersCode == Write \/ UserCodeReturns \/ \E k \in Killers : CheckDone(k)

-----------------------------------------------------------------------------
(* The child.                                                              *)

ChildReads ==
  /\ child = "running" /\ owed = <<>> /\ stdin > 0
  /\ stdin' = stdin - 1 /\ owed' \in [1..1 -> Streams]
  /\ UNCHANGED <<parent, userVars, killVars, child, written, pipe, readVars, sigpipe, crashed>>

ChildWrites(s) ==
  /\ child = "running" /\ owed # <<>> /\ s = Head(owed) /\ Len(pipe[s]) < PipeCap
  /\ \E ends \in BOOLEAN :
       LET piece == [nr |-> Len(written[s]) + 1, endsLine |-> ends]
       IN  /\ pipe' = [pipe EXCEPT ![s] = Append(@, piece)]
           /\ written' = [written EXCEPT ![s] = Append(@, piece)]
  /\ owed' = Tail(owed)
  /\ UNCHANGED <<parent, userVars, killVars, stdin, child, readVars, sigpipe, crashed>>

\* By itself, or by SIGTERM, which it may as well ignore.
ChildEnds ==
  /\ child = "running"
  /\ child' = "ended"
  /\ UNCHANGED <<parent, userVars, killVars, stdin, owed, written, pipe, readVars, sigpipe, crashed>>

ChildWorks == ChildReads \/ \E s \in Streams : ChildWrites(s)

-----------------------------------------------------------------------------
(* The reader threads.                                                     *)

\* What the grouper makes of a piece: it calls back for each line that ends.
Feed(s, piece) ==
  IF piece.endsLine
  THEN /\ lines' = [lines EXCEPT ![s] = Append(@, Append(group[s], piece))]
       /\ group' = [group EXCEPT ![s] = <<>>]
  ELSE /\ group' = [group EXCEPT ![s] = Append(@, piece)]
       /\ UNCHANGED lines

\* A plausible bug: the streams are read one after the other.
Read_InTurn(s) ==
  /\ reader[s] = "polling" /\ s \notin told /\ pipe[s] # <<>> /\ s = CHOOSE t \in Streams : t \notin told
  /\ pipe' = [pipe EXCEPT ![s] = Tail(@)]
  /\ Feed(s, Head(pipe[s]))
  /\ UNCHANGED <<parent, userVars, killVars, stdin, childVars, told, reader, sigpipe, crashed>>

\* A plausible bug: the text read is not terminated, and is fed again later.
Read_Again(s) ==
  /\ reader[s] = "polling" /\ s \notin told /\ pipe[s] # <<>>
  /\ Feed(s, Head(pipe[s]))
  /\ UNCHANGED <<parent, userVars, killVars, stdin, childVars, pipe, told, reader, sigpipe, crashed>>

\* One turn of the loop: the terminate pipe is looked at first.  A read that fails, on
\* which the reader gives up, does not happen here: the pipe is open, and has something.
Read(s) ==
  /\ reader[s] = "polling" /\ s \notin told /\ pipe[s] # <<>>
  /\ pipe' = [pipe EXCEPT ![s] = Tail(@)]
  /\ Feed(s, Head(pipe[s]))
  /\ UNCHANGED <<parent, userVars, killVars, stdin, childVars, told, reader, sigpipe, crashed>>

\* Out of the loop, whatever is left to read; the grouper gives its last line.
Stop(s) ==
  /\ reader[s] = "polling" /\ s \in told
  /\ reader' = [reader EXCEPT ![s] = "done"]
  /\ group' = [group EXCEPT ![s] = <<>>]
  /\ lines' = [lines EXCEPT ![s] = IF group[s] = <<>> THEN @ ELSE Append(@, group[s])]
  /\ UNCHANGED <<parent, userVars, killVars, stdin, childVars, pipe, told, sigpipe, crashed>>

Reading(s) == Read(s) \/ Stop(s)

-----------------------------------------------------------------------------

\* The call has returned, or the program was killed.
Over == (parent = "returned" \/ crashed) /\ UNCHANGED vars

Program == Calling \/ UsersCode \/ Writing \/ Killing \/ \E s \in Streams : Reading(s)

Next ==
  \/ ~crashed /\ Program
  \/ ~crashed /\ ChildWorks
  \/ ~crashed /\ ChildEnds
  \/ Over

Spec == Init /\ [][Next]_vars

-----------------------------------------------------------------------------

Whole(line) == \A i \in 1..Len(line) : line[i].endsLine <=> i = Len(line)

\* What was given to the callback, what the grouper holds and what is in the pipe
\* are the child's output in its order, nothing lost, doubled or torn, and every
\* line but the last one, which may be left without its end, is given as a whole.
LinesAreWhole ==
  \A s \in Streams :
    /\ FlattenSeq(lines[s]) \o group[s] \o pipe[s] = written[s]
    /\ \A i \in 1..Len(lines[s]) :
         \/ Whole(lines[s][i])
         \/ i = Len(lines[s]) /\ reader[s] = "done"

\* The pipes and the runtime context, which is on the stack of the call, are let
\* go only when nobody can use them any more, and the child is waited for.
NobodyOutlivesTheCall ==
  parent \in {"close", "returned"} =>
    /\ user = "done" /\ child = "reaped"
    /\ \A k \in Killers : killer[k] = "idle"
    /\ \A s \in Streams : reader[s] = "done"

\* With full pipes both ways, a write of the user's code still comes to an end:
\* the readers never wait for it, nor for the child.
WritesComplete == user = "writing" ~> (user # "writing" \/ crashed)

-----------------------------------------------------------------------------
(* What the tests and the comments say.                                    *)

\* The test expects what the child has written before it ended by itself.
NothingIsLost ==
  parent = "returned" /\ (\A k \in Killers : sent[k] = 0) =>
    \A s \in Streams : FlattenSeq(lines[s]) = written[s]

\* "It is guaranteed that SIGTERM will only be sent to the child process once."
TermIsSentOnce == \A k, l \in Killers : sent[k] > 0 /\ sent[l] > 0 => k = l
=============================================================================
