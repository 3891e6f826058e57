------------------------------ MODULE WssServer ------------------------------
(***************************************************************************)
(* The demo of wss.cc: a tracked thread, the keeper, runs python_wss.py,    *)
(* which tells of its websocket clients line by line and forwards to them   *)
(* what it is told; the clients talk to each other, and one of them, or a    *)
(* POST to /stop, stops the program.                                        *)
(*                                                                         *)
(* The tracked call of C5T_POPEN2 is taken by what it promises (see Popen2): *)
(* the lines of the child come whole and in order while it runs, the call    *)
(* returns once the child and the user's code are done, and Kill, from the   *)
(* user's code or the termination, is a SIGTERM.  A broadcast is a number,   *)
(* its place among all of them.                                             *)
(*                                                                         *)
(* python_wss.py prints a message as it comes.  With a line feed in it, it   *)
(* is several lines, of which the program takes each for a line of the       *)
(* child's: such a message is torn, and a client makes with it any line.     *)
(***************************************************************************)
EXTENDS Naturals, Sequences, FiniteSets

CONSTANTS
  MaxClients,  \* bounds how many clients connect to one child
  MaxSaid,     \* bounds how often the clients connect and say a line, and what the plugin says
  MaxBreaks,   \* bounds how many line breaks there are in a message
  OneDigit     \* the last index of a client that is written in one digit, 9

ASSUME WssAssumption == MaxClients \in Nat /\ MaxSaid \in Nat /\ MaxBreaks \in Nat /\ OneDigit \in Nat

VARIABLES
  stop,        \* time_to_stop_http_server_and_die
  main,        \* "up", "exiting" or "out"
  dying, conns, toGreet, broadcasts,  \* the shared State
  done,        \* the flag of the keeper's loop, and the end of the thread that sets it
  keeper,      \* "check", "calling" or "over"
  user,        \* the user's code: "no", "waiting", "sending" or "over"
  leaving,     \* the snapshot it works on says that it is time to die
  outbox,      \* what it still has to write
  reader,      \* the callback for the output: "reading", "replying" or "stopping"
  child, term, \* "none", "running" or "ended", and whether SIGTERM was sent
  stdin, stdout,  \* what is in the child's pipes
  idx, open,   \* the child's counter of clients, and those that are connected
  said,        \* how often the clients have connected and said a line
  torn,        \* history: a client has said something with a line break in it
  heard,       \* history: what the child has sent to each client, kept until then and while it runs
  spoken,      \* history: who each broadcast is from
  joined       \* history: how many broadcasts there were when the client came

stateVars == <<dying, conns, toGreet, broadcasts>>
userVars == <<user, leaving, outbox>>
childVars == <<idx, open, said, torn>>
history == <<heard, spoken, joined>>
vars == <<stop, main, stateVars, done, keeper, userVars, reader, child, term, stdin, stdout, childVars, history>>

Clients == 1..MaxClients
Ids == {0} \cup Clients         \* 0 is for the program, and for an index that no client has
Hello == 0                      \* a greeting
Dying == 2 * MaxSaid + 1        \* the last message: there is no broadcast of this number
Broadcasts == 1..(2 * MaxSaid)  \* the plugin makes some only while there are less than MaxSaid

\* Lines with a message, one for each of those it is for, in the order of their indexes.
Round == [to : SUBSET Ids, nr : {Hello, Dying} \cup Broadcasts]

\* What the callback makes of a line, and of what is left of a message after its
\* first line: sscanf may find any number in it, or none.
Lines == [is : {"+", "-", "say", "stop"}, id : Ids]
Rests(breaks) == UNION {[1..n -> Lines] : n \in 0..breaks}

WssTypeOK ==
  /\ stop \in BOOLEAN /\ main \in {"up", "exiting", "out"}
  /\ dying \in BOOLEAN /\ conns \subseteq Ids /\ toGreet \subseteq conns
  /\ broadcasts \in Seq([from : Ids, nr : Broadcasts])
  /\ done \in BOOLEAN /\ (done => dying) /\ (dying => stop)
  /\ keeper \in {"check", "calling", "over"}
  /\ user \in {"no", "waiting", "sending", "over"} /\ leaving \in BOOLEAN
  /\ outbox \in Seq(Round)
  /\ reader \in {"reading", "replying", "stopping"}
  /\ child \in {"none", "running", "ended"} /\ term \in BOOLEAN
  /\ stdin \in Seq(Round)
  /\ stdout \in Seq(Lines)
  /\ idx \in 0..MaxClients /\ open \subseteq 1..idx /\ said \in 0..MaxSaid /\ torn \in BOOLEAN
  /\ heard \in [Clients -> Seq({Hello, Dying} \cup Broadcasts)]
  /\ spoken \in Seq(Ids) /\ Len(spoken) <= 2 * MaxSaid
  /\ joined \in [Ids -> 0..(2 * MaxSaid)]

Init ==
  /\ stop = FALSE /\ main = "up" /\ done = FALSE /\ keeper = "check"
  /\ dying = FALSE /\ conns = {} /\ toGreet = {} /\ broadcasts = <<>>
  /\ user = "no" /\ leaving = FALSE /\ outbox = <<>> /\ reader = "reading"
  /\ child = "none" /\ term = FALSE /\ stdin = <<>> /\ stdout = <<>>
  /\ idx = 0 /\ open = {} /\ said = 0 /\ torn = FALSE
  /\ heard = [c \in Clients |-> <<>>] /\ spoken = <<>> /\ joined = [c \in Ids |-> 0]

-----------------------------------------------------------------------------
(* The main thread, the thread that spreads the word, and the keeper.      *)

PostStop ==
  /\ main = "up" /\ ~stop
  /\ stop' = TRUE
  /\ UNCHANGED <<main, stateVars, done, keeper, userVars, reader, child, term, stdin, stdout, childVars, history>>

Subscribed == user \in {"waiting", "sending"}

\* The termination calls back whoever has subscribed: here, the tracked call.
Exit ==
  /\ main = "up" /\ stop
  /\ main' = "exiting" /\ term' = (term \/ Subscribed)
  /\ UNCHANGED <<stop, stateVars, done, keeper, userVars, reader, child, stdin, stdout, childVars, history>>

\* All that is tracked is gone: the keeper is.
ExitEnds ==
  /\ main = "exiting" /\ keeper = "over"
  /\ main' = "out"
  /\ UNCHANGED <<stop, stateVars, done, keeper, userVars, reader, child, term, stdin, stdout, childVars, history>>

SetDying ==
  /\ stop /\ ~dying
  /\ dying' = TRUE
  /\ UNCHANGED <<stop, main, conns, toGreet, broadcasts, done, keeper, userVars, reader, child, term, stdin, stdout,
                 childVars, history>>

SetDone ==
  /\ dying /\ ~done
  /\ done' = TRUE
  /\ UNCHANGED <<stop, main, stateVars, keeper, userVars, reader, child, term, stdin, stdout, childVars, history>>

\* A second child is started only if done is not set yet when the first call returns.
CallBegins ==
  /\ keeper = "check" /\ ~done
  /\ keeper' = "calling" /\ child' = "running" /\ user' = "waiting" /\ reader' = "reading"
  /\ term' = (main = "exiting")  \* who subscribes late is called back at once
  /\ idx' = 0 /\ open' = {} /\ stdin' = <<>> /\ stdout' = <<>>
  /\ heard' = [c \in Clients |-> <<>>]
  /\ UNCHANGED <<stop, main, stateVars, done, leaving, outbox, said, torn, spoken, joined>>

\* What the reader has not read by now is dropped.
CallReturns ==
  /\ keeper = "calling" /\ child = "ended" /\ user = "over" /\ reader = "reading"
  /\ keeper' = "check" /\ child' = "none" /\ user' = "no" /\ leaving' = FALSE
  /\ UNCHANGED <<stop, main, stateVars, done, outbox, reader, term, stdin, stdout, childVars, history>>

LoopEnds ==
  /\ keeper = "check" /\ done
  /\ keeper' = "over"
  /\ UNCHANGED <<stop, main, stateVars, done, userVars, reader, child, term, stdin, stdout, childVars, history>>

Keeping == CallBegins \/ CallReturns \/ LoopEnds

-----------------------------------------------------------------------------
(* The user's code.                                                        *)

\* What is to be said of some broadcasts to those of ids.
Spread(bs, ids) == [i \in 1..Len(bs) |-> [to |-> ids \ {bs[i].from}, nr |-> bs[i].nr]]

\* What is to be written after a snapshot of the State.
Work ==
  IF dying THEN <<[to |-> conns, nr |-> Dying]>>
  ELSE (IF toGreet = {} THEN <<>> ELSE <<[to |-> toGreet, nr |-> Hello]>>) \o Spread(broadcasts, conns)

Awake == dying \/ toGreet # {} \/ broadcasts # <<>>

\* A plausible bug: what was to be broadcast is copied and not moved out.
Snapshot_Copied ==
  /\ user = "waiting" /\ Awake
  /\ user' = "sending" /\ leaving' = dying /\ outbox' = Work /\ toGreet' = {}
  /\ UNCHANGED <<stop, main, dying, conns, broadcasts, done, keeper, reader, child, term, stdin, stdout, childVars, history>>

Snapshot ==
  /\ user = "waiting" /\ Awake
  /\ user' = "sending" /\ leaving' = dying /\ outbox' = Work
  /\ toGreet' = {} /\ broadcasts' = <<>>
  /\ UNCHANGED <<stop, main, dying, conns, done, keeper, reader, child, term, stdin, stdout, childVars, history>>

Written == IF child = "running" THEN stdin \o outbox ELSE stdin  \* nobody reads it any more

\* All the writes of a turn are one step: the child reads them one by one.
Write ==
  /\ user = "sending" /\ ~leaving
  /\ stdin' = Written /\ user' = "waiting" /\ outbox' = <<>>
  /\ UNCHANGED <<stop, main, stateVars, done, keeper, leaving, reader, child, term, stdout, childVars, history>>

\* A plausible bug: the user's code leaves the child to the termination, and waits on.
KillAndReturn_Waits ==
  /\ user = "sending" /\ leaving
  /\ stdin' = Written /\ user' = "waiting" /\ outbox' = <<>> /\ term' = TRUE
  /\ UNCHANGED <<stop, main, stateVars, done, keeper, leaving, reader, child, stdout, childVars, history>>

KillAndReturn ==
  /\ user = "sending" /\ leaving
  /\ stdin' = Written /\ user' = "over" /\ outbox' = <<>> /\ term' = TRUE
  /\ UNCHANGED <<stop, main, stateVars, done, keeper, leaving, reader, child, stdout, childVars, history>>

UsersCode == Snapshot \/ Write \/ KillAndReturn

-----------------------------------------------------------------------------
(* The callback for a line of the child's output.                          *)

Line(what) == keeper = "calling" /\ reader = "reading" /\ stdout # <<>> /\ Head(stdout).is = what

Broadcast(from) ==
  /\ broadcasts' = Append(broadcasts, [from |-> from, nr |-> Len(spoken) + 1])
  /\ spoken' = Append(spoken, from)

OnConnect ==
  /\ Line("+")
  /\ LET c == Head(stdout).id
     IN  /\ conns' = conns \cup {c} /\ toGreet' = toGreet \cup {c}
         /\ joined' = [joined EXCEPT ![c] = Len(spoken)]
  /\ stdout' = Tail(stdout)
  /\ UNCHANGED <<stop, main, dying, broadcasts, done, keeper, userVars, reader, child, term, stdin, childVars, heard, spoken>>

\* A plausible bug: a client that is gone is still to be greeted.
OnDisconnect_Greeted ==
  /\ Line("-")
  /\ conns' = conns \ {Head(stdout).id}
  /\ stdout' = Tail(stdout)
  /\ UNCHANGED <<stop, main, dying, toGreet, broadcasts, done, keeper, userVars, reader, child, term, stdin, childVars, history>>

\* A plausible bug: a client that is gone before it was greeted stays.
OnDisconnect_Stays ==
  /\ Line("-")
  /\ LET c == Head(stdout).id
     IN  conns' = IF c \in toGreet THEN conns ELSE conns \ {c}
  /\ stdout' = Tail(stdout)
  /\ UNCHANGED <<stop, main, dying, toGreet, broadcasts, done, keeper, userVars, reader, child, term, stdin, childVars, history>>

OnDisconnect ==
  /\ Line("-")
  /\ conns' = conns \ {Head(stdout).id} /\ toGreet' = toGreet \ {Head(stdout).id}
  /\ stdout' = Tail(stdout)
  /\ UNCHANGED <<stop, main, dying, broadcasts, done, keeper, userVars, reader, child, term, stdin, childVars, history>>

\* One digit is skipped, and the tab: of a longer index, the tab is left, and
\* "stop" after it is not what the code looks for.
IsStop(line) == line.is = "stop" /\ line.id <= OneDigit

OnMessage ==
  /\ (Line("say") \/ Line("stop")) /\ ~IsStop(Head(stdout))
  /\ Broadcast(Head(stdout).id)
  /\ reader' = "replying" /\ stdout' = Tail(stdout)
  /\ UNCHANGED <<stop, main, dying, conns, toGreet, done, keeper, userVars, child, term, stdin, childVars, heard, joined>>

\* The plugin, if it is there and has something, or something more, to say.
Reply ==
  /\ reader = "replying" /\ Len(spoken) < MaxSaid
  /\ Broadcast(0)
  /\ UNCHANGED <<stop, main, dying, conns, toGreet, done, keeper, userVars, reader, child, term, stdin, stdout, childVars, heard, joined>>

NoReply ==
  /\ reader = "replying"
  /\ reader' = "reading"
  /\ UNCHANGED <<stop, main, stateVars, done, keeper, userVars, child, term, stdin, stdout, childVars, history>>

OnStop ==
  /\ Line("stop") /\ IsStop(Head(stdout))
  /\ Broadcast(0)
  /\ reader' = "stopping" /\ stdout' = Tail(stdout)
  /\ UNCHANGED <<stop, main, dying, conns, toGreet, done, keeper, userVars, child, term, stdin, childVars, heard, joined>>

Stopping ==
  /\ reader = "stopping"
  /\ reader' = "reading" /\ stop' = TRUE
  /\ UNCHANGED <<main, stateVars, done, keeper, userVars, child, term, stdin, stdout, childVars, history>>

Reading == OnConnect \/ OnDisconnect \/ OnMessage \/ Reply \/ NoReply \/ OnStop \/ Stopping

-----------------------------------------------------------------------------
(* python_wss.py and its clients.                                          *)

Tell(is, c) == stdout' = Append(stdout, [is |-> is, id |-> c])

Connect ==
  /\ child = "running" /\ idx < MaxClients
  /\ said < MaxSaid /\ said' = said + 1
  /\ idx' = idx + 1 /\ open' = open \cup {idx + 1} /\ Tell("+", idx + 1)
  /\ UNCHANGED <<stop, main, stateVars, done, keeper, userVars, reader, child, term, stdin, torn, history>>

\* A message is printed as it is: what comes after a line feed is another line, which
\* the client chooses.  A carriage return, too, tears a message, but only when it is
\* forwarded, for the child takes it for the end of a line that it reads: it then sends the
\* pieces to whom they name, or ends.  What the clients hear is not kept from here on.
\* Nobody says a NUL, with which Feed would lose what comes after it.
Say(c) ==
  /\ child = "running" /\ c \in open
  /\ \E is \in {"say", "stop"}, breaks \in 0..MaxBreaks : \E rest \in Rests(breaks) :
       /\ stdout' = stdout \o <<[is |-> is, id |-> c]>> \o rest
       /\ said' = said + 1 + breaks /\ said' <= MaxSaid
       /\ torn' = (torn \/ breaks > 0)
       /\ heard' = IF torn' THEN [d \in Clients |-> <<>>] ELSE heard
  /\ UNCHANGED <<stop, main, stateVars, done, keeper, userVars, reader, child, term, stdin, idx, open, spoken, joined>>

Disconnect(c) ==
  /\ child = "running" /\ c \in open
  /\ open' = open \ {c} /\ Tell("-", c)
  /\ UNCHANGED <<stop, main, stateVars, done, keeper, userVars, reader, child, term, stdin, idx, said, torn, history>>

\* The next line, which is dropped if the client that it is for is not there any more,
\* or never was.
Forward(c) ==
  /\ child = "running" /\ stdin # <<>> /\ c \in Head(stdin).to /\ \A d \in Head(stdin).to : c <= d
  /\ stdin' = IF Head(stdin).to = {c} THEN Tail(stdin) ELSE [stdin EXCEPT ![1].to = @ \ {c}]
  /\ heard' = IF c \in open /\ ~torn THEN [heard EXCEPT ![c] = Append(@, Head(stdin).nr)] ELSE heard
  /\ UNCHANGED <<stop, main, stateVars, done, keeper, userVars, reader, child, term, stdout, childVars, spoken, joined>>

\* What is for nobody has no line.
EmptyRound ==
  /\ child = "running" /\ stdin # <<>> /\ Head(stdin).to = {}
  /\ stdin' = Tail(stdin)
  /\ UNCHANGED <<stop, main, stateVars, done, keeper, userVars, reader, child, term, stdout, childVars, history>>

\* By SIGTERM, or by itself: a send that fails ends it too, and so does a piece of a message
\* where the number of a client should be.  What it has not read is lost.
ChildEnds ==
  /\ child = "running"
  /\ child' = "ended" /\ open' = {} /\ stdin' = <<>>
  /\ heard' = [c \in Clients |-> <<>>]
  /\ UNCHANGED <<stop, main, stateVars, done, keeper, userVars, reader, term, stdout, idx, said, torn, spoken, joined>>

Working ==
  \/ Connect \/ EmptyRound
  \/ \E c \in Clients : Say(c) \/ Disconnect(c)
  \/ \E c \in Ids : Forward(c)

-----------------------------------------------------------------------------

\* The program is over; or its child is, which nobody starts again.
Rest == (main = "out" \/ (child = "ended" /\ user = "waiting")) /\ UNCHANGED vars

Next ==
  \/ PostStop \/ Exit \/ ExitEnds \/ SetDying \/ SetDone
  \/ Keeping \/ UsersCode \/ Reading
  \/ Working \/ ChildEnds \/ Rest

Spec == Init /\ [][Next]_vars

\* The program's threads go on, and a child that was sent SIGTERM ends.  Somebody's
\* going on is enough: there is an end to all but the starting of children.
FairSpec ==
  /\ Spec
  /\ WF_vars(SetDone)
  /\ WF_vars(Exit \/ ExitEnds \/ SetDying \/ Keeping \/ UsersCode \/ Reading \/ (term /\ ChildEnds))

-----------------------------------------------------------------------------

\* The clients that the program knows of are those that are connected, but for
\* what is still in the pipe: nobody is kept, or lost, when a client comes and
\* goes faster than it can be greeted.  Only as long as nobody has said anything with a
\* line break: after that the lines "+i" and "-i" need not be the child's.
ConnsFollow ==
  child = "running" /\ ~dying /\ ~torn =>
    \A c \in Clients :
      LET about == {i \in 1..Len(stdout) : stdout[i].id = c /\ stdout[i].is \in {"+", "-"}}
      IN  c \in open <=> \/ about = {} /\ c \in conns
                         \/ \E i \in about : stdout[i].is = "+" /\ \A j \in about : j <= i

\* The messages of some rounds that are for a client, and that their numbers go up.
Nrs(c, rounds) == {rounds[i].nr : i \in {j \in 1..Len(rounds) : c \in rounds[j].to}}
Rising(c, rounds) ==
  \A i, j \in 1..Len(rounds) : i < j /\ c \in rounds[i].to \cap rounds[j].to => rounds[i].nr < rounds[j].nr

\* All that a client was, is and will be sent, as things stand.
HeardBy(c, nrs) == [i \in 1..Len(nrs) |-> [to |-> {c}, nr |-> nrs[i]]]
Way(c) == HeardBy(c, heard[c]) \o stdin \o outbox

\* A client is greeted once and first, and then hears whatever the others and the
\* plugin have said since it came, and perhaps before, in the order in which it
\* was said, without gaps, doubles or its own words.  That, too, holds until somebody says
\* something with a line break, which may be a second greeting.
EveryoneHearsAll ==
  \A c \in open \cap conns : ~dying /\ ~torn =>
    /\ IF c \in toGreet THEN Nrs(c, Way(c)) = {} ELSE Hello \in Nrs(c, Way(c))
    /\ Rising(c, Way(c) \o Spread(broadcasts, Clients))
    /\ \E first \in 0..joined[c] :
         Nrs(c, Way(c) \o Spread(broadcasts, Clients)) \ {Hello} = {n \in (first + 1)..Len(spoken) : spoken[n] # c}

\* Whoever says "stop" is heard, unless the child ends first, as long as the index
\* has one digit; and then the child, the keeper and the program come to an end,
\* even if the child is started a second time while they do.
StopEnds ==
  /\ (stdout # <<>> /\ IsStop(Head(stdout)) /\ child = "running") ~> (stop \/ child # "running")
  /\ stop ~> main = "out"

-----------------------------------------------------------------------------
(* What makes the safety properties inductive.                             *)

\* What the clients have said is broadcast, or will be when its line is read, once; what
\* the plugin adds, it adds only below MaxSaid.
SaidInv ==
  LET ahead == Cardinality({i \in 1..Len(stdout) : stdout[i].is \in {"say", "stop"}})
  IN  ahead <= said /\ Len(spoken) + ahead <= MaxSaid + said

\* There are clients only while a child runs, there is something to write only in the
\* midst of it, and until it is time to die there is one call.
PhaseInv ==
  /\ child = "running" => keeper = "calling"
  /\ open # {} => child = "running"
  /\ user # "sending" => outbox = <<>>
  /\ leaving \/ user = "over" => dying
  /\ keeper # "calling" => user = "no" /\ (dying \/ conns = {})

\* The broadcasts of the State are the newest ones.
NumberInv ==
  /\ Len(broadcasts) <= Len(spoken)
  /\ \A i \in 1..Len(broadcasts) :
       LET n == Len(spoken) - Len(broadcasts) + i
       IN  broadcasts[i].nr = n /\ broadcasts[i].from = spoken[n]

\* Nobody has heard of a client yet.
Fresh(c) == c \notin conns /\ heard[c] = <<>> /\ Nrs(c, stdin \o outbox) = {}

\* Each client comes once, and nothing is sent to it before it is known to have come.
ComingInv ==
  ~torn =>
    /\ \A i \in 1..Len(stdout) :
         /\ stdout[i].id <= idx
         /\ stdout[i].is = "+" => \A j \in 1..Len(stdout) : stdout[j] = stdout[i] => j = i
    /\ ~dying => \A c \in Clients : c > idx \/ (\E i \in 1..Len(stdout) : stdout[i] = [is |-> "+", id |-> c]) => Fresh(c)

WssInv == SaidInv /\ PhaseInv /\ NumberInv /\ ComingInv /\ ConnsFollow /\ EveryoneHearsAll
=============================================================================
