------------------------------ MODULE WssProofs ------------------------------
(***************************************************************************)
(* Proofs about WssServer, for any number of clients, of lines said and for  *)
(* any index that is written in one digit.                                  *)
(***************************************************************************)
EXTENDS WssServer, FiniteSetTheorems, TLAPS

\* The steps, by their actions.
LEMMA NextCases ==
  ASSUME NEW P, PostStop \/ Exit \/ ExitEnds \/ SetDying \/ SetDone => P,
         CallBegins => P, CallReturns \/ LoopEnds => P,
         Snapshot => P, Write => P, KillAndReturn => P,
         OnConnect => P, OnDisconnect => P, OnMessage => P, Reply => P, OnStop => P, NoReply \/ Stopping => P,
         Connect => P, \A c \in Clients : Say(c) => P, \A c \in Clients : Disconnect(c) => P,
         \A c \in Ids : Forward(c) => P, EmptyRound => P, ChildEnds => P, UNCHANGED vars => P,
         [Next]_vars
  PROVE  P
  BY DEF Next, Keeping, UsersCode, Reading, Working, Rest

LEMMA ConstantsTyped ==
  /\ MaxClients \in Nat /\ MaxSaid \in Nat /\ MaxBreaks \in Nat
  /\ Clients \subseteq Nat \ {0} /\ Ids \subseteq Nat /\ Clients \subseteq Ids /\ 0 \in Ids
  /\ Broadcasts \subseteq Nat \ {0}
  BY WssAssumption DEF Clients, Ids, Broadcasts

-----------------------------------------------------------------------------
(* Sequences of rounds and of lines.                                       *)

LEMMA HeadOfRounds ==
  \A s \in Seq(Round) : s # <<>> => /\ Len(s) \in Nat \ {0} /\ Head(s) = s[1] /\ Head(s) \in Round /\ Tail(s) \in Seq(Round)
                                    /\ s = <<Head(s)>> \o Tail(s)
                                    /\ \A x \in Round : [s EXCEPT ![1] = x] \in Seq(Round)
                                                        /\ [s EXCEPT ![1] = x] = <<x>> \o Tail(s)
  <1> SUFFICES ASSUME NEW s \in Seq(Round), s # <<>>
               PROVE  /\ Len(s) \in Nat \ {0} /\ Head(s) = s[1] /\ Head(s) \in Round /\ Tail(s) \in Seq(Round)
                      /\ s = <<Head(s)>> \o Tail(s)
                      /\ \A x \in Round : [s EXCEPT ![1] = x] \in Seq(Round)
                                          /\ [s EXCEPT ![1] = x] = <<x>> \o Tail(s)
    OBVIOUS
  <1>1. Len(s) \in Nat \ {0} /\ Head(s) = s[1] /\ Head(s) \in Round /\ Tail(s) \in Seq(Round)
    OBVIOUS
  <1>2. s = <<Head(s)>> \o Tail(s)
    OBVIOUS
  <1>3. ASSUME NEW x \in Round
        PROVE  [s EXCEPT ![1] = x] \in Seq(Round) /\ [s EXCEPT ![1] = x] = <<x>> \o Tail(s)
    OBVIOUS
  <1> QED
    BY <1>1, <1>2, <1>3

LEMMA HeadOfLines ==
  \A s \in Seq(Lines) : s # <<>> =>
    /\ Len(s) \in Nat \ {0} /\ Head(s) = s[1] /\ Head(s) \in Lines /\ Tail(s) \in Seq(Lines)
    /\ Len(Tail(s)) = Len(s) - 1 /\ \A i \in 1..(Len(s) - 1) : Tail(s)[i] = s[i + 1]
  OBVIOUS

LEMMA AppendToLines ==
  \A s \in Seq(Lines), x \in Lines :
    /\ Append(s, x) \in Seq(Lines) /\ Len(Append(s, x)) = Len(s) + 1 /\ Append(s, x)[Len(s) + 1] = x
    /\ \A i \in 1..Len(s) : Append(s, x)[i] = s[i]
  OBVIOUS

-----------------------------------------------------------------------------
(* Type correctness.                                                       *)

\* A message of the State, and the parts of WssTypeOK.
Message == [from : Ids, nr : Broadcasts]

FlagType ==
  /\ stop \in BOOLEAN /\ dying \in BOOLEAN /\ done \in BOOLEAN /\ leaving \in BOOLEAN /\ term \in BOOLEAN
  /\ (done => dying) /\ (dying => stop)

ControlType ==
  /\ main \in {"up", "exiting", "out"} /\ keeper \in {"check", "calling", "over"}
  /\ user \in {"no", "waiting", "sending", "over"} /\ reader \in {"reading", "replying", "stopping"}
  /\ child \in {"none", "running", "ended"}

ClientType ==
  /\ conns \subseteq Ids /\ toGreet \subseteq conns
  /\ idx \in 0..MaxClients /\ open \subseteq 1..idx /\ said \in 0..MaxSaid /\ torn \in BOOLEAN
  /\ joined \in [Ids -> 0..(2 * MaxSaid)]

PipeType ==
  /\ broadcasts \in Seq(Message) /\ outbox \in Seq(Round)
  /\ stdin \in Seq(Round) /\ stdout \in Seq(Lines)
  /\ heard \in [Clients -> Seq({Hello, Dying} \cup Broadcasts)]
  /\ spoken \in Seq(Ids) /\ Len(spoken) <= 2 * MaxSaid

LEMMA TypeParts == WssTypeOK <=> FlagType /\ ControlType /\ ClientType /\ PipeType
  BY DEF WssTypeOK, FlagType, ControlType, ClientType, PipeType, Message

LEMMA TypePartsNext == WssTypeOK' <=> FlagType' /\ ControlType' /\ ClientType' /\ PipeType'
  BY DEF WssTypeOK, FlagType, ControlType, ClientType, PipeType, Message

\* The places of the lines that are to be broadcast.
Ahead(s) == {i \in 1..Len(s) : s[i].is \in {"say", "stop"}}

LEMMA AheadFinite == \A s \in Seq(Lines) : IsFiniteSet(Ahead(s)) /\ Cardinality(Ahead(s)) \in Nat
  <1> SUFFICES ASSUME NEW s \in Seq(Lines) PROVE IsFiniteSet(Ahead(s)) /\ Cardinality(Ahead(s)) \in Nat
    OBVIOUS
  <1>1. IsFiniteSet(1..Len(s))
    BY FS_Interval
  <1>2. Ahead(s) \in SUBSET (1..Len(s))
    BY DEF Ahead
  <1>3. IsFiniteSet(Ahead(s))
    BY <1>1, <1>2, FS_Subset
  <1> QED
    BY <1>3, FS_CardinalityType

\* A line that is read is one that was ahead, if it is to be broadcast.
LEMMA AheadOfTail ==
  \A s \in Seq(Lines) : s # <<>> =>
    Cardinality(Ahead(Tail(s))) + (IF Head(s).is \in {"say", "stop"} THEN 1 ELSE 0) <= Cardinality(Ahead(s))
  <1> SUFFICES ASSUME NEW s \in Seq(Lines), s # <<>>
               PROVE  Cardinality(Ahead(Tail(s))) + (IF Head(s).is \in {"say", "stop"} THEN 1 ELSE 0) <= Cardinality(Ahead(s))
    OBVIOUS
  <1> DEFINE A == Ahead(s) \ {1}
             f == [i \in Ahead(Tail(s)) |-> i + 1]
  <1>1. /\ Len(s) \in Nat \ {0} /\ Head(s) = s[1] /\ Tail(s) \in Seq(Lines)
        /\ Len(Tail(s)) = Len(s) - 1 /\ \A i \in 1..(Len(s) - 1) : Tail(s)[i] = s[i + 1]
    BY HeadOfLines
  <1>2. \A i \in Ahead(Tail(s)) : i \in 1..(Len(s) - 1) /\ i + 1 \in A
    BY <1>1 DEF Ahead
  <1>3. f \in Injection(Ahead(Tail(s)), A)
    BY <1>2 DEF Injection, IsInjective
  <1>4. IsFiniteSet(A) /\ Cardinality(A) = IF 1 \in Ahead(s) THEN Cardinality(Ahead(s)) - 1 ELSE Cardinality(Ahead(s))
    BY AheadFinite, FS_RemoveElement
  <1>5. Cardinality(Ahead(Tail(s))) <= Cardinality(A)
    BY <1>3, <1>4, FS_Injection
  <1>6. 1 \in Ahead(s) <=> Head(s).is \in {"say", "stop"}
    BY <1>1 DEF Ahead
  <1>7. Cardinality(Ahead(s)) \in Nat /\ Cardinality(Ahead(Tail(s))) \in Nat
    BY <1>1, AheadFinite
  <1> HIDE DEF A, f
  <1> QED
    BY <1>4, <1>5, <1>6, <1>7

LEMMA AheadOfAppend ==
  \A s \in Seq(Lines), x \in Lines :
    Cardinality(Ahead(Append(s, x))) = Cardinality(Ahead(s)) + (IF x.is \in {"say", "stop"} THEN 1 ELSE 0)
  <1> SUFFICES ASSUME NEW s \in Seq(Lines), NEW x \in Lines
               PROVE  Cardinality(Ahead(Append(s, x))) = Cardinality(Ahead(s)) + (IF x.is \in {"say", "stop"} THEN 1 ELSE 0)
    OBVIOUS
  <1>1. /\ Len(Append(s, x)) = Len(s) + 1 /\ Append(s, x)[Len(s) + 1] = x
        /\ \A i \in 1..Len(s) : Append(s, x)[i] = s[i]
    BY AppendToLines
  <1>2. Len(s) \in Nat
    OBVIOUS
  <1>3. Ahead(Append(s, x)) = IF x.is \in {"say", "stop"} THEN Ahead(s) \cup {Len(s) + 1} ELSE Ahead(s)
    BY <1>1, <1>2 DEF Ahead
  <1>4. Len(s) + 1 \notin Ahead(s)
    BY <1>2 DEF Ahead
  <1>5. Cardinality(Ahead(s) \cup {Len(s) + 1}) = Cardinality(Ahead(s)) + 1
    BY <1>4, AheadFinite, FS_AddElement
  <1>6. Cardinality(Ahead(s)) \in Nat
    BY AheadFinite
  <1> QED
    BY <1>3, <1>5, <1>6

\* Of some more lines, each is to be broadcast at most once.
LEMMA AheadOfConcat ==
  \A s, r \in Seq(Lines) :
    s \o r \in Seq(Lines) /\ Cardinality(Ahead(s \o r)) <= Cardinality(Ahead(s)) + Len(r)
  <1> SUFFICES ASSUME NEW s \in Seq(Lines), NEW r \in Seq(Lines)
               PROVE  s \o r \in Seq(Lines) /\ Cardinality(Ahead(s \o r)) <= Cardinality(Ahead(s)) + Len(r)
    OBVIOUS
  <1> DEFINE N == (Len(s) + 1)..(Len(s) + Len(r))
  <1>1. /\ s \o r \in Seq(Lines) /\ Len(s) \in Nat /\ Len(r) \in Nat /\ Len(s \o r) = Len(s) + Len(r)
        /\ \A i \in 1..Len(s) : (s \o r)[i] = s[i]
    OBVIOUS
  <1>2. IsFiniteSet(N) /\ Cardinality(N) = Len(r)
    <2> DEFINE a == Len(s) + 1
               b == Len(s) + Len(r)
    <2>1. a \in Int /\ b \in Int /\ (a > b <=> Len(r) = 0) /\ b - a + 1 = Len(r)
      BY <1>1
    <2> HIDE DEF a, b
    <2>2. IsFiniteSet(a..b) /\ Cardinality(a..b) = IF a > b THEN 0 ELSE b - a + 1
      BY <2>1, FS_Interval
    <2> QED
      BY <2>1, <2>2 DEF a, b
  <1>3. Ahead(s \o r) \subseteq Ahead(s) \cup N
    BY <1>1 DEF Ahead
  <1>4. /\ IsFiniteSet(Ahead(s)) /\ Cardinality(Ahead(s)) \in Nat
        /\ Cardinality(Ahead(s \o r)) \in Nat
    BY <1>1, AheadFinite
  <1>5. Ahead(s) \cap N = {}
    BY <1>1 DEF Ahead
  <1> HIDE DEF N
  <1>6. IsFiniteSet(Ahead(s) \cup N) /\ Cardinality(Ahead(s) \cup N) = Cardinality(Ahead(s)) + Cardinality(N) - Cardinality(Ahead(s) \cap N)
    BY <1>2, <1>4, FS_Union
  <1>7. Cardinality(Ahead(s) \cap N) = 0
    BY <1>5, FS_EmptySet
  <1>8. Cardinality(Ahead(s \o r)) <= Cardinality(Ahead(s) \cup N)
    BY <1>3, <1>6, FS_Subset
  <1> QED
    BY <1>1, <1>2, <1>4, <1>6, <1>7, <1>8

\* What a client says, in all its lines.
LEMMA RestLines == \A n \in Nat : \A rest \in Rests(n) : rest \in Seq(Lines) /\ Len(rest) \in 0..n
  <1> SUFFICES ASSUME NEW n \in Nat, NEW rest \in Rests(n) PROVE rest \in Seq(Lines) /\ Len(rest) \in 0..n
    OBVIOUS
  <1>1. PICK k \in 0..n : rest \in [1..k -> Lines]
    BY DEF Rests
  <1> QED
    BY <1>1

LEMMA SayLines ==
  ASSUME NEW c \in Clients, Say(c), stdout \in Seq(Lines), said \in Nat
  PROVE  \E is \in {"say", "stop"}, breaks \in Nat, rest \in Seq(Lines) :
           /\ [is |-> is, id |-> c] \in Lines
           /\ stdout' = stdout \o <<[is |-> is, id |-> c]>> \o rest
           /\ Len(rest) \in 0..breaks /\ said' = said + 1 + breaks /\ said' <= MaxSaid
           /\ torn' = (torn \/ breaks > 0)
  <1>1. \E is \in {"say", "stop"}, breaks \in 0..MaxBreaks : \E rest \in Rests(breaks) :
               /\ stdout' = stdout \o <<[is |-> is, id |-> c]>> \o rest
               /\ said' = said + 1 + breaks /\ said' <= MaxSaid
               /\ torn' = (torn \/ breaks > 0)
    BY DEF Say
  <1>2. PICK is \in {"say", "stop"} : \E breaks \in 0..MaxBreaks : \E rest \in Rests(breaks) :
               /\ stdout' = stdout \o <<[is |-> is, id |-> c]>> \o rest
               /\ said' = said + 1 + breaks /\ said' <= MaxSaid
               /\ torn' = (torn \/ breaks > 0)
    BY <1>1
  <1>3. PICK breaks \in 0..MaxBreaks : \E rest \in Rests(breaks) :
               /\ stdout' = stdout \o <<[is |-> is, id |-> c]>> \o rest
               /\ said' = said + 1 + breaks /\ said' <= MaxSaid
               /\ torn' = (torn \/ breaks > 0)
    BY <1>2
  <1>4. PICK rest \in Rests(breaks) :
               /\ stdout' = stdout \o <<[is |-> is, id |-> c]>> \o rest
               /\ said' = said + 1 + breaks /\ said' <= MaxSaid
               /\ torn' = (torn \/ breaks > 0)
    BY <1>3
  <1>5. breaks \in Nat
    BY ConstantsTyped
  <1>6. rest \in Seq(Lines) /\ Len(rest) \in 0..breaks
    BY <1>5, RestLines
  <1>7. [is |-> is, id |-> c] \in Lines
    BY ConstantsTyped DEF Lines
  <1> QED
    BY <1>4, <1>5, <1>6, <1>7, Zenon

LEMMA SaidForm == SaidInv <=> Cardinality(Ahead(stdout)) <= said /\ Len(spoken) + Cardinality(Ahead(stdout)) <= MaxSaid + said
  BY DEF SaidInv, Ahead

\* The lists of what is to be written.
LEMMA SpreadType ==
  \A bs \in Seq(Message), ids \in SUBSET Ids :
    Spread(bs, ids) \in Seq(Round) /\ Len(Spread(bs, ids)) = Len(bs)
  <1> SUFFICES ASSUME NEW bs \in Seq(Message), NEW ids \in SUBSET Ids
               PROVE  Spread(bs, ids) \in Seq(Round) /\ Len(Spread(bs, ids)) = Len(bs)
    OBVIOUS
  <1>1. Len(bs) \in Nat /\ \A i \in 1..Len(bs) : bs[i] \in Message
    OBVIOUS
  <1>2. \A i \in 1..Len(bs) : [to |-> ids \ {bs[i].from}, nr |-> bs[i].nr] \in Round
    BY <1>1 DEF Round, Message
  <1>3. Spread(bs, ids) \in [1..Len(bs) -> Round]
    BY <1>2 DEF Spread
  <1> QED
    BY <1>1, <1>3

LEMMA WorkType == WssTypeOK => Work \in Seq(Round)
  <1> SUFFICES ASSUME WssTypeOK PROVE Work \in Seq(Round)
    OBVIOUS
  <1>1. /\ conns \in SUBSET Ids /\ toGreet \in SUBSET Ids
        /\ broadcasts \in Seq(Message)
    BY TypeParts DEF ClientType, PipeType
  <1>2. [to |-> conns, nr |-> Dying] \in Round /\ [to |-> toGreet, nr |-> Hello] \in Round
    BY <1>1 DEF Round
  <1>3. Spread(broadcasts, conns) \in Seq(Round)
    BY <1>1, SpreadType
  <1> DEFINE greetings == IF toGreet = {} THEN <<>> ELSE <<[to |-> toGreet, nr |-> Hello]>>
  <1>4. greetings \in Seq(Round) /\ <<[to |-> conns, nr |-> Dying]>> \in Seq(Round)
    BY <1>2
  <1>5. greetings \o Spread(broadcasts, conns) \in Seq(Round)
    <2> HIDE DEF greetings
    <2> QED
      BY <1>3, <1>4
  <1> QED
    BY <1>4, <1>5 DEF Work

LEMMA TypeInit == Init => WssTypeOK /\ SaidInv
  <1> SUFFICES ASSUME Init PROVE WssTypeOK /\ SaidInv
    OBVIOUS
  <1>1. Ahead(<<>>) = {} /\ Cardinality({}) = 0
    BY FS_EmptySet DEF Ahead
  <1>2. SaidInv
    <2>1. Cardinality(Ahead(stdout)) = 0 /\ Len(spoken) = 0 /\ said = 0
      BY <1>1 DEF Init
    <2> QED
      BY <2>1, ConstantsTyped, SaidForm
  <1>3. WssTypeOK
    <2>1. FlagType /\ ControlType
      BY DEF Init, FlagType, ControlType
    <2>2. ClientType
      BY ConstantsTyped DEF Init, ClientType
    <2>3. PipeType
      BY ConstantsTyped DEF Init, PipeType
    <2> QED
      BY <2>1, <2>2, <2>3, TypeParts
  <1> QED
    BY <1>2, <1>3

\* One broadcast more, with the number that is next, as long as there is room for it.
LEMMA BroadcastType ==
  ASSUME WssTypeOK, Len(spoken) < 2 * MaxSaid, NEW from \in Ids, Broadcast(from)
  PROVE  /\ broadcasts' \in Seq(Message)
         /\ spoken' \in Seq(Ids) /\ Len(spoken') = Len(spoken) + 1
  <1>1. spoken \in Seq(Ids) /\ broadcasts \in Seq(Message)
    BY TypeParts DEF PipeType
  <1>2. Len(spoken) \in Nat /\ Len(spoken) + 1 \in Broadcasts
    BY <1>1, ConstantsTyped DEF Broadcasts
  <1>3. [from |-> from, nr |-> Len(spoken) + 1] \in Message
    BY <1>2 DEF Message
  <1>4. broadcasts' \in Seq(Message)
    BY <1>1, <1>3 DEF Broadcast
  <1> QED
    BY <1>1, <1>4 DEF Broadcast

\* What is read of the child's output.
LEMMA ReadType ==
  ASSUME WssTypeOK, SaidInv, stdout # <<>>, stdout' = Tail(stdout)
  PROVE  /\ Head(stdout) \in Lines /\ Head(stdout).id \in Ids /\ stdout' \in Seq(Lines)
         /\ Cardinality(Ahead(stdout)) \in Nat /\ Cardinality(Ahead(stdout')) \in Nat
         /\ Cardinality(Ahead(stdout')) + (IF Head(stdout).is \in {"say", "stop"} THEN 1 ELSE 0) <= Cardinality(Ahead(stdout))
         /\ Cardinality(Ahead(stdout)) <= said /\ Len(spoken) + Cardinality(Ahead(stdout)) <= MaxSaid + said
  <1>1. stdout \in Seq(Lines)
    BY DEF WssTypeOK
  <1>2. Head(stdout) \in Lines /\ stdout' \in Seq(Lines)
    BY <1>1, HeadOfLines
  <1> QED
    BY <1>1, <1>2, AheadFinite, AheadOfTail, SaidForm DEF Lines

LEMMA TypeStep == WssTypeOK /\ SaidInv /\ [Next]_vars => WssTypeOK' /\ SaidInv'
  <1> SUFFICES ASSUME WssTypeOK, SaidInv, [Next]_vars PROVE WssTypeOK' /\ SaidInv'
    OBVIOUS
  <1> DEFINE ahead == Cardinality(Ahead(stdout))
  <1>a. SaidInv <=> ahead <= said /\ Len(spoken) + ahead <= MaxSaid + said
    BY SaidForm
  <1>b. SaidInv' <=> ahead' <= said' /\ Len(spoken') + ahead' <= MaxSaid + said'
    BY DEF SaidInv, Ahead
  <1>c. /\ ahead \in Nat /\ said \in 0..MaxSaid /\ Len(spoken) \in Nat /\ MaxSaid \in Nat
        /\ Len(spoken) \in 0..(2 * MaxSaid)
    BY AheadFinite, ConstantsTyped DEF WssTypeOK
  <1>d. FlagType /\ ControlType /\ ClientType /\ PipeType
    BY TypeParts
  <1>1. CASE PostStop \/ Exit \/ ExitEnds \/ SetDying \/ SetDone
    <2>1. UNCHANGED <<stdout, said, spoken>>
      BY <1>1 DEF PostStop, Exit, ExitEnds, SetDying, SetDone, childVars, history
    <2>2. WssTypeOK'
      <3>1. FlagType'
        <4>1. CASE PostStop
          BY <4>1, <1>d DEF PostStop, stateVars, userVars, childVars, history, FlagType
        <4>2. CASE Exit
          BY <4>2, <1>d DEF Exit, stateVars, userVars, childVars, history, FlagType
        <4>3. CASE ExitEnds
          BY <4>3, <1>d DEF ExitEnds, stateVars, userVars, childVars, history, FlagType
        <4>4. CASE SetDying
          BY <4>4, <1>d DEF SetDying, stateVars, userVars, childVars, history, FlagType
        <4>5. CASE SetDone
          BY <4>5, <1>d DEF SetDone, stateVars, userVars, childVars, history, FlagType
        <4> QED
          BY <1>1, <4>1, <4>2, <4>3, <4>4, <4>5
      <3>2. ControlType'
        BY <1>1, <1>d DEF PostStop, Exit, ExitEnds, SetDying, SetDone, stateVars, userVars, childVars, history, ControlType
      <3>3. ClientType'
        BY <1>1, <1>d DEF PostStop, Exit, ExitEnds, SetDying, SetDone, stateVars, userVars, childVars, history, ClientType
      <3>4. PipeType'
        BY <1>1, <1>d DEF PostStop, Exit, ExitEnds, SetDying, SetDone, stateVars, userVars, childVars, history, PipeType
      <3> QED
        BY <3>1, <3>2, <3>3, <3>4, TypePartsNext
    <2> QED
      BY <2>1, <2>2, <1>a, <1>b
  <1>2. CASE CallBegins
    <2>1. stdout' = <<>> /\ UNCHANGED <<said, spoken>>
      BY <1>2 DEF CallBegins
    <2>2. ahead' = 0
      BY <2>1, FS_EmptySet DEF Ahead
    <2>3. WssTypeOK'
      <3>1. FlagType'
        BY <1>2, ConstantsTyped, <1>d, ZenonT(30) DEF CallBegins, stateVars, Clients, FlagType
      <3>2. ControlType'
        BY <1>2, ConstantsTyped, <1>d DEF CallBegins, stateVars, Clients, ControlType
      <3>3. ClientType'
        BY <1>2, ConstantsTyped, <1>d DEF CallBegins, stateVars, Clients, ClientType
      <3>4. PipeType'
        BY <1>2, ConstantsTyped, <1>d DEF CallBegins, stateVars, Clients, PipeType
      <3> QED
        BY <3>1, <3>2, <3>3, <3>4, TypePartsNext
    <2> QED
      BY <2>1, <2>2, <2>3, <1>a, <1>b, <1>c
  <1>3. CASE CallReturns \/ LoopEnds
    <2>1. UNCHANGED <<stdout, said, spoken>>
      BY <1>3 DEF CallReturns, LoopEnds, childVars, history
    <2>2. WssTypeOK'
      <3>1. FlagType'
        <4>1. CASE CallReturns
          BY <4>1, <1>d DEF CallReturns, stateVars, userVars, childVars, history, FlagType
        <4>2. CASE LoopEnds
          BY <4>2, <1>d DEF LoopEnds, stateVars, userVars, childVars, history, FlagType
        <4> QED
          BY <1>3, <4>1, <4>2
      <3>2. ControlType'
        BY <1>3, <1>d DEF CallReturns, LoopEnds, stateVars, userVars, childVars, history, ControlType
      <3>3. ClientType'
        BY <1>3, <1>d DEF CallReturns, LoopEnds, stateVars, userVars, childVars, history, ClientType
      <3>4. PipeType'
        BY <1>3, <1>d DEF CallReturns, LoopEnds, stateVars, userVars, childVars, history, PipeType
      <3> QED
        BY <3>1, <3>2, <3>3, <3>4, TypePartsNext
    <2> QED
      BY <2>1, <2>2, <1>a, <1>b
  <1>4. CASE Snapshot
    <2>1. UNCHANGED <<stdout, said, spoken>>
      BY <1>4 DEF Snapshot, childVars, history
    <2>2. outbox' \in Seq(Round)
      BY <1>4, WorkType DEF Snapshot
    <2>3. broadcasts' \in Seq(Message)
      BY <1>4 DEF Snapshot
    <2>4. WssTypeOK'
      <3>1. FlagType'
        BY <1>4, <2>2, <2>3, <1>d, ZenonT(30) DEF Snapshot, childVars, history, FlagType
      <3>2. ControlType'
        BY <1>4, <2>2, <2>3, <1>d DEF Snapshot, childVars, history, ControlType
      <3>3. ClientType'
        BY <1>4, <2>2, <2>3, <1>d DEF Snapshot, childVars, history, ClientType
      <3>4. PipeType'
        BY <1>4, <2>2, <2>3, <1>d DEF Snapshot, childVars, history, PipeType
      <3> QED
        BY <3>1, <3>2, <3>3, <3>4, TypePartsNext
    <2> QED
      BY <2>1, <2>4, <1>a, <1>b
  <1>5. CASE Write \/ KillAndReturn
    <2>1. UNCHANGED <<stdout, said, spoken>>
      BY <1>5 DEF Write, KillAndReturn, childVars, history
    <2>2. stdin' \in Seq(Round) /\ outbox' \in Seq(Round)
      <3>1. stdin' = Written /\ outbox' = <<>>
        BY <1>5 DEF Write, KillAndReturn
      <3>2. Written \in Seq(Round)
        BY <1>d DEF Written, PipeType
      <3> QED
        BY <3>1, <3>2
    <2>3. WssTypeOK'
      <3>1. FlagType'
        <4>1. CASE Write
          BY <4>1, <1>d DEF Write, stateVars, childVars, history, FlagType
        <4>2. CASE KillAndReturn
          BY <4>2, <1>d DEF KillAndReturn, stateVars, childVars, history, FlagType
        <4> QED
          BY <1>5, <4>1, <4>2
      <3>2. ControlType'
        BY <1>5, <2>2, <1>d DEF Write, KillAndReturn, stateVars, childVars, history, ControlType
      <3>3. ClientType'
        BY <1>5, <2>2, <1>d DEF Write, KillAndReturn, stateVars, childVars, history, ClientType
      <3>4. PipeType'
        BY <1>5, <2>2, <1>d DEF Write, KillAndReturn, stateVars, childVars, history, PipeType
      <3> QED
        BY <3>1, <3>2, <3>3, <3>4, TypePartsNext
    <2> QED
      BY <2>1, <2>3, <1>a, <1>b
  <1>6. CASE OnConnect \/ OnDisconnect
    <2>1. stdout # <<>> /\ stdout' = Tail(stdout) /\ UNCHANGED <<said, spoken>>
      BY <1>6 DEF OnConnect, OnDisconnect, Line, childVars, history
    <2>2. /\ Head(stdout).id \in Ids /\ stdout' \in Seq(Lines) /\ ahead' \in Nat /\ ahead' <= ahead
      BY <2>1, <1>c, ReadType
    <2>3. joined' \in [Ids -> 0..(2 * MaxSaid)]
      <3>1. joined \in [Ids -> 0..(2 * MaxSaid)]
        BY <1>d DEF ClientType
      <3>2. joined' = joined \/ joined' = [joined EXCEPT ![Head(stdout).id] = Len(spoken)]
        BY <1>6 DEF OnConnect, OnDisconnect, history
      <3> QED
        BY <3>1, <3>2, <2>2, <1>c
    <2>4. conns' \subseteq Ids /\ toGreet' \subseteq conns'
      BY <1>6, <2>2, <1>d DEF OnConnect, OnDisconnect, ClientType
    <2>5. WssTypeOK'
      <3>1. FlagType'
        <4>1. CASE OnConnect
          BY <4>1, <1>d DEF OnConnect, userVars, childVars, history, FlagType
        <4>2. CASE OnDisconnect
          BY <4>2, <1>d DEF OnDisconnect, userVars, childVars, history, FlagType
        <4> QED
          BY <1>6, <4>1, <4>2
      <3>2. ControlType'
        BY <1>6, <2>1, <2>2, <2>3, <2>4, <1>d DEF OnConnect, OnDisconnect, userVars, childVars, history, ControlType
      <3>3. ClientType'
        BY <1>6, <2>1, <2>2, <2>3, <2>4, <1>d DEF OnConnect, OnDisconnect, userVars, childVars, history, ClientType
      <3>4. PipeType'
        BY <1>6, <2>1, <2>2, <2>3, <2>4, <1>d DEF OnConnect, OnDisconnect, userVars, childVars, history, PipeType
      <3> QED
        BY <3>1, <3>2, <3>3, <3>4, TypePartsNext
    <2> QED
      BY <2>1, <2>2, <2>5, <1>a, <1>b, <1>c
  <1>7. CASE OnMessage \/ OnStop
    <2>1. PICK from \in {0, Head(stdout).id} : Broadcast(from)
      BY <1>7 DEF OnMessage, OnStop
    <2>2. stdout # <<>> /\ stdout' = Tail(stdout) /\ UNCHANGED said /\ Head(stdout).is \in {"say", "stop"}
      BY <1>7 DEF OnMessage, OnStop, Line, childVars
    <2>3. Head(stdout).id \in Ids /\ stdout' \in Seq(Lines) /\ ahead' \in Nat /\ ahead' + 1 <= ahead
      BY <2>2, ReadType
    <2>4. Len(spoken) < 2 * MaxSaid
      BY <2>3, <1>a, <1>c
    <2>5. /\ broadcasts' \in Seq(Message)
          /\ spoken' \in Seq(Ids) /\ Len(spoken') = Len(spoken) + 1
      BY <2>1, <2>3, <2>4, ConstantsTyped, BroadcastType
    <2>6. WssTypeOK'
      <3>1. Len(spoken') <= 2 * MaxSaid
        BY <2>4, <2>5, <1>c
      <3>2. FlagType'
        <4>1. CASE OnMessage
          BY <4>1, <1>d DEF OnMessage, userVars, childVars, FlagType
        <4>2. CASE OnStop
          BY <4>2, <1>d DEF OnStop, userVars, childVars, FlagType
        <4> QED
          BY <1>7, <4>1, <4>2
      <3>3. ControlType'
        BY <1>7, <2>3, <2>5, <3>1, <1>d DEF OnMessage, OnStop, userVars, childVars, ControlType
      <3>4. ClientType'
        BY <1>7, <2>3, <2>5, <3>1, <1>d DEF OnMessage, OnStop, userVars, childVars, ClientType
      <3>5. PipeType'
        BY <1>7, <2>3, <2>5, <3>1, <1>d DEF OnMessage, OnStop, userVars, childVars, PipeType
      <3> QED
        BY <3>2, <3>3, <3>4, <3>5, TypePartsNext
    <2> QED
      BY <2>2, <2>3, <2>5, <2>6, <1>a, <1>b, <1>c
  <1>8. CASE Reply
    <2>1. Broadcast(0) /\ Len(spoken) < MaxSaid /\ UNCHANGED <<stdout, said>>
      BY <1>8 DEF Reply, childVars
    <2>2. Len(spoken) < 2 * MaxSaid
      BY <2>1, <1>c
    <2>3. /\ broadcasts' \in Seq(Message)
          /\ spoken' \in Seq(Ids) /\ Len(spoken') = Len(spoken) + 1
      BY <2>1, <2>2, ConstantsTyped, BroadcastType
    <2>4. WssTypeOK'
      <3>1. Len(spoken') <= 2 * MaxSaid
        BY <2>2, <2>3, <1>c
      <3>2. FlagType'
        BY <1>8, <2>3, <3>1, <1>d, ZenonT(30) DEF Reply, userVars, childVars, FlagType
      <3>3. ControlType'
        BY <1>8, <2>3, <3>1, <1>d DEF Reply, userVars, childVars, ControlType
      <3>4. ClientType'
        BY <1>8, <2>3, <3>1, <1>d DEF Reply, userVars, childVars, ClientType
      <3>5. PipeType'
        BY <1>8, <2>3, <3>1, <1>d DEF Reply, userVars, childVars, PipeType
      <3> QED
        BY <3>2, <3>3, <3>4, <3>5, TypePartsNext
    <2> QED
      BY <2>1, <2>3, <2>4, <1>a, <1>b, <1>c
  <1>9. CASE NoReply \/ Stopping
    <2>1. UNCHANGED <<stdout, said, spoken>>
      BY <1>9 DEF NoReply, Stopping, childVars, history
    <2>2. WssTypeOK'
      <3>1. FlagType'
        <4>1. CASE NoReply
          BY <4>1, <1>d DEF NoReply, stateVars, userVars, childVars, history, FlagType
        <4>2. CASE Stopping
          BY <4>2, <1>d DEF Stopping, stateVars, userVars, childVars, history, FlagType
        <4> QED
          BY <1>9, <4>1, <4>2
      <3>2. ControlType'
        BY <1>9, <1>d DEF NoReply, Stopping, stateVars, userVars, childVars, history, ControlType
      <3>3. ClientType'
        BY <1>9, <1>d DEF NoReply, Stopping, stateVars, userVars, childVars, history, ClientType
      <3>4. PipeType'
        BY <1>9, <1>d DEF NoReply, Stopping, stateVars, userVars, childVars, history, PipeType
      <3> QED
        BY <3>1, <3>2, <3>3, <3>4, TypePartsNext
    <2> QED
      BY <2>1, <2>2, <1>a, <1>b
  <1>10. CASE Connect
    <2>1. /\ said < MaxSaid /\ said' = said + 1 /\ UNCHANGED spoken /\ idx \in 0..MaxClients /\ idx < MaxClients
          /\ stdout' = Append(stdout, [is |-> "+", id |-> idx + 1])
      BY <1>10 DEF Connect, Tell, history, WssTypeOK
    <2>2. [is |-> "+", id |-> idx + 1] \in Lines /\ [is |-> "+", id |-> idx + 1].is = "+"
      BY <2>1, ConstantsTyped DEF Lines, Ids, Clients
    <2>3. stdout' \in Seq(Lines) /\ ahead' = ahead
      <3> DEFINE x == [is |-> "+", id |-> idx + 1]
      <3>1. stdout' \in Seq(Lines) /\ ahead' = ahead + (IF x.is \in {"say", "stop"} THEN 1 ELSE 0)
        BY <2>1, <2>2, AppendToLines, AheadOfAppend DEF WssTypeOK
      <3> QED
        BY <3>1, <1>c
    <2>4. idx' \in 0..MaxClients /\ open' \subseteq 1..idx' /\ said' \in 0..MaxSaid
      BY <1>10, <2>1, <1>c, ConstantsTyped DEF Connect, WssTypeOK
    <2>5. WssTypeOK'
      <3>1. FlagType'
        BY <1>10, <2>3, <2>4, <1>d, ZenonT(30) DEF Connect, stateVars, userVars, history, FlagType
      <3>2. ControlType'
        BY <1>10, <2>3, <2>4, <1>d DEF Connect, stateVars, userVars, history, ControlType
      <3>3. ClientType'
        BY <1>10, <2>3, <2>4, <1>d DEF Connect, stateVars, userVars, history, ClientType
      <3>4. PipeType'
        BY <1>10, <2>3, <2>4, <1>d DEF Connect, stateVars, userVars, history, PipeType
      <3> QED
        BY <3>1, <3>2, <3>3, <3>4, TypePartsNext
    <2> QED
      BY <2>1, <2>3, <2>5, <1>a, <1>b, <1>c
  <1>11. ASSUME NEW c \in Clients, Say(c) PROVE WssTypeOK' /\ SaidInv'
    <2>1. stdout \in Seq(Lines) /\ said \in Nat
      BY <1>c DEF WssTypeOK
    <2>2. PICK is \in {"say", "stop"}, breaks \in Nat, rest \in Seq(Lines) :
                 /\ [is |-> is, id |-> c] \in Lines
                 /\ stdout' = stdout \o <<[is |-> is, id |-> c]>> \o rest
                 /\ Len(rest) \in 0..breaks /\ said' = said + 1 + breaks /\ said' <= MaxSaid
                 /\ torn' = (torn \/ breaks > 0)
      BY <1>11, <2>1, SayLines
    <2>3. UNCHANGED spoken /\ torn' \in BOOLEAN
      BY <1>11, <2>2 DEF Say
    <2>4. stdout' \in Seq(Lines) /\ ahead' \in Nat /\ ahead' <= ahead + 1 + Len(rest)
      <3> DEFINE x == [is |-> is, id |-> c]
                 first == stdout \o <<x>>
      <3>1. <<x>> \in Seq(Lines) /\ Len(<<x>>) = 1
        BY <2>2
      <3>2. first \in Seq(Lines) /\ Cardinality(Ahead(first)) <= ahead + 1
        BY <2>1, <3>1, AheadOfConcat
      <3>3. stdout' \in Seq(Lines) /\ ahead' <= Cardinality(Ahead(first)) + Len(rest)
        BY <2>2, <3>2, AheadOfConcat
      <3>4. Cardinality(Ahead(first)) \in Nat /\ ahead' \in Nat
        BY <3>2, <3>3, AheadFinite
      <3> HIDE DEF first, x
      <3> QED
        BY <2>2, <3>2, <3>3, <3>4, <1>c
    <2>5. WssTypeOK'
      <3>1. said' \in 0..MaxSaid /\ heard' \in [Clients -> Seq({Hello, Dying} \cup Broadcasts)]
        BY <1>11, <2>2, <1>c, <1>d DEF Say, PipeType
      <3>2. FlagType'
        BY <1>11, <2>3, <2>4, <3>1, <1>d, ZenonT(30) DEF Say, stateVars, userVars, FlagType
      <3>3. ControlType'
        BY <1>11, <2>3, <2>4, <3>1, <1>d DEF Say, stateVars, userVars, ControlType
      <3>4. ClientType'
        BY <1>11, <2>3, <2>4, <3>1, <1>d DEF Say, stateVars, userVars, ClientType
      <3>5. PipeType'
        BY <1>11, <2>3, <2>4, <3>1, <1>d DEF Say, stateVars, userVars, PipeType
      <3> QED
        BY <3>2, <3>3, <3>4, <3>5, TypePartsNext
    <2> QED
      BY <2>2, <2>3, <2>4, <2>5, <1>a, <1>b, <1>c
  <1>12. ASSUME NEW c \in Clients, Disconnect(c) PROVE WssTypeOK' /\ SaidInv'
    <2>1. stdout' = Append(stdout, [is |-> "-", id |-> c]) /\ UNCHANGED <<said, spoken>>
      BY <1>12 DEF Disconnect, Tell, history
    <2>2. [is |-> "-", id |-> c] \in Lines
      BY ConstantsTyped DEF Lines
    <2>3. stdout' \in Seq(Lines) /\ ahead' = ahead
      <3> DEFINE x == [is |-> "-", id |-> c]
      <3>1. stdout' \in Seq(Lines) /\ ahead' = ahead + (IF x.is \in {"say", "stop"} THEN 1 ELSE 0)
        BY <2>1, <2>2, AppendToLines, AheadOfAppend DEF WssTypeOK
      <3> QED
        BY <3>1, <1>c
    <2>4. WssTypeOK'
      <3>1. FlagType'
        BY <1>12, <2>3, <1>d, ZenonT(30) DEF Disconnect, stateVars, userVars, history, FlagType
      <3>2. ControlType'
        BY <1>12, <2>3, <1>d DEF Disconnect, stateVars, userVars, history, ControlType
      <3>3. ClientType'
        BY <1>12, <2>3, <1>d DEF Disconnect, stateVars, userVars, history, ClientType
      <3>4. PipeType'
        BY <1>12, <2>3, <1>d DEF Disconnect, stateVars, userVars, history, PipeType
      <3> QED
        BY <3>1, <3>2, <3>3, <3>4, TypePartsNext
    <2> QED
      BY <2>1, <2>3, <2>4, <1>a, <1>b
  <1>13. ASSUME NEW c \in Ids, Forward(c) PROVE WssTypeOK' /\ SaidInv'
    <2>1. UNCHANGED <<stdout, said, spoken>>
      BY <1>13 DEF Forward, childVars
    <2>2. stdin # <<>> /\ stdin \in Seq(Round)
      BY <1>13 DEF Forward, WssTypeOK
    <2>3. Head(stdin) \in Round /\ Head(stdin) = stdin[1] /\ Tail(stdin) \in Seq(Round)
      BY <2>2, HeadOfRounds
    <2>4. [stdin[1] EXCEPT !.to = @ \ {c}] \in Round /\ Head(stdin).nr \in {Hello, Dying} \cup Broadcasts
      BY <2>3 DEF Round
    <2>5. stdin' \in Seq(Round)
      <3>1. [stdin EXCEPT ![1].to = @ \ {c}] = [stdin EXCEPT ![1] = [stdin[1] EXCEPT !.to = @ \ {c}]]
        OBVIOUS
      <3>2. [stdin EXCEPT ![1] = [stdin[1] EXCEPT !.to = @ \ {c}]] \in Seq(Round)
        BY <2>2, <2>4, HeadOfRounds
      <3> QED
        BY <1>13, <2>3, <3>1, <3>2 DEF Forward
    <2>6. heard' \in [Clients -> Seq({Hello, Dying} \cup Broadcasts)]
      <3>1. heard \in [Clients -> Seq({Hello, Dying} \cup Broadcasts)] /\ open \subseteq Clients
        <4>1. heard \in [Clients -> Seq({Hello, Dying} \cup Broadcasts)]
          BY <1>d DEF PipeType
        <4>2. idx \in 0..MaxClients /\ open \subseteq 1..idx
          BY <1>d DEF ClientType
        <4>3. open \subseteq Clients
          BY <4>2, ConstantsTyped DEF Clients
        <4> QED
          BY <4>1, <4>3
      <3>2. CASE c \in open /\ ~torn
        <4>1. Append(heard[c], Head(stdin).nr) \in Seq({Hello, Dying} \cup Broadcasts)
          BY <2>4, <3>1, <3>2
        <4>2. heard' = [heard EXCEPT ![c] = Append(heard[c], Head(stdin).nr)] /\ c \in Clients
          BY <1>13, <3>1, <3>2 DEF Forward
        <4> QED
          BY <3>1, <4>1, <4>2
      <3>3. CASE ~(c \in open /\ ~torn)
        BY <1>13, <3>1, <3>3 DEF Forward
      <3> QED
        BY <3>2, <3>3
    <2>7. WssTypeOK'
      <3>1. FlagType'
        BY <1>13, <2>5, <2>6, <1>d, ZenonT(30) DEF Forward, stateVars, userVars, childVars, FlagType
      <3>2. ControlType'
        BY <1>13, <2>5, <2>6, <1>d DEF Forward, stateVars, userVars, childVars, ControlType
      <3>3. ClientType'
        BY <1>13, <2>5, <2>6, <1>d DEF Forward, stateVars, userVars, childVars, ClientType
      <3>4. PipeType'
        BY <1>13, <2>5, <2>6, <1>d DEF Forward, stateVars, userVars, childVars, PipeType
      <3> QED
        BY <3>1, <3>2, <3>3, <3>4, TypePartsNext
    <2> QED
      BY <2>1, <2>7, <1>a, <1>b
  <1>14. CASE EmptyRound
    <2>1. UNCHANGED <<stdout, said, spoken>>
      BY <1>14 DEF EmptyRound, childVars, history
    <2>2. stdin' \in Seq(Round)
      BY <1>14 DEF EmptyRound, WssTypeOK
    <2>3. WssTypeOK'
      <3>1. FlagType'
        BY <1>14, <2>2, <1>d, ZenonT(30) DEF EmptyRound, stateVars, userVars, childVars, history, FlagType
      <3>2. ControlType'
        BY <1>14, <2>2, <1>d DEF EmptyRound, stateVars, userVars, childVars, history, ControlType
      <3>3. ClientType'
        BY <1>14, <2>2, <1>d DEF EmptyRound, stateVars, userVars, childVars, history, ClientType
      <3>4. PipeType'
        BY <1>14, <2>2, <1>d DEF EmptyRound, stateVars, userVars, childVars, history, PipeType
      <3> QED
        BY <3>1, <3>2, <3>3, <3>4, TypePartsNext
    <2> QED
      BY <2>1, <2>3, <1>a, <1>b
  <1>15. CASE ChildEnds
    <2>1. UNCHANGED <<stdout, said, spoken>>
      BY <1>15 DEF ChildEnds
    <2>2. WssTypeOK'
      <3>1. FlagType'
        BY <1>15, <1>d, ZenonT(30) DEF ChildEnds, stateVars, userVars, FlagType
      <3>2. ControlType'
        BY <1>15, <1>d DEF ChildEnds, stateVars, userVars, ControlType
      <3>3. ClientType'
        BY <1>15, <1>d DEF ChildEnds, stateVars, userVars, ClientType
      <3>4. PipeType'
        BY <1>15, <1>d DEF ChildEnds, stateVars, userVars, PipeType
      <3> QED
        BY <3>1, <3>2, <3>3, <3>4, TypePartsNext
    <2> QED
      BY <2>1, <2>2, <1>a, <1>b
  <1>16. CASE UNCHANGED vars
    BY <1>16 DEF vars, WssTypeOK, SaidInv, stateVars, userVars, childVars, history
  <1> QED
    BY <1>1, <1>2, <1>3, <1>4, <1>5, <1>6, <1>7, <1>8, <1>9, <1>10, <1>11, <1>12, <1>13, <1>14, <1>15, <1>16, NextCases

\* The variables of the demo stay in their sets: the messages in the State, to be
\* written and in the pipes are whole and have a number that some broadcast can
\* have (wss.cc numbers none: they stand for their order), those to be greeted are
\* connected, and the thread sets its flag only when it is time to die.
THEOREM WssTypeInvariant == Spec => []WssTypeOK
  <1>1. WssTypeOK /\ SaidInv /\ [Next]_vars => (WssTypeOK /\ SaidInv)'
    BY TypeStep
  <1> QED
    BY TypeInit, <1>1, PTL DEF Spec

-----------------------------------------------------------------------------
(* The program knows who is connected.                                     *)

LEMMA PhaseStep == ControlType /\ ClientType /\ PhaseInv /\ [Next]_vars => PhaseInv'
  <1> SUFFICES ASSUME ControlType, ClientType, PhaseInv, [Next]_vars PROVE PhaseInv'
    OBVIOUS
  <1> USE DEF PhaseInv
  <1>1. CASE PostStop \/ Exit \/ ExitEnds \/ SetDying \/ SetDone
    BY <1>1 DEF PostStop, Exit, ExitEnds, SetDying, SetDone, stateVars, userVars, childVars
  <1>2. CASE CallBegins
    BY <1>2 DEF CallBegins, stateVars
  <1>3. CASE CallReturns \/ LoopEnds
    BY <1>3 DEF CallReturns, LoopEnds, stateVars, userVars, childVars
  <1>4. CASE Snapshot
    BY <1>4 DEF Snapshot, childVars
  <1>5. CASE Write \/ KillAndReturn
    BY <1>5 DEF Write, KillAndReturn, stateVars, childVars
  <1>6. CASE OnConnect
    BY <1>6 DEF OnConnect, Line, userVars, childVars
  <1>7. CASE OnDisconnect
    BY <1>7 DEF OnDisconnect, Line, userVars, childVars
  <1>8. CASE OnMessage \/ Reply \/ OnStop
    BY <1>8 DEF OnMessage, Reply, OnStop, userVars, childVars
  <1>9. CASE NoReply \/ Stopping
    BY <1>9 DEF NoReply, Stopping, stateVars, userVars, childVars
  <1>10. CASE Connect
    BY <1>10 DEF Connect, stateVars, userVars
  <1>11. ASSUME NEW c \in Clients, Say(c) PROVE PhaseInv'
    BY <1>11 DEF Say, stateVars, userVars
  <1>12. ASSUME NEW c \in Clients, Disconnect(c) PROVE PhaseInv'
    BY <1>12 DEF Disconnect, stateVars, userVars
  <1>13. ASSUME NEW c \in Ids, Forward(c) PROVE PhaseInv'
    BY <1>13 DEF Forward, stateVars, userVars, childVars
  <1>14. CASE EmptyRound
    BY <1>14 DEF EmptyRound, stateVars, userVars, childVars
  <1>15. CASE ChildEnds
    BY <1>15 DEF ChildEnds, stateVars, userVars
  <1>16. CASE UNCHANGED vars
    BY <1>16 DEF vars, stateVars, userVars, childVars
  <1> QED
    BY <1>1, <1>2, <1>3, <1>4, <1>5, <1>6, <1>7, <1>8, <1>9, <1>10, <1>11, <1>12, <1>13, <1>14, <1>15, <1>16, NextCases

\* What ConnsFollow says of one client, of the lines in the pipe and of who is known.
Abouts(s, c) == {i \in 1..Len(s) : s[i].id = c /\ s[i].is \in {"+", "-"}}
Follows(s, c, known, there) ==
  c \in there <=> \/ Abouts(s, c) = {} /\ c \in known
                  \/ \E i \in Abouts(s, c) : s[i].is = "+" /\ \A j \in Abouts(s, c) : j <= i

LEMMA ConnsFollowForm ==
  ConnsFollow <=> (child = "running" /\ ~dying /\ ~torn => \A c \in Clients : Follows(stdout, c, conns, open))
  BY DEF ConnsFollow, Follows, Abouts

LEMMA ConnsFollowNext ==
  ConnsFollow' <=> (child' = "running" /\ ~dying' /\ ~torn' => \A c \in Clients : Follows(stdout', c, conns', open'))
  BY DEF ConnsFollow, Follows, Abouts

\* A line that is read tells of what it is about, and changes nothing for the others.
LEMMA FollowsTail ==
  ASSUME NEW s \in Seq(Lines), s # <<>>, NEW c \in Clients,
         NEW known, NEW next, NEW there, Follows(s, c, known, there),
         c \in next <=> \/ Head(s).id = c /\ Head(s).is = "+"
                        \/ c \in known /\ ~(Head(s).id = c /\ Head(s).is = "-")
  PROVE  Follows(Tail(s), c, next, there)
  <1> DEFINE A == Abouts(s, c)
             T == Abouts(Tail(s), c)
             Last(q, i) == q[i].is = "+" /\ \A j \in Abouts(q, c) : j <= i
  <1>1. /\ Len(s) \in Nat \ {0} /\ Head(s) = s[1]
        /\ Len(Tail(s)) = Len(s) - 1 /\ \A i \in 1..(Len(s) - 1) : Tail(s)[i] = s[i + 1]
    BY HeadOfLines
  <1>2. A \subseteq 1..Len(s) /\ T \subseteq 1..(Len(s) - 1)
    BY <1>1 DEF Abouts
  <1>3. \A i \in 1..(Len(s) - 1) : i \in T <=> i + 1 \in A
    BY <1>1 DEF Abouts
  <1>4. 1 \in A <=> Head(s).id = c /\ Head(s).is \in {"+", "-"}
    BY <1>1 DEF Abouts
  <1>5. \A i \in 2..Len(s) : i - 1 \in 1..(Len(s) - 1) /\ (i - 1) + 1 = i
    BY <1>1
  <1>6. \A i \in A : i # 1 => i - 1 \in T
    BY <1>1, <1>2, <1>3, <1>5
  <1>7. ASSUME NEW i \in T, Last(Tail(s), i) PROVE \E k \in A : Last(s, k)
    <2>1. i + 1 \in A /\ s[i + 1].is = "+"
      BY <1>1, <1>2, <1>3, <1>7
    <2>2. ASSUME NEW j \in A PROVE j <= i + 1
      <3>1. CASE j = 1
        BY <3>1, <1>1, <1>2
      <3>2. CASE j # 1
        <4>1. j - 1 \in T
          BY <3>2, <1>6
        <4>2. j - 1 <= i
          BY <4>1, <1>7
        <4> QED
          BY <4>2, <1>1, <1>2
      <3> QED
        BY <3>1, <3>2
    <2> QED
      BY <2>1, <2>2
  <1>8. ASSUME NEW k \in A, Last(s, k), T # {} PROVE \E i \in T : Last(Tail(s), i)
    <2>1. PICK m \in T : TRUE
      BY <1>8
    <2>2. m + 1 \in A /\ m + 1 <= k
      BY <2>1, <1>2, <1>3, <1>8
    <2>3. k - 1 \in 1..(Len(s) - 1) /\ (k - 1) + 1 = k
      BY <2>2, <1>1, <1>2
    <2>4. k - 1 \in T /\ Tail(s)[k - 1].is = "+"
      BY <2>3, <1>1, <1>3, <1>8
    <2>5. \A j \in T : j <= k - 1
      BY <2>3, <1>1, <1>2, <1>3, <1>8
    <2> QED
      BY <2>4, <2>5
  <1>9. CASE T = {}
    <2>1. Follows(Tail(s), c, next, there) <=> (c \in there <=> c \in next)
      BY <1>9 DEF Follows
    <2>2. CASE A = {}
      <3>1. c \in there <=> c \in known
        BY <2>2 DEF Follows
      <3>2. c \in next <=> c \in known
        BY <2>2, <1>4
      <3> QED
        BY <2>1, <3>1, <3>2
    <2>3. CASE A = {1}
      <3>1. c \in there <=> s[1].is = "+"
        BY <2>3 DEF Follows
      <3>2. s[1].id = c /\ s[1].is \in {"+", "-"}
        BY <2>3, <1>1, <1>4
      <3>3. c \in next <=> s[1].is = "+"
        BY <3>2, <1>1
      <3> QED
        BY <2>1, <3>1, <3>3
    <2>4. A \subseteq {1}
      BY <1>6, <1>9
    <2> QED
      BY <2>2, <2>3, <2>4
  <1>10. CASE T # {}
    <2>1. A # {}
      BY <1>10, <1>2, <1>3
    <2>2. c \in there <=> \E k \in A : Last(s, k)
      BY <2>1 DEF Follows
    <2>3. (\E k \in A : Last(s, k)) <=> \E i \in T : Last(Tail(s), i)
      BY <1>7, <1>8, <1>10
    <2> QED
      BY <2>2, <2>3, <1>10 DEF Follows
  <1> QED
    BY <1>9, <1>10

\* A line that the child writes is the last one about whom it is about.
LEMMA FollowsAppend ==
  ASSUME NEW s \in Seq(Lines), NEW x \in Lines, NEW c \in Clients,
         NEW known, NEW there, NEW next, Follows(s, c, known, there),
         c \in next <=> (x.id = c /\ x.is = "+") \/ (c \in there /\ ~(x.id = c /\ x.is = "-"))
  PROVE  Follows(Append(s, x), c, known, next)
  <1> DEFINE q == Append(s, x)
             n == Len(s) + 1
  <1>1. Len(s) \in Nat /\ Len(q) = n /\ q[n] = x /\ \A i \in 1..Len(s) : q[i] = s[i]
    BY AppendToLines
  <1>2. Abouts(s, c) \subseteq 1..Len(s) /\ n \notin 1..Len(s)
    BY <1>1 DEF Abouts
  <1> HIDE DEF q, n
  <1>3. 1..Len(q) = 1..Len(s) \cup {n} /\ \A i \in 1..Len(s) : i <= n
    BY <1>1 DEF n
  <1>4. CASE x.id = c /\ x.is \in {"+", "-"}
    <2>1. Abouts(q, c) = Abouts(s, c) \cup {n}
      BY <1>1, <1>3, <1>4 DEF Abouts
    <2>2. \A i \in Abouts(q, c) : (\A j \in Abouts(q, c) : j <= i) <=> i = n
      BY <2>1, <1>1, <1>2, <1>3 DEF n
    <2>3. (\E i \in Abouts(q, c) : q[i].is = "+" /\ \A j \in Abouts(q, c) : j <= i) <=> x.is = "+"
      BY <2>1, <2>2, <1>1
    <2>4. c \in next <=> x.is = "+"
      BY <1>4
    <2> QED
      BY <2>1, <2>3, <2>4 DEF Follows, q
  <1>5. CASE ~(x.id = c /\ x.is \in {"+", "-"})
    <2>1. Abouts(q, c) = Abouts(s, c)
      BY <1>1, <1>3, <1>5 DEF Abouts
    <2>2. \A i \in Abouts(q, c) : q[i] = s[i]
      BY <2>1, <1>1, <1>2
    <2>3. c \in next <=> c \in there
      BY <1>5
    <2> QED
      BY <2>1, <2>2, <2>3 DEF Follows, q
  <1> QED
    BY <1>4, <1>5

\* What was torn stays torn; and a message that is not is one line.
LEMMA TornStays == [Next]_vars /\ ~torn' => ~torn
  <1> SUFFICES ASSUME [Next]_vars, ~torn' PROVE ~torn
    OBVIOUS
  <1>1. CASE PostStop \/ Exit \/ ExitEnds \/ SetDying \/ SetDone
    BY <1>1 DEF PostStop, Exit, ExitEnds, SetDying, SetDone, childVars
  <1>2. CASE CallBegins
    BY <1>2 DEF CallBegins
  <1>3. CASE CallReturns \/ LoopEnds
    BY <1>3 DEF CallReturns, LoopEnds, childVars
  <1>4. CASE Snapshot
    BY <1>4 DEF Snapshot, childVars
  <1>5. CASE Write
    BY <1>5 DEF Write, childVars
  <1>6. CASE KillAndReturn
    BY <1>6 DEF KillAndReturn, childVars
  <1>7. CASE OnConnect
    BY <1>7 DEF OnConnect, childVars
  <1>8. CASE OnDisconnect
    BY <1>8 DEF OnDisconnect, childVars
  <1>9. CASE OnMessage
    BY <1>9 DEF OnMessage, childVars
  <1>10. CASE Reply
    BY <1>10 DEF Reply, childVars
  <1>11. CASE OnStop
    BY <1>11 DEF OnStop, childVars
  <1>12. CASE NoReply \/ Stopping
    BY <1>12 DEF NoReply, Stopping, childVars
  <1>13. CASE Connect
    BY <1>13 DEF Connect
  <1>14. ASSUME NEW c \in Clients, Say(c) PROVE ~torn
    BY <1>14 DEF Say
  <1>15. ASSUME NEW c \in Clients, Disconnect(c) PROVE ~torn
    BY <1>15 DEF Disconnect
  <1>16. ASSUME NEW c \in Ids, Forward(c) PROVE ~torn
    BY <1>16 DEF Forward, childVars
  <1>17. CASE EmptyRound
    BY <1>17 DEF EmptyRound, childVars
  <1>18. CASE ChildEnds
    BY <1>18 DEF ChildEnds
  <1>19. CASE UNCHANGED vars
    BY <1>19 DEF vars, childVars
  <1> QED
    BY <1>1, <1>2, <1>3, <1>4, <1>5, <1>6, <1>7, <1>8, <1>9, <1>10, <1>11, <1>12, <1>13, <1>14, <1>15, <1>16, <1>17, <1>18,
       <1>19, NextCases

LEMMA SayWhole ==
  ASSUME NEW c \in Clients, Say(c), ~torn', stdout \in Seq(Lines), said \in Nat
  PROVE  \E is \in {"say", "stop"} :
           /\ [is |-> is, id |-> c] \in Lines
           /\ stdout' = Append(stdout, [is |-> is, id |-> c])
           /\ UNCHANGED heard
  <1>1. PICK is \in {"say", "stop"}, breaks \in Nat, rest \in Seq(Lines) :
               /\ [is |-> is, id |-> c] \in Lines
               /\ stdout' = stdout \o <<[is |-> is, id |-> c]>> \o rest
               /\ Len(rest) \in 0..breaks /\ said' = said + 1 + breaks /\ said' <= MaxSaid
               /\ torn' = (torn \/ breaks > 0)
    BY SayLines
  <1> DEFINE x == [is |-> is, id |-> c]
  <1>2. breaks = 0 /\ Len(rest) = 0
    <2>1. ~(breaks > 0)
      BY <1>1, Zenon
    <2> QED
      BY <1>1, <2>1
  <1>3. rest = <<>>
    BY <1>1, <1>2
  <1>4. x \in Lines /\ stdout' = stdout \o <<x>> \o <<>>
    BY <1>1, <1>3
  <1>5. UNCHANGED heard
    BY DEF Say
  <1> HIDE DEF x
  <1>6. stdout \o <<x>> = Append(stdout, x) /\ Append(stdout, x) \o <<>> = Append(stdout, x)
    BY <1>4
  <1>7. stdout' = Append(stdout, x)
    BY <1>4, <1>6
  <1> QED
    BY <1>4, <1>5, <1>7 DEF x

LEMMA FollowStep == WssTypeOK /\ PhaseInv /\ ConnsFollow /\ [Next]_vars => ConnsFollow'
  <1> SUFFICES ASSUME WssTypeOK, PhaseInv, ConnsFollow, [Next]_vars, child' = "running", ~dying', ~torn',
                      NEW c \in Clients
               PROVE  Follows(stdout', c, conns', open')
    BY ConnsFollowNext
  <1>a. ControlType /\ ClientType /\ PipeType
    BY TypeParts
  <1>b. child = "running" /\ ~dying => Follows(stdout, c, conns, open)
    BY ConnsFollowForm, TornStays
  <1>c. stdout \in Seq(Lines)
    BY <1>a DEF PipeType
  <1>1. CASE PostStop \/ Exit \/ ExitEnds \/ SetDying \/ SetDone
    <2>1. UNCHANGED <<child, stdout, conns, open>> /\ ~dying
      BY <1>1 DEF PostStop, Exit, ExitEnds, SetDying, SetDone, stateVars, childVars
    <2> QED
      BY <2>1, <1>b
  <1>2. CASE CallBegins
    <2>1. stdout' = <<>> /\ open' = {} /\ UNCHANGED <<conns, dying>> /\ keeper = "check"
      BY <1>2 DEF CallBegins, stateVars
    <2>2. conns = {}
      BY <2>1 DEF PhaseInv
    <2> QED
      BY <2>1, <2>2 DEF Follows, Abouts
  <1>3. CASE CallReturns \/ LoopEnds
    <2>1. UNCHANGED <<child, stdout, conns, open, dying>>
      BY <1>3 DEF CallReturns, LoopEnds, stateVars, childVars
    <2> QED
      BY <2>1, <1>b
  <1>4. CASE Snapshot
    <2>1. UNCHANGED <<child, stdout, conns, open, dying>>
      BY <1>4 DEF Snapshot, childVars
    <2> QED
      BY <2>1, <1>b
  <1>5. CASE Write \/ KillAndReturn
    <2>1. UNCHANGED <<child, stdout, conns, open, dying>>
      BY <1>5 DEF Write, KillAndReturn, stateVars, childVars
    <2> QED
      BY <2>1, <1>b
  <1>6. CASE OnConnect \/ OnDisconnect
    <2>1. stdout # <<>> /\ stdout' = Tail(stdout) /\ UNCHANGED <<child, open, dying>>
      BY <1>6 DEF OnConnect, OnDisconnect, Line, childVars
    <2>2. \/ Head(stdout).is = "+" /\ conns' = conns \cup {Head(stdout).id}
          \/ Head(stdout).is = "-" /\ conns' = conns \ {Head(stdout).id}
      BY <1>6 DEF OnConnect, OnDisconnect, Line
    <2>3. c \in conns' <=> \/ Head(stdout).id = c /\ Head(stdout).is = "+"
                           \/ c \in conns /\ ~(Head(stdout).id = c /\ Head(stdout).is = "-")
      BY <2>2
    <2>4. Follows(stdout, c, conns, open')
      BY <2>1, <1>b
    <2> QED
      BY <2>1, <2>3, <2>4, <1>c, FollowsTail, Zenon
  <1>7. CASE OnMessage \/ OnStop
    <2>1. /\ stdout # <<>> /\ stdout' = Tail(stdout) /\ UNCHANGED <<child, conns, open, dying>>
          /\ Head(stdout).is \in {"say", "stop"}
      BY <1>7 DEF OnMessage, OnStop, Line, childVars
    <2>2. c \in conns' <=> \/ Head(stdout).id = c /\ Head(stdout).is = "+"
                           \/ c \in conns /\ ~(Head(stdout).id = c /\ Head(stdout).is = "-")
      BY <2>1
    <2>3. Follows(stdout, c, conns, open')
      BY <2>1, <1>b
    <2> QED
      BY <2>1, <2>2, <2>3, <1>c, FollowsTail, Zenon
  <1>8. CASE Reply \/ NoReply \/ Stopping
    <2>1. UNCHANGED <<child, stdout, conns, open, dying>>
      BY <1>8 DEF Reply, NoReply, Stopping, stateVars, childVars
    <2> QED
      BY <2>1, <1>b
  <1>9. CASE Connect
    <2> DEFINE x == [is |-> "+", id |-> idx + 1]
    <2>1. /\ stdout' = Append(stdout, x) /\ open' = open \cup {idx + 1}
          /\ UNCHANGED <<child, conns, dying>> /\ idx < MaxClients /\ idx \in Nat
      BY <1>9, <1>a DEF Connect, Tell, stateVars, ClientType
    <2>2. x \in Lines /\ x.is = "+" /\ x.id = idx + 1
      BY <2>1, ConstantsTyped DEF Lines, Ids, Clients
    <2> HIDE DEF x
    <2>3. c \in open' <=> (x.id = c /\ x.is = "+") \/ (c \in open /\ ~(x.id = c /\ x.is = "-"))
      BY <2>1, <2>2
    <2>4. Follows(stdout, c, conns', open)
      BY <2>1, <1>b
    <2> QED
      BY <2>1, <2>2, <2>3, <2>4, <1>c, FollowsAppend, Zenon
  <1>10. ASSUME NEW d \in Clients, Say(d) PROVE Follows(stdout', c, conns', open')
    <2>1. PICK is \in {"say", "stop"} : [is |-> is, id |-> d] \in Lines /\ stdout' = Append(stdout, [is |-> is, id |-> d])
      <3>1. said \in Nat
        BY <1>a, ConstantsTyped DEF ClientType
      <3> QED
        BY <1>10, <1>c, <3>1, SayWhole
    <2> DEFINE x == [is |-> is, id |-> d]
    <2>2. UNCHANGED <<child, conns, open, dying>> /\ stdout' = Append(stdout, x)
      BY <1>10, <2>1 DEF Say, stateVars
    <2>3. x \in Lines /\ x.is \in {"say", "stop"}
      BY <2>1
    <2> HIDE DEF x
    <2>4. c \in open' <=> (x.id = c /\ x.is = "+") \/ (c \in open /\ ~(x.id = c /\ x.is = "-"))
      BY <2>2, <2>3
    <2>5. Follows(stdout, c, conns', open)
      BY <2>2, <1>b
    <2> QED
      BY <2>2, <2>3, <2>4, <2>5, <1>c, FollowsAppend, Zenon
  <1>11. ASSUME NEW d \in Clients, Disconnect(d) PROVE Follows(stdout', c, conns', open')
    <2> DEFINE x == [is |-> "-", id |-> d]
    <2>1. UNCHANGED <<child, conns, dying>> /\ stdout' = Append(stdout, x) /\ open' = open \ {d}
      BY <1>11 DEF Disconnect, Tell, stateVars
    <2>2. x \in Lines /\ x.is = "-" /\ x.id = d
      BY ConstantsTyped DEF Lines
    <2> HIDE DEF x
    <2>3. c \in open' <=> (x.id = c /\ x.is = "+") \/ (c \in open /\ ~(x.id = c /\ x.is = "-"))
      BY <2>1, <2>2
    <2>4. Follows(stdout, c, conns', open)
      BY <2>1, <1>b
    <2> QED
      BY <2>1, <2>2, <2>3, <2>4, <1>c, FollowsAppend, Zenon
  <1>12. ASSUME NEW d \in Ids, Forward(d) PROVE Follows(stdout', c, conns', open')
    <2>1. UNCHANGED <<child, stdout, conns, open, dying>>
      BY <1>12 DEF Forward, stateVars, childVars
    <2> QED
      BY <2>1, <1>b
  <1>13. CASE EmptyRound
    <2>1. UNCHANGED <<child, stdout, conns, open, dying>>
      BY <1>13 DEF EmptyRound, stateVars, childVars
    <2> QED
      BY <2>1, <1>b
  <1>14. CASE ChildEnds
    BY <1>14 DEF ChildEnds
  <1>15. CASE UNCHANGED vars
    <2>1. UNCHANGED <<child, stdout, conns, open, dying>>
      BY <1>15 DEF vars, stateVars, childVars
    <2> QED
      BY <2>1, <1>b
  <1> QED
    BY <1>1, <1>2, <1>3, <1>4, <1>5, <1>6, <1>7, <1>8, <1>9, <1>10, <1>11, <1>12, <1>13, <1>14, <1>15, NextCases

\* What the invariants say together.
LEMMA PhaseAndFollow ==
  /\ Init => PhaseInv /\ ConnsFollow
  /\ WssTypeOK /\ PhaseInv /\ ConnsFollow /\ [Next]_vars => (PhaseInv /\ ConnsFollow)'
  <1>1. Init => PhaseInv /\ ConnsFollow
    BY DEF Init, PhaseInv, ConnsFollow
  <1> QED
    BY <1>1, PhaseStep, FollowStep, TypeParts

\* The clients that the State of wss.cc has as connected, corrected by the lines "+"
\* and "-" that the callback has not read yet, are those that are connected, until it
\* is time to die or a client has said something with a line break, which may be such a
\* line: until then, nobody who comes and goes fast is kept, and nobody is lost.
THEOREM StateFollowsClients == Spec => []ConnsFollow
  <1> DEFINE I == WssTypeOK /\ SaidInv /\ PhaseInv /\ ConnsFollow
  <1>1. Init => I
    BY TypeInit, PhaseAndFollow
  <1>2. I /\ [Next]_vars => I'
    BY TypeStep, PhaseAndFollow
  <1> QED
    BY <1>1, <1>2, PTL DEF Spec

-----------------------------------------------------------------------------
(* What is sent to a client.                                               *)

LEMMA RoundsConcat ==
  \A p, q \in Seq(Round) :
    /\ p \o q \in Seq(Round) /\ Len(p) \in Nat /\ Len(q) \in Nat /\ Len(p \o q) = Len(p) + Len(q)
    /\ \A i \in 1..Len(p) : (p \o q)[i] = p[i]
    /\ \A i \in 1..Len(q) : (p \o q)[Len(p) + i] = q[i]
  OBVIOUS

LEMMA SameRounds == \A p, q \in Seq(Round) : Len(p) = Len(q) /\ (\A i \in 1..Len(p) : p[i] = q[i]) => p = q
  OBVIOUS

LEMMA RoundsAssoc == \A p, q, r \in Seq(Round) : (p \o q) \o r = p \o (q \o r)
  BY SMTT(60)

LEMMA NrsOfConcat == \A p, q \in Seq(Round), c \in Clients : Nrs(c, p \o q) = Nrs(c, p) \cup Nrs(c, q)
  <1> SUFFICES ASSUME NEW p \in Seq(Round), NEW q \in Seq(Round), NEW c \in Clients
               PROVE  Nrs(c, p \o q) = Nrs(c, p) \cup Nrs(c, q)
    OBVIOUS
  <1> DEFINE b == p \o q
  <1>1. /\ Len(p) \in Nat /\ Len(q) \in Nat /\ Len(b) = Len(p) + Len(q)
        /\ \A i \in 1..Len(p) : b[i] = p[i]
        /\ \A i \in 1..Len(q) : b[Len(p) + i] = q[i]
    BY RoundsConcat
  <1> HIDE DEF b
  <1>2. \A i \in 1..Len(p) : i \in 1..Len(b)
    BY <1>1
  <1>3. \A i \in 1..Len(q) : Len(p) + i \in 1..Len(b)
    BY <1>1
  <1>4. \A k \in 1..Len(b) : k \in 1..Len(p) \/ (k - Len(p) \in 1..Len(q) /\ Len(p) + (k - Len(p)) = k)
    BY <1>1
  <1>5. Nrs(c, p) \subseteq Nrs(c, b)
    BY <1>1, <1>2 DEF Nrs
  <1>6. Nrs(c, q) \subseteq Nrs(c, b)
    BY <1>1, <1>3 DEF Nrs
  <1>7. ASSUME NEW k \in 1..Len(b), c \in b[k].to PROVE b[k].nr \in Nrs(c, p) \cup Nrs(c, q)
    <2>1. CASE k \in 1..Len(p)
      BY <2>1, <1>1, <1>7 DEF Nrs
    <2>2. CASE k - Len(p) \in 1..Len(q) /\ Len(p) + (k - Len(p)) = k
      <3>1. b[k] = q[k - Len(p)]
        BY <2>2, <1>1
      <3> QED
        BY <2>2, <3>1, <1>7 DEF Nrs
    <2> QED
      BY <2>1, <2>2, <1>4
  <1>8. Nrs(c, b) \subseteq Nrs(c, p) \cup Nrs(c, q)
    BY <1>7 DEF Nrs
  <1> QED
    BY <1>5, <1>6, <1>8 DEF b

\* All that is in the one comes before all that is in the other.
Before(m, n) == \A i \in m, j \in n : i < j

LEMMA RisingConcat ==
  \A p, q \in Seq(Round), c \in Clients :
    Rising(c, p \o q) <=> Rising(c, p) /\ Rising(c, q) /\ Before(Nrs(c, p), Nrs(c, q))
  <1> SUFFICES ASSUME NEW p \in Seq(Round), NEW q \in Seq(Round), NEW c \in Clients
               PROVE  Rising(c, p \o q) <=> Rising(c, p) /\ Rising(c, q) /\ Before(Nrs(c, p), Nrs(c, q))
    OBVIOUS
  <1> DEFINE b == p \o q
  <1>1. /\ Len(p) \in Nat /\ Len(q) \in Nat /\ Len(b) = Len(p) + Len(q)
        /\ \A i \in 1..Len(p) : b[i] = p[i]
        /\ \A i \in 1..Len(q) : b[Len(p) + i] = q[i]
    BY RoundsConcat
  <1> HIDE DEF b
  <1>2. \A i \in 1..Len(p) : i \in 1..Len(b)
    BY <1>1
  <1>3. \A i \in 1..Len(q) : Len(p) + i \in 1..Len(b)
    BY <1>1
  <1>4. \A k \in 1..Len(b) : k \in 1..Len(p) \/ (k - Len(p) \in 1..Len(q) /\ Len(p) + (k - Len(p)) = k)
    BY <1>1
  <1>5. ASSUME Rising(c, b) PROVE Rising(c, p) /\ Rising(c, q) /\ Before(Nrs(c, p), Nrs(c, q))
    <2>1. Rising(c, p)
      BY <1>1, <1>2, <1>5 DEF Rising
    <2>2. Rising(c, q)
      <3> SUFFICES ASSUME NEW i \in 1..Len(q), NEW j \in 1..Len(q), i < j, c \in q[i].to \cap q[j].to
                   PROVE  q[i].nr < q[j].nr
        BY DEF Rising
      <3>1. Len(p) + i < Len(p) + j
        BY <1>1
      <3>2. b[Len(p) + i] = q[i] /\ b[Len(p) + j] = q[j]
        BY <1>1
      <3> QED
        BY <3>1, <3>2, <1>3, <1>5 DEF Rising
    <2>3. Before(Nrs(c, p), Nrs(c, q))
      <3> SUFFICES ASSUME NEW i \in 1..Len(p), NEW j \in 1..Len(q), c \in p[i].to, c \in q[j].to
                   PROVE  p[i].nr < q[j].nr
        BY DEF Before, Nrs
      <3>1. i < Len(p) + j
        BY <1>1
      <3>2. b[i] = p[i] /\ b[Len(p) + j] = q[j]
        BY <1>1
      <3> QED
        BY <3>1, <3>2, <1>2, <1>3, <1>5 DEF Rising
    <2> QED
      BY <2>1, <2>2, <2>3
  <1>6. ASSUME Rising(c, p), Rising(c, q), Before(Nrs(c, p), Nrs(c, q)) PROVE Rising(c, b)
    <2> SUFFICES ASSUME NEW i \in 1..Len(b), NEW j \in 1..Len(b), i < j, c \in b[i].to, c \in b[j].to
                 PROVE  b[i].nr < b[j].nr
      BY DEF Rising
    <2>1. CASE j \in 1..Len(p)
      <3>1. i \in 1..Len(p)
        BY <2>1, <1>1
      <3> QED
        BY <2>1, <3>1, <1>1, <1>6 DEF Rising
    <2>2. CASE j - Len(p) \in 1..Len(q) /\ i \in 1..Len(p)
      <3>1. b[i] = p[i] /\ b[j] = q[j - Len(p)]
        BY <2>2, <1>1, <1>4, SMTT(60)
      <3>2. p[i].nr \in Nrs(c, p) /\ q[j - Len(p)].nr \in Nrs(c, q)
        BY <2>2, <3>1 DEF Nrs
      <3> QED
        BY <3>1, <3>2, <1>6 DEF Before
    <2>3. CASE j - Len(p) \in 1..Len(q) /\ i - Len(p) \in 1..Len(q)
      <3> DEFINE k == i - Len(p)
                 l == j - Len(p)
      <3>1. k \in 1..Len(q) /\ l \in 1..Len(q) /\ k < l /\ Len(p) + k = i /\ Len(p) + l = j
        BY <2>3, <1>1
      <3>2. b[i] = q[k] /\ b[j] = q[l]
        BY <3>1, <1>1
      <3> HIDE DEF k, l
      <3> QED
        BY <3>1, <3>2, <1>6 DEF Rising
    <2> QED
      BY <2>1, <2>2, <2>3, <1>1, <1>4
  <1> QED
    BY <1>5, <1>6 DEF b

\* One round, and none.
LEMMA OneRound ==
  \A x \in Round, c \in Clients :
    /\ <<x>> \in Seq(Round) /\ Rising(c, <<x>>)
    /\ Nrs(c, <<x>>) = IF c \in x.to THEN {x.nr} ELSE {}
  <1> SUFFICES ASSUME NEW x \in Round, NEW c \in Clients
               PROVE  /\ <<x>> \in Seq(Round) /\ Rising(c, <<x>>)
                      /\ Nrs(c, <<x>>) = IF c \in x.to THEN {x.nr} ELSE {}
    OBVIOUS
  <1>1. Len(<<x>>) = 1 /\ <<x>>[1] = x /\ 1..1 = {1}
    OBVIOUS
  <1> QED
    BY <1>1 DEF Rising, Nrs

LEMMA OneRoundAndMore ==
  \A x \in Round, t \in Seq(Round), c \in Clients :
    LET first == IF c \in x.to THEN {x.nr} ELSE {}
    IN  /\ Nrs(c, <<x>> \o t) = first \cup Nrs(c, t)
        /\ Rising(c, <<x>> \o t) <=> Rising(c, t) /\ Before(first, Nrs(c, t))
  <1> SUFFICES ASSUME NEW x \in Round, NEW t \in Seq(Round), NEW c \in Clients
               PROVE  LET first == IF c \in x.to THEN {x.nr} ELSE {}
                      IN  /\ Nrs(c, <<x>> \o t) = first \cup Nrs(c, t)
                          /\ Rising(c, <<x>> \o t) <=> Rising(c, t) /\ Before(first, Nrs(c, t))
    OBVIOUS
  <1> DEFINE first == IF c \in x.to THEN {x.nr} ELSE {}
             p == <<x>>
  <1>1. p \in Seq(Round) /\ Rising(c, p) /\ Nrs(c, p) = first
    BY OneRound
  <1> HIDE DEF first, p
  <1>2. Nrs(c, p \o t) = Nrs(c, p) \cup Nrs(c, t)
    BY <1>1, NrsOfConcat, Zenon
  <1>3. Rising(c, p \o t) <=> Rising(c, p) /\ Rising(c, t) /\ Before(Nrs(c, p), Nrs(c, t))
    BY <1>1, RisingConcat, Zenon
  <1> QED
    BY <1>1, <1>2, <1>3 DEF first, p

LEMMA NoRound == \A c \in Clients : <<>> \in Seq(Round) /\ Rising(c, <<>>) /\ Nrs(c, <<>>) = {}
  BY DEF Rising, Nrs

\* What a client has heard, as rounds for it alone.
LEMMA HeardRounds ==
  \A s \in Seq({Hello, Dying} \cup Broadcasts), c \in Clients :
    HeardBy(c, s) \in Seq(Round) /\ (s = <<>> => HeardBy(c, s) = <<>>)
  <1> SUFFICES ASSUME NEW s \in Seq({Hello, Dying} \cup Broadcasts), NEW c \in Clients
               PROVE  HeardBy(c, s) \in Seq(Round) /\ (s = <<>> => HeardBy(c, s) = <<>>)
    OBVIOUS
  <1>1. Len(s) \in Nat /\ \A i \in 1..Len(s) : s[i] \in {Hello, Dying} \cup Broadcasts
    OBVIOUS
  <1>2. \A i \in 1..Len(s) : [to |-> {c}, nr |-> s[i]] \in Round
    BY <1>1 DEF Round, Ids
  <1>3. HeardBy(c, s) \in [1..Len(s) -> Round]
    BY <1>2 DEF HeardBy
  <1>4. s = <<>> => HeardBy(c, s) = <<>>
    BY DEF HeardBy
  <1> QED
    BY <1>1, <1>3, <1>4

LEMMA HeardMore ==
  \A s \in Seq({Hello, Dying} \cup Broadcasts), n \in {Hello, Dying} \cup Broadcasts, c \in Clients :
    HeardBy(c, Append(s, n)) = HeardBy(c, s) \o <<[to |-> {c}, nr |-> n]>>
  <1> SUFFICES ASSUME NEW s \in Seq({Hello, Dying} \cup Broadcasts), NEW n \in {Hello, Dying} \cup Broadcasts, NEW c \in Clients
               PROVE  HeardBy(c, Append(s, n)) = HeardBy(c, s) \o <<[to |-> {c}, nr |-> n]>>
    OBVIOUS
  <1> DEFINE x == [to |-> {c}, nr |-> n]
             p == HeardBy(c, s)
             q == HeardBy(c, Append(s, n))
             l == Len(s)
  <1>1. /\ l \in Nat /\ Len(Append(s, n)) = l + 1 /\ Append(s, n)[l + 1] = n
        /\ \A i \in 1..l : Append(s, n)[i] = s[i]
    OBVIOUS
  <1>2. Append(s, n) \in Seq({Hello, Dying} \cup Broadcasts)
    OBVIOUS
  <1>3. p \in Seq(Round) /\ q \in Seq(Round) /\ x \in Round
    BY <1>2, HeardRounds DEF Round, Ids
  <1>4. Len(p) = l /\ \A i \in 1..l : p[i] = [to |-> {c}, nr |-> s[i]]
    BY <1>1 DEF HeardBy
  <1>5. Len(q) = l + 1 /\ q[l + 1] = x /\ \A i \in 1..l : q[i] = [to |-> {c}, nr |-> s[i]]
    <2> DEFINE a == Append(s, n)
    <2>1. q = [i \in 1..(l + 1) |-> [to |-> {c}, nr |-> a[i]]]
      BY <1>1 DEF HeardBy
    <2>2. l \in Nat /\ a[l + 1] = n /\ \A i \in 1..l : a[i] = s[i]
      BY <1>1
    <2> HIDE DEF a, l, q
    <2>3. Len(q) = l + 1
      BY <2>1, <2>2
    <2>4. \A i \in 1..(l + 1) : q[i] = [to |-> {c}, nr |-> a[i]]
      BY <2>1, Zenon
    <2>5. l + 1 \in 1..(l + 1) /\ \A i \in 1..l : i \in 1..(l + 1)
      BY <2>2
    <2>6. q[l + 1] = x
      BY <2>2, <2>4, <2>5, Zenon
    <2>7. \A i \in 1..l : q[i] = [to |-> {c}, nr |-> s[i]]
      BY <2>2, <2>4, <2>5, Zenon
    <2> QED
      BY <2>3, <2>6, <2>7
  <1>6. <<x>> \in Seq(Round) /\ Len(<<x>>) = 1 /\ <<x>>[1] = x
    BY <1>3
  <1> HIDE DEF x, p, q, l
  <1>7. p \o <<x>> \in Seq(Round) /\ Len(p \o <<x>>) = l + 1
    BY <1>3, <1>4, <1>6, RoundsConcat
  <1>8. (p \o <<x>>)[l + 1] = x
    BY <1>3, <1>4, <1>6, RoundsConcat
  <1>9. \A i \in 1..l : (p \o <<x>>)[i] = p[i]
    BY <1>3, <1>4, <1>6, RoundsConcat
  <1>10. \A i \in 1..(l + 1) : q[i] = (p \o <<x>>)[i]
    BY <1>1, <1>4, <1>5, <1>8, <1>9
  <1>11. q = p \o <<x>>
    BY <1>3, <1>5, <1>7, <1>10, SameRounds
  <1> QED
    BY <1>11 DEF p, q, x

\* The broadcasts, from some on, that are not from a client.
Later(sp, c, m) == {n \in (m + 1)..Len(sp) : sp[n] # c}

Numbered(bs, sp) ==
  /\ Len(bs) <= Len(sp)
  /\ \A i \in 1..Len(bs) :
       LET n == Len(sp) - Len(bs) + i
       IN  bs[i].nr = n /\ bs[i].from = sp[n]

\* What is spread of the newest broadcasts are they, in their order, for those it is for.
LEMMA SpreadSays ==
  \A bs \in Seq(Message), sp \in Seq(Ids), ids \in SUBSET Ids, c \in Clients :
    Numbered(bs, sp) =>
      /\ Spread(bs, ids) \in Seq(Round) /\ Rising(c, Spread(bs, ids))
      /\ Nrs(c, Spread(bs, ids)) = IF c \in ids THEN Later(sp, c, Len(sp) - Len(bs)) ELSE {}
  <1> SUFFICES ASSUME NEW bs \in Seq(Message), NEW sp \in Seq(Ids), NEW ids \in SUBSET Ids,
                      NEW c \in Clients, Numbered(bs, sp)
               PROVE  /\ Spread(bs, ids) \in Seq(Round) /\ Rising(c, Spread(bs, ids))
                      /\ Nrs(c, Spread(bs, ids)) = IF c \in ids THEN Later(sp, c, Len(sp) - Len(bs)) ELSE {}
    OBVIOUS
  <1> DEFINE q == Spread(bs, ids)
             m == Len(sp) - Len(bs)
  <1>1. q \in Seq(Round) /\ Len(q) = Len(bs)
    BY SpreadType
  <1>2. Len(bs) \in Nat /\ Len(sp) \in Nat /\ m \in Nat
    BY DEF Numbered
  <1>3. \A i \in 1..Len(bs) : q[i].to = ids \ {sp[m + i]} /\ q[i].nr = m + i
    BY DEF Numbered, Spread
  <1> HIDE DEF q
  <1>4. Rising(c, q)
    BY <1>1, <1>2, <1>3 DEF Rising
  <1>5. CASE c \notin ids
    BY <1>1, <1>3, <1>4, <1>5 DEF Nrs, q
  <1>6. CASE c \in ids
    <2>1. ASSUME NEW i \in 1..Len(bs), c \in q[i].to PROVE q[i].nr \in Later(sp, c, m)
      BY <2>1, <1>2, <1>3 DEF Later
    <2>2. Nrs(c, q) \subseteq Later(sp, c, m)
      BY <2>1, <1>1 DEF Nrs
    <2>3. ASSUME NEW n \in Later(sp, c, m) PROVE n \in Nrs(c, q)
      <3> DEFINE i == n - m
      <3>1. i \in 1..Len(bs) /\ m + i = n /\ sp[n] # c
        BY <1>2 DEF Later
      <3> HIDE DEF i, m
      <3>2. c \in q[i].to /\ q[i].nr = n
        BY <3>1, <1>3, <1>6
      <3> QED
        BY <3>1, <3>2, <1>1 DEF Nrs
    <2>4. Nrs(c, q) = Later(sp, c, m)
      BY <2>2, <2>3
    <2> QED
      BY <2>4, <1>1, <1>4, <1>6 DEF q
  <1> QED
    BY <1>5, <1>6

-----------------------------------------------------------------------------
(* The numbers of the broadcasts, and the clients that nobody has heard of. *)

LEMMA NumberForm == (NumberInv <=> Numbered(broadcasts, spoken)) /\ (NumberInv' <=> Numbered(broadcasts', spoken'))
  BY DEF NumberInv, Numbered

LEMMA NumberedMore ==
  \A bs \in Seq(Message), sp \in Seq(Ids), x \in Message :
    Numbered(bs, sp) /\ x.nr = Len(sp) + 1 => Numbered(Append(bs, x), Append(sp, x.from))
  <1> SUFFICES ASSUME NEW bs \in Seq(Message), NEW sp \in Seq(Ids), NEW x \in Message,
                      Numbered(bs, sp), x.nr = Len(sp) + 1
               PROVE  Numbered(Append(bs, x), Append(sp, x.from))
    OBVIOUS
  <1> DEFINE b == Append(bs, x)
             s == Append(sp, x.from)
             k == Len(bs)
             l == Len(sp)
  <1>1. k \in Nat /\ Len(b) = k + 1 /\ b[k + 1] = x /\ \A i \in 1..k : b[i] = bs[i]
    OBVIOUS
  <1>2. x.from \in Ids
    BY DEF Message
  <1>3. l \in Nat /\ Len(s) = l + 1 /\ s[l + 1] = x.from /\ \A i \in 1..l : s[i] = sp[i]
    BY <1>2
  <1>4. k <= l /\ \A i \in 1..k : bs[i].nr = l - k + i /\ bs[i].from = sp[l - k + i]
    BY DEF Numbered
  <1>5. x.nr = l + 1
    OBVIOUS
  <1> HIDE DEF b, s, k, l
  <1>6. ASSUME NEW i \in 1..(k + 1) PROVE b[i].nr = l - k + i /\ b[i].from = s[l - k + i]
    <2>1. CASE i = k + 1
      <3>1. l - k + i = l + 1
        BY <2>1, <1>1, <1>3
      <3> QED
        BY <2>1, <3>1, <1>1, <1>3, <1>5
    <2>2. CASE i \in 1..k
      <3>1. l - k + i \in 1..l
        BY <2>2, <1>1, <1>3, <1>4
      <3> QED
        BY <2>2, <3>1, <1>1, <1>3, <1>4
    <2> QED
      BY <2>1, <2>2, <1>1
  <1>7. (l + 1) - (k + 1) = l - k /\ k + 1 <= l + 1
    BY <1>1, <1>3, <1>4
  <1> QED
    BY <1>1, <1>3, <1>6, <1>7, ZenonT(60) DEF Numbered, b, s

LEMMA NumberStep == WssTypeOK /\ WssTypeOK' /\ NumberInv /\ [Next]_vars => NumberInv'
  <1> SUFFICES ASSUME WssTypeOK, WssTypeOK', NumberInv, [Next]_vars PROVE NumberInv'
    OBVIOUS
  <1>a. /\ broadcasts \in Seq(Message) /\ spoken \in Seq(Ids)
        /\ broadcasts' \in Seq(Message) /\ spoken' \in Seq(Ids)
    BY TypeParts, TypePartsNext DEF PipeType
  <1>b. Numbered(broadcasts, spoken)
    BY NumberForm
  <1>1. CASE UNCHANGED <<broadcasts, spoken>>
    BY <1>1, <1>b, NumberForm
  <1>2. ASSUME NEW from \in Ids, Broadcast(from) PROVE NumberInv'
    <2> DEFINE x == [from |-> from, nr |-> Len(spoken) + 1]
    <2>1. broadcasts' = Append(broadcasts, x) /\ spoken' = Append(spoken, from)
      BY <1>2 DEF Broadcast
    <2>2. x.from = from /\ x.nr = Len(spoken) + 1
      OBVIOUS
    <2>3. x \in Message
      <3>1. Len(spoken) \in Nat /\ Len(spoken') = Len(spoken) + 1 /\ Len(spoken') <= 2 * MaxSaid
        BY <1>a, <2>1 DEF WssTypeOK
      <3> QED
        BY <3>1, ConstantsTyped DEF Message, Broadcasts
    <2> HIDE DEF x
    <2> QED
      BY <2>1, <2>2, <2>3, <1>a, <1>b, NumberedMore, NumberForm
  <1>3. CASE Snapshot
    <2>1. broadcasts' = <<>> /\ spoken' = spoken
      BY <1>3 DEF Snapshot, history
    <2> QED
      BY <2>1, <1>a, NumberForm DEF Numbered
  <1>4. CASE OnMessage \/ OnStop \/ Reply
    <2>1. PICK from \in {0, Head(stdout).id} : Broadcast(from)
      BY <1>4 DEF OnMessage, OnStop, Reply
    <2>2. OnMessage \/ OnStop => stdout # <<>>
      BY DEF OnMessage, OnStop, Line
    <2>3. from \in Ids
      <3>1. CASE Reply
        <4>1. Broadcast(0)
          BY <3>1 DEF Reply
        <4>2. spoken' = Append(spoken, 0) /\ spoken' = Append(spoken, from)
          BY <2>1, <4>1 DEF Broadcast
        <4>3. Append(spoken, 0) = Append(spoken, from)
          BY <4>2
        <4> QED
          BY <4>2, <1>a
      <3>2. CASE stdout # <<>>
        <4>1. stdout \in Seq(Lines)
          BY DEF WssTypeOK
        <4>2. Head(stdout).id \in Ids
          BY <3>2, <4>1, HeadOfLines DEF Lines
        <4> QED
          BY <2>1, <4>2, ConstantsTyped
      <3> QED
        BY <1>4, <2>2, <3>1, <3>2
    <2> QED
      BY <2>1, <2>3, <1>2
  <1>5. CASE PostStop \/ Exit \/ ExitEnds \/ SetDying \/ SetDone
    BY <1>5, <1>1 DEF PostStop, Exit, ExitEnds, SetDying, SetDone, stateVars, history
  <1>6. CASE CallBegins \/ CallReturns \/ LoopEnds
    BY <1>6, <1>1 DEF CallBegins, CallReturns, LoopEnds, stateVars, history
  <1>7. CASE Write \/ KillAndReturn
    BY <1>7, <1>1 DEF Write, KillAndReturn, stateVars, history
  <1>8. CASE OnConnect \/ OnDisconnect
    BY <1>8, <1>1 DEF OnConnect, OnDisconnect, history
  <1>9. CASE NoReply \/ Stopping
    BY <1>9, <1>1 DEF NoReply, Stopping, stateVars, history
  <1>10. CASE Connect \/ EmptyRound \/ ChildEnds
    BY <1>10, <1>1 DEF Connect, EmptyRound, ChildEnds, stateVars, history
  <1>11. ASSUME NEW c \in Clients, Say(c) \/ Disconnect(c) PROVE NumberInv'
    BY <1>11, <1>1 DEF Say, Disconnect, stateVars, history
  <1>12. ASSUME NEW c \in Ids, Forward(c) PROVE NumberInv'
    BY <1>12, <1>1 DEF Forward, stateVars
  <1>13. CASE UNCHANGED vars
    BY <1>13, <1>1 DEF vars, stateVars, history
  <1> QED
    BY <1>13, <1>3, <1>4, <1>5, <1>6, <1>7, <1>8, <1>9, <1>10, <1>11, <1>12, NextCases

\* The two parts of ComingInv: each client comes once, and who is to come is unheard of.
ComesOnce(s, k) ==
  \A i \in 1..Len(s) : s[i].id <= k /\ (s[i].is = "+" => \A j \in 1..Len(s) : s[j] = s[i] => j = i)

Comes(s, k, c) == c > k \/ \E i \in 1..Len(s) : s[i] = [is |-> "+", id |-> c]

LEMMA ComingForm ==
  /\ ComingInv <=> (~torn => ComesOnce(stdout, idx) /\ (~dying => \A c \in Clients : Comes(stdout, idx, c) => Fresh(c)))
  /\ ComingInv' <=>
       (~torn' => ComesOnce(stdout', idx') /\ (~dying' => \A c \in Clients : Comes(stdout', idx', c) => Fresh(c)'))
  BY DEF ComingInv, ComesOnce, Comes

\* A line is read: who is still to come is not whom it is about, if somebody has come.
LEMMA ComingTail ==
  \A s \in Seq(Lines), k \in Nat :
    s # <<>> /\ ComesOnce(s, k) =>
      /\ ComesOnce(Tail(s), k)
      /\ \A c \in Clients : Comes(Tail(s), k, c) => Comes(s, k, c) /\ (Head(s).is = "+" => Head(s).id # c)
  <1> SUFFICES ASSUME NEW s \in Seq(Lines), NEW k \in Nat, s # <<>>, ComesOnce(s, k)
               PROVE  /\ ComesOnce(Tail(s), k)
                      /\ \A c \in Clients : Comes(Tail(s), k, c) => Comes(s, k, c) /\ (Head(s).is = "+" => Head(s).id # c)
    OBVIOUS
  <1> DEFINE t == Tail(s)
             l == Len(s)
  <1>1. /\ l \in Nat \ {0} /\ Head(s) = s[1] /\ s[1] \in Lines /\ Len(t) = l - 1
        /\ \A i \in 1..(l - 1) : t[i] = s[i + 1]
    BY HeadOfLines
  <1> HIDE DEF t, l
  <1>2. \A i \in 1..(l - 1) : i + 1 \in 1..l /\ i + 1 # 1 /\ \A j \in 1..(l - 1) : j + 1 = i + 1 => j = i
    BY <1>1
  <1>3. 1 \in 1..l
    BY <1>1
  <1>4. \A i \in 1..l : s[i].id <= k /\ (s[i].is = "+" => \A j \in 1..l : s[j] = s[i] => j = i)
    BY DEF ComesOnce, l
  <1>5. ComesOnce(t, k)
    <2>1. ASSUME NEW i \in 1..Len(t) PROVE t[i].id <= k
      BY <1>1, <1>2, <1>4
    <2>2. ASSUME NEW i \in 1..Len(t), t[i].is = "+", NEW j \in 1..Len(t), t[j] = t[i] PROVE j = i
      <3>1. i \in 1..(l - 1) /\ j \in 1..(l - 1) /\ t[i] = s[i + 1] /\ t[j] = s[j + 1]
        BY <1>1, <2>2
      <3>2. j + 1 = i + 1
        BY <1>2, <1>4, <2>2, <3>1, Zenon
      <3> QED
        BY <1>2, <3>1, <3>2, Zenon
    <2> QED
      BY <2>1, <2>2, Zenon DEF ComesOnce
  <1>6. ASSUME NEW c \in Clients, NEW i \in 1..(l - 1), t[i] = [is |-> "+", id |-> c]
        PROVE  s[i + 1] = [is |-> "+", id |-> c] /\ (s[1].is = "+" => s[1].id # c)
    <2>1. s[i + 1] = [is |-> "+", id |-> c]
      BY <1>1, <1>6
    <2>2. ASSUME s[1].is = "+", s[1].id = c PROVE FALSE
      <3>1. s[1] = [is |-> "+", id |-> c]
        BY <2>2, <1>1 DEF Lines
      <3>2. i + 1 = 1
        BY <2>1, <2>2, <3>1, <1>2, <1>3, <1>4
      <3> QED
        BY <3>2, <1>2
    <2> QED
      BY <2>1, <2>2
  <1>7. ASSUME NEW c \in Clients, c > k PROVE s[1].id # c
    <2>1. s[1].id <= k
      BY <1>3, <1>4
    <2> QED
      BY <2>1, <1>7, ConstantsTyped
  <1>8. ASSUME NEW c \in Clients, Comes(t, k, c) PROVE Comes(s, k, c) /\ (Head(s).is = "+" => Head(s).id # c)
    <2>1. CASE c > k
      BY <2>1, <1>1, <1>7 DEF Comes
    <2>2. CASE \E i \in 1..(l - 1) : t[i] = [is |-> "+", id |-> c]
      <3>1. PICK i \in 1..(l - 1) : t[i] = [is |-> "+", id |-> c]
        BY <2>2
      <3>2. i + 1 \in 1..l /\ s[i + 1] = [is |-> "+", id |-> c] /\ (s[1].is = "+" => s[1].id # c)
        BY <3>1, <1>2, <1>6
      <3> QED
        BY <3>2, <1>1 DEF Comes, l
    <2> QED
      BY <2>1, <2>2, <1>1, <1>8 DEF Comes
  <1> QED
    BY <1>5, <1>8 DEF t

\* A line is written: nobody comes by it but a new client.
LEMMA ComingAppend ==
  \A s \in Seq(Lines), x \in Lines, k, n \in Nat :
    ComesOnce(s, k) /\ (IF x.is = "+" THEN n = k + 1 /\ x.id = n ELSE n = k /\ x.id <= k) =>
      /\ ComesOnce(Append(s, x), n)
      /\ \A c \in Clients : Comes(Append(s, x), n, c) => Comes(s, k, c)
  <1> SUFFICES ASSUME NEW s \in Seq(Lines), NEW x \in Lines, NEW k \in Nat, NEW n \in Nat, ComesOnce(s, k),
                      IF x.is = "+" THEN n = k + 1 /\ x.id = n ELSE n = k /\ x.id <= k
               PROVE  /\ ComesOnce(Append(s, x), n)
                      /\ \A c \in Clients : Comes(Append(s, x), n, c) => Comes(s, k, c)
    OBVIOUS
  <1> DEFINE q == Append(s, x)
             l == Len(s)
  <1>1. l \in Nat /\ Len(q) = l + 1 /\ q[l + 1] = x /\ \A i \in 1..l : q[i] = s[i]
    BY AppendToLines
  <1>2. \A i \in 1..l : s[i] \in Lines
    OBVIOUS
  <1>3. \A i \in 1..l : s[i].id <= k /\ (s[i].is = "+" => \A j \in 1..l : s[j] = s[i] => j = i)
    BY DEF ComesOnce
  <1> HIDE DEF q, l
  <1>4. 1..(l + 1) = 1..l \cup {l + 1} /\ l + 1 \notin 1..l
    BY <1>1
  <1>5. \A i \in 1..l : s[i].id \in Nat /\ s[i].id <= n /\ (x.is = "+" => s[i].id # x.id)
    <2> SUFFICES ASSUME NEW i \in 1..l PROVE s[i].id \in Nat /\ s[i].id <= n /\ (x.is = "+" => s[i].id # x.id)
      OBVIOUS
    <2>1. s[i].id \in Nat
      BY <1>2, ConstantsTyped DEF Lines
    <2>2. s[i].id <= k
      BY <1>3
    <2>3. n = k \/ n = k + 1
      OBVIOUS
    <2>4. s[i].id <= n
      BY <2>1, <2>2, <2>3
    <2>5. CASE x.is = "+"
      <3>1. x.id = k + 1
        BY <2>5
      <3> QED
        BY <2>1, <2>2, <2>4, <3>1
    <2> QED
      BY <2>1, <2>4, <2>5
  <1>6. x.id <= n
    BY ConstantsTyped DEF Lines
  <1>7. \A i \in 1..(l + 1) : q[i].id <= n
    BY <1>1, <1>4, <1>5, <1>6
  <1>8. ASSUME NEW i \in 1..(l + 1), NEW j \in 1..(l + 1), q[i].is = "+", q[j] = q[i] PROVE j = i
    <2>1. CASE i \in 1..l /\ j \in 1..l
      BY <2>1, <1>1, <1>3, <1>8
    <2>2. CASE i = l + 1 /\ j \in 1..l
      BY <2>2, <1>1, <1>5, <1>8
    <2>3. CASE i \in 1..l /\ j = l + 1
      BY <2>3, <1>1, <1>5, <1>8
    <2> QED
      BY <2>1, <2>2, <2>3, <1>4
  <1>9. ComesOnce(q, n)
    BY <1>1, <1>7, <1>8 DEF ComesOnce
  <1>10. ASSUME NEW c \in Clients, Comes(q, n, c) PROVE Comes(s, k, c)
    <2>1. CASE c > n
      <3>1. c > k
        BY <2>1, ConstantsTyped
      <3> QED
        BY <3>1 DEF Comes
    <2>2. CASE \E i \in 1..(l + 1) : q[i] = [is |-> "+", id |-> c]
      <3>1. PICK i \in 1..(l + 1) : q[i] = [is |-> "+", id |-> c]
        BY <2>2
      <3>2. CASE i \in 1..l
        BY <3>1, <3>2, <1>1 DEF Comes, l
      <3>3. CASE i = l + 1
        <4>1. x.is = "+" /\ x.id = c
          BY <3>1, <3>3, <1>1
        <4>2. c > k
          BY <4>1
        <4> QED
          BY <4>2 DEF Comes
      <3> QED
        BY <3>2, <3>3, <1>4
    <2> QED
      BY <2>1, <2>2, <1>1, <1>10 DEF Comes
  <1> QED
    BY <1>9, <1>10 DEF q

\* What the child takes off its input: the first number for one client, or nothing.
LEMMA ForwardTakes ==
  ASSUME WssTypeOK, NEW d \in Ids, Forward(d), NEW c \in Clients
  PROVE  /\ c # d => Nrs(c, stdin') = Nrs(c, stdin) /\ (Rising(c, stdin) => Rising(c, stdin'))
         /\ c = d => /\ Nrs(c, stdin) = {Head(stdin).nr} \cup Nrs(c, stdin')
                     /\ Rising(c, stdin) => Rising(c, stdin') /\ Before({Head(stdin).nr}, Nrs(c, stdin'))
  <1> DEFINE x == Head(stdin)
             t == Tail(stdin)
             y == [x EXCEPT !.to = @ \ {d}]
  <1>1. stdin \in Seq(Round) /\ stdin # <<>> /\ d \in x.to
    BY DEF Forward, WssTypeOK
  <1>2. x = stdin[1] /\ x \in Round /\ t \in Seq(Round) /\ stdin = <<x>> \o t
    BY <1>1, HeadOfRounds
  <1>3. y \in Round /\ y.nr = x.nr /\ y.to = x.to \ {d}
    BY <1>2 DEF Round
  <1>4. [stdin EXCEPT ![1] = y] = <<y>> \o t
    BY <1>1, <1>3, HeadOfRounds
  <1>5. (x.to = {d} /\ stdin' = t) \/ stdin' = <<y>> \o t
    <2>1. [stdin EXCEPT ![1].to = @ \ {d}] = [stdin EXCEPT ![1] = [stdin[1] EXCEPT !.to = @ \ {d}]]
      OBVIOUS
    <2>2. CASE x.to = {d}
      BY <2>2, Zenon DEF Forward
    <2>3. CASE x.to # {d}
      <3>1. stdin' = [stdin EXCEPT ![1].to = @ \ {d}]
        BY <2>3 DEF Forward
      <3> QED
        BY <3>1, <2>1, <1>2, <1>4, ZenonT(60)
    <2> QED
      BY <2>2, <2>3
  <1> HIDE DEF x, t, y
  <1>6. ASSUME NEW e \in Clients
        PROVE  /\ Nrs(e, stdin) = (IF e \in x.to THEN {x.nr} ELSE {}) \cup Nrs(e, t)
               /\ Rising(e, stdin) => Rising(e, t) /\ (e \in x.to => Before({x.nr}, Nrs(e, t)))
    <2>1. /\ Nrs(e, <<x>> \o t) = (IF e \in x.to THEN {x.nr} ELSE {}) \cup Nrs(e, t)
          /\ Rising(e, <<x>> \o t) <=> Rising(e, t) /\ Before(IF e \in x.to THEN {x.nr} ELSE {}, Nrs(e, t))
      BY <1>2, OneRoundAndMore, Zenon
    <2> QED
      BY <1>2, <2>1
  <1>7. ASSUME NEW e \in Clients
        PROVE  /\ Nrs(e, <<y>> \o t) = (IF e \in y.to THEN {x.nr} ELSE {}) \cup Nrs(e, t)
               /\ Rising(e, <<y>> \o t) <=> Rising(e, t) /\ Before(IF e \in y.to THEN {x.nr} ELSE {}, Nrs(e, t))
    <2>1. /\ Nrs(e, <<y>> \o t) = (IF e \in y.to THEN {y.nr} ELSE {}) \cup Nrs(e, t)
          /\ Rising(e, <<y>> \o t) <=> Rising(e, t) /\ Before(IF e \in y.to THEN {y.nr} ELSE {}, Nrs(e, t))
      BY <1>2, <1>3, OneRoundAndMore, Zenon
    <2> QED
      BY <2>1, <1>3
  <1>8. Before({}, Nrs(c, t))
    BY DEF Before
  <1>9. ASSUME c = d PROVE Nrs(c, stdin') = Nrs(c, t) /\ (Rising(c, t) => Rising(c, stdin'))
    <2>1. c \notin y.to
      BY <1>3, <1>9
    <2> QED
      BY <2>1, <1>5, <1>7, <1>8
  <1>10. ASSUME c = d PROVE Nrs(c, stdin) = {x.nr} \cup Nrs(c, stdin')
    BY <1>1, <1>6, <1>9, <1>10 DEF x
  <1>11. ASSUME c = d PROVE Rising(c, stdin) => Rising(c, stdin') /\ Before({x.nr}, Nrs(c, stdin'))
    BY <1>1, <1>6, <1>9, <1>11 DEF x
  <1>12. ASSUME c # d PROVE Nrs(c, stdin') = Nrs(c, stdin) /\ (Rising(c, stdin) => Rising(c, stdin'))
    <2>1. CASE x.to = {d} /\ stdin' = t
      <3>1. c \notin x.to
        BY <2>1, <1>12
      <3> QED
        BY <2>1, <3>1, <1>6
    <2>2. CASE stdin' = <<y>> \o t
      <3>1. c \in y.to <=> c \in x.to
        BY <1>3, <1>12
      <3>2. Nrs(c, stdin') = Nrs(c, stdin)
        BY <2>2, <3>1, <1>6, <1>7
      <3>3. c \notin x.to => Before(IF c \in y.to THEN {x.nr} ELSE {}, Nrs(c, t))
        BY <3>1 DEF Before
      <3>4. Rising(c, stdin) => Rising(c, t) /\ Before(IF c \in y.to THEN {x.nr} ELSE {}, Nrs(c, t))
        BY <3>1, <3>3, <1>6
      <3> QED
        BY <2>2, <3>2, <3>4, <1>7
    <2> QED
      BY <2>1, <2>2, <1>5
  <1> QED
    BY <1>10, <1>11, <1>12 DEF x

LEMMA EmptyRoundTakes ==
  ASSUME WssTypeOK, EmptyRound, NEW c \in Clients
  PROVE  Nrs(c, stdin') = Nrs(c, stdin) /\ (Rising(c, stdin) => Rising(c, stdin'))
  <1>1. stdin \in Seq(Round) /\ stdin # <<>> /\ Head(stdin).to = {} /\ stdin' = Tail(stdin)
    BY DEF EmptyRound, WssTypeOK
  <1>2. Head(stdin) \in Round /\ Tail(stdin) \in Seq(Round) /\ stdin = <<Head(stdin)>> \o Tail(stdin)
    BY <1>1, HeadOfRounds
  <1>3. <<Head(stdin)>> \in Seq(Round) /\ Nrs(c, <<Head(stdin)>>) = {}
    BY <1>1, <1>2, OneRound
  <1>4. Nrs(c, stdin) = {} \cup Nrs(c, Tail(stdin))
    BY <1>2, <1>3, NrsOfConcat, ZenonT(60)
  <1>5. Rising(c, stdin) => Rising(c, Tail(stdin))
    BY <1>2, <1>3, RisingConcat, ZenonT(60)
  <1> QED
    BY <1>1, <1>4, <1>5

\* What is written after a snapshot: to those to be greeted, and then to all that are known.
LEMMA WorkSays ==
  ASSUME WssTypeOK, NumberInv, ~dying, NEW c \in Clients
  PROVE  /\ Work \in Seq(Round) /\ Rising(c, Work)
         /\ Nrs(c, Work) = (IF c \in toGreet THEN {Hello} ELSE {})
                           \cup (IF c \in conns THEN Later(spoken, c, Len(spoken) - Len(broadcasts)) ELSE {})
  <1> DEFINE q == Spread(broadcasts, conns)
             g == IF toGreet = {} THEN <<>> ELSE <<[to |-> toGreet, nr |-> Hello]>>
             m == Len(spoken) - Len(broadcasts)
  <1>1. /\ broadcasts \in Seq(Message) /\ spoken \in Seq(Ids)
        /\ conns \in SUBSET Ids /\ toGreet \in SUBSET Ids
    BY TypeParts DEF PipeType, ClientType
  <1>2. Numbered(broadcasts, spoken)
    BY NumberForm
  <1>3. q \in Seq(Round) /\ Rising(c, q) /\ Nrs(c, q) = IF c \in conns THEN Later(spoken, c, m) ELSE {}
    BY <1>1, <1>2, SpreadSays
  <1>4. g \in Seq(Round) /\ Rising(c, g) /\ Nrs(c, g) = IF c \in toGreet THEN {Hello} ELSE {}
    <2>1. CASE toGreet = {}
      BY <2>1, NoRound
    <2>2. CASE toGreet # {}
      <3>1. [to |-> toGreet, nr |-> Hello] \in Round
        BY <1>1 DEF Round
      <3> QED
        BY <2>2, <3>1, OneRound
    <2> QED
      BY <2>1, <2>2
  <1>5. Work = g \o q
    BY Zenon DEF Work
  <1>6. m \in Nat
    BY <1>1, <1>2 DEF Numbered
  <1>7. Before(Nrs(c, g), Nrs(c, q))
    BY <1>1, <1>3, <1>4, <1>6 DEF Before, Later, Hello
  <1> HIDE DEF q, g
  <1>8. Work \in Seq(Round)
    BY <1>3, <1>4, <1>5, RoundsConcat
  <1>9. Rising(c, Work)
    BY <1>3, <1>4, <1>5, <1>7, RisingConcat
  <1>10. Nrs(c, Work) = Nrs(c, g) \cup Nrs(c, q)
    BY <1>3, <1>4, <1>5, NrsOfConcat
  <1> QED
    BY <1>3, <1>4, <1>8, <1>9, <1>10

LEMMA FreshForm ==
  /\ WssTypeOK => \A c \in Clients : Fresh(c) <=> c \notin conns /\ heard[c] = <<>> /\ Nrs(c, stdin) = {} /\ Nrs(c, outbox) = {}
  /\ WssTypeOK' => \A c \in Clients : Fresh(c)' <=> c \notin conns' /\ heard'[c] = <<>> /\ Nrs(c, stdin') = {} /\ Nrs(c, outbox') = {}
  <1>1. ASSUME WssTypeOK, NEW c \in Clients
        PROVE  Fresh(c) <=> c \notin conns /\ heard[c] = <<>> /\ Nrs(c, stdin) = {} /\ Nrs(c, outbox) = {}
    <2>1. stdin \in Seq(Round) /\ outbox \in Seq(Round)
      BY <1>1 DEF WssTypeOK
    <2>2. Nrs(c, stdin \o outbox) = Nrs(c, stdin) \cup Nrs(c, outbox)
      BY <2>1, NrsOfConcat
    <2> QED
      BY <2>2 DEF Fresh
  <1>2. ASSUME WssTypeOK', NEW c \in Clients
        PROVE  Fresh(c)' <=> c \notin conns' /\ heard'[c] = <<>> /\ Nrs(c, stdin') = {} /\ Nrs(c, outbox') = {}
    <2>1. stdin' \in Seq(Round) /\ outbox' \in Seq(Round)
      BY <1>2 DEF WssTypeOK
    <2>2. Nrs(c, stdin' \o outbox') = Nrs(c, stdin') \cup Nrs(c, outbox')
      BY <2>1, NrsOfConcat
    <2> QED
      BY <2>2 DEF Fresh, Nrs
  <1> QED
    BY <1>1, <1>2

LEMMA ComingStep ==
  ASSUME WssTypeOK, WssTypeOK', PhaseInv, NumberInv, ComingInv, [Next]_vars
  PROVE  ComingInv'
  <1> SUFFICES ASSUME ~torn' PROVE ComingInv'
    BY ComingForm
  <1>a. /\ stdout \in Seq(Lines) /\ idx \in Nat /\ idx' \in Nat /\ stdin \in Seq(Round) /\ outbox \in Seq(Round)
        /\ \A c \in Clients : c \in open => c <= idx
    BY ConstantsTyped DEF WssTypeOK
  <1>b. ComesOnce(stdout, idx) /\ (~dying => \A c \in Clients : Comes(stdout, idx, c) => Fresh(c))
    BY ComingForm, TornStays
  <1>1. ASSUME UNCHANGED <<stdout, idx>>, ~dying' => ~dying /\ \A c \in Clients : Fresh(c) => Fresh(c)'
        PROVE  ComingInv'
    BY <1>1, <1>b, ComingForm
  <1>2. ASSUME UNCHANGED <<stdout, idx, conns, heard, stdin, outbox>>, ~dying' => ~dying
        PROVE  ComingInv'
    BY <1>1, <1>2, FreshForm
  <1>3. ASSUME stdout # <<>>, stdout' = Tail(stdout), UNCHANGED <<idx, dying, heard, stdin, outbox>>,
               conns' \subseteq IF Head(stdout).is = "+" THEN conns \cup {Head(stdout).id} ELSE conns
        PROVE  ComingInv'
    <2>1. /\ ComesOnce(Tail(stdout), idx)
          /\ \A c \in Clients : Comes(Tail(stdout), idx, c) =>
               Comes(stdout, idx, c) /\ (Head(stdout).is = "+" => Head(stdout).id # c)
      BY <1>3, <1>a, <1>b, ComingTail
    <2>2. ASSUME ~dying', NEW c \in Clients, Comes(stdout', idx', c) PROVE Fresh(c)'
      <3>1. Fresh(c) /\ (Head(stdout).is = "+" => Head(stdout).id # c)
        BY <2>1, <2>2, <1>3, <1>b
      <3>2. c \notin conns'
        BY <3>1, <1>3 DEF Fresh
      <3> QED
        BY <3>1, <3>2, <1>3, FreshForm
    <2> QED
      BY <2>1, <2>2, <1>3, ComingForm
  <1>4. ASSUME NEW x \in Lines, stdout' = Append(stdout, x), UNCHANGED <<dying, conns, heard, stdin, outbox>>,
               IF x.is = "+" THEN idx' = idx + 1 /\ x.id = idx' ELSE idx' = idx /\ x.id <= idx
        PROVE  ComingInv'
    <2>1. /\ ComesOnce(Append(stdout, x), idx')
          /\ \A c \in Clients : Comes(Append(stdout, x), idx', c) => Comes(stdout, idx, c)
      BY <1>4, <1>a, <1>b, ComingAppend
    <2>2. ASSUME ~dying', NEW c \in Clients, Comes(stdout', idx', c) PROVE Fresh(c)'
      <3>1. Fresh(c)
        BY <2>1, <2>2, <1>4, <1>b
      <3> QED
        BY <3>1, <1>4, FreshForm
    <2> QED
      BY <2>1, <2>2, <1>4, ComingForm
  <1>5. CASE PostStop \/ Exit \/ ExitEnds \/ SetDying \/ SetDone
    <2>1. UNCHANGED <<stdout, idx, conns, heard, stdin, outbox>> /\ (~dying' => ~dying)
      BY <1>5 DEF PostStop, Exit, ExitEnds, SetDying, SetDone, stateVars, userVars, childVars, history
    <2> QED
      BY <2>1, <1>2
  <1>6. CASE CallBegins
    <2>1. /\ keeper = "check" /\ stdout' = <<>> /\ stdin' = <<>> /\ UNCHANGED <<outbox, conns, dying>>
          /\ heard' = [c \in Clients |-> <<>>]
      BY <1>6 DEF CallBegins, stateVars
    <2>2. outbox = <<>> /\ (dying \/ conns = {})
      BY <2>1 DEF PhaseInv
    <2>3. \A c \in Clients : ~dying' => Fresh(c)'
      BY <2>1, <2>2, NoRound, FreshForm
    <2>4. ComesOnce(stdout', idx')
      BY <2>1 DEF ComesOnce
    <2> QED
      BY <2>3, <2>4, ComingForm
  <1>7. CASE CallReturns \/ LoopEnds
    <2>1. UNCHANGED <<stdout, idx, conns, heard, stdin, outbox, dying>>
      BY <1>7 DEF CallReturns, LoopEnds, stateVars, userVars, childVars, history
    <2> QED
      BY <2>1, <1>2
  <1>8. CASE Snapshot
    <2>1. UNCHANGED <<stdout, idx, conns, heard, stdin, dying>> /\ outbox' = Work
      BY <1>8 DEF Snapshot, childVars, history
    <2>2. ASSUME ~dying, NEW c \in Clients, Fresh(c) PROVE Fresh(c)'
      <3>1. c \notin conns /\ c \notin toGreet
        BY <2>2 DEF Fresh, WssTypeOK
      <3>2. Nrs(c, Work) = {}
        BY <2>2, <3>1, WorkSays
      <3> QED
        BY <2>1, <2>2, <3>2, FreshForm
    <2> QED
      BY <2>1, <2>2, <1>1
  <1>9. CASE Write \/ KillAndReturn
    <2>1. UNCHANGED <<stdout, idx, conns, heard, dying>> /\ stdin' = Written /\ outbox' = <<>>
      BY <1>9 DEF Write, KillAndReturn, stateVars, childVars, history
    <2>2. ASSUME NEW c \in Clients, Fresh(c) PROVE Fresh(c)'
      <3>1. Nrs(c, stdin) = {} /\ Nrs(c, stdin \o outbox) = {}
        BY <2>2, FreshForm DEF Fresh
      <3>2. Nrs(c, stdin') = {}
        BY <3>1, <2>1 DEF Written
      <3> QED
        BY <2>1, <2>2, <3>2, NoRound, FreshForm
    <2> QED
      BY <2>1, <2>2, <1>1
  <1>10. CASE OnConnect \/ OnDisconnect
    <2>1. /\ stdout # <<>> /\ stdout' = Tail(stdout) /\ UNCHANGED <<idx, dying, heard, stdin, outbox>>
          /\ conns' \subseteq IF Head(stdout).is = "+" THEN conns \cup {Head(stdout).id} ELSE conns
      BY <1>10 DEF OnConnect, OnDisconnect, Line, userVars, childVars, history
    <2> QED
      BY <2>1, <1>3
  <1>11. CASE OnMessage \/ OnStop
    <2>1. /\ stdout # <<>> /\ stdout' = Tail(stdout) /\ UNCHANGED <<idx, dying, heard, stdin, outbox>>
          /\ conns' \subseteq IF Head(stdout).is = "+" THEN conns \cup {Head(stdout).id} ELSE conns
      BY <1>11 DEF OnMessage, OnStop, Line, userVars, childVars
    <2> QED
      BY <2>1, <1>3
  <1>12. CASE Reply \/ NoReply \/ Stopping
    <2>1. UNCHANGED <<stdout, idx, conns, heard, stdin, outbox, dying>>
      BY <1>12 DEF Reply, NoReply, Stopping, stateVars, userVars, childVars, history
    <2> QED
      BY <2>1, <1>2
  <1>13. CASE Connect
    <2> DEFINE x == [is |-> "+", id |-> idx + 1]
    <2>1. /\ stdout' = Append(stdout, x) /\ UNCHANGED <<dying, conns, heard, stdin, outbox>>
          /\ idx' = idx + 1 /\ idx < MaxClients
      BY <1>13 DEF Connect, Tell, stateVars, userVars, history
    <2>2. x \in Lines /\ x.is = "+" /\ x.id = idx + 1
      BY <2>1, <1>a, ConstantsTyped DEF Lines, Ids, Clients
    <2> HIDE DEF x
    <2> QED
      BY <2>1, <2>2, <1>4
  <1>14. ASSUME NEW c \in Clients, Say(c) \/ Disconnect(c) PROVE ComingInv'
    <2>1. PICK is \in {"say", "stop", "-"} : stdout' = Append(stdout, [is |-> is, id |-> c]) /\ UNCHANGED heard
      <3>1. CASE Say(c)
        <4>1. said \in Nat
          BY ConstantsTyped DEF WssTypeOK
        <4>2. \E is \in {"say", "stop"} : stdout' = Append(stdout, [is |-> is, id |-> c]) /\ UNCHANGED heard
          BY <3>1, <4>1, <1>a, SayWhole
        <4> QED
          BY <4>2
      <3>2. CASE Disconnect(c)
        BY <3>2 DEF Disconnect, Tell, history
      <3> QED
        BY <1>14, <3>1, <3>2
    <2> DEFINE x == [is |-> is, id |-> c]
    <2>2. UNCHANGED <<dying, conns, stdin, outbox, idx>> /\ c \in open
      BY <1>14 DEF Say, Disconnect, stateVars, userVars
    <2>3. x \in Lines /\ x.is # "+" /\ x.id = c
      BY <2>1, ConstantsTyped DEF Lines
    <2>4. stdout' = Append(stdout, x) /\ x.id <= idx
      BY <2>1, <2>2, <2>3, <1>a
    <2> HIDE DEF x
    <2> QED
      BY <2>1, <2>2, <2>3, <2>4, <1>4
  <1>15. ASSUME NEW d \in Ids, Forward(d) PROVE ComingInv'
    <2>1. /\ UNCHANGED <<stdout, idx, conns, outbox, dying>>
          /\ heard' = heard \/ heard' = [heard EXCEPT ![d] = Append(@, Head(stdin).nr)]
      BY <1>15 DEF Forward, stateVars, userVars, childVars
    <2>2. ASSUME NEW c \in Clients, Fresh(c) PROVE Fresh(c)'
      <3>1. Nrs(c, stdin) = {} /\ heard[c] = <<>>
        BY <2>2, FreshForm
      <3>2. c # d
        BY <3>1, <1>15, ForwardTakes
      <3>3. Nrs(c, stdin') = {}
        BY <3>1, <3>2, <1>15, ForwardTakes
      <3>4. heard'[c] = <<>>
        BY <2>1, <3>1, <3>2 DEF WssTypeOK
      <3> QED
        BY <2>1, <2>2, <3>3, <3>4, FreshForm
    <2> QED
      BY <2>1, <2>2, <1>1
  <1>16. CASE EmptyRound
    <2>1. UNCHANGED <<stdout, idx, conns, heard, outbox, dying>>
      BY <1>16 DEF EmptyRound, stateVars, userVars, childVars, history
    <2>2. \A c \in Clients : Nrs(c, stdin') = Nrs(c, stdin)
      BY <1>16, EmptyRoundTakes
    <2> QED
      BY <2>1, <2>2, <1>1, FreshForm
  <1>17. CASE ChildEnds
    <2>1. /\ UNCHANGED <<stdout, idx, conns, outbox, dying>>
          /\ stdin' = <<>> /\ heard' = [c \in Clients |-> <<>>]
      BY <1>17 DEF ChildEnds, stateVars, userVars
    <2>2. \A c \in Clients : Fresh(c) => Fresh(c)'
      BY <2>1, NoRound, FreshForm
    <2> QED
      BY <2>1, <2>2, <1>1
  <1>18. CASE UNCHANGED vars
    <2>1. UNCHANGED <<stdout, idx, conns, heard, stdin, outbox, dying>>
      BY <1>18 DEF vars, stateVars, userVars, childVars, history
    <2> QED
      BY <2>1, <1>2
  <1> QED
    BY <1>5, <1>6, <1>7, <1>8, <1>9, <1>10, <1>11, <1>12, <1>13, <1>14, <1>15, <1>16, <1>17, <1>18, NextCases

-----------------------------------------------------------------------------
(* Everyone hears all.                                                     *)

\* What EveryoneHearsAll says of one client: of what is on its way to it, by the rounds
\* w, and of the broadcasts of sp, of which those after number m are in the State.
Sent(c, greet, w, sp, m, j) ==
  /\ IF c \in greet THEN Nrs(c, w) = {} ELSE Hello \in Nrs(c, w)
  /\ Rising(c, w) /\ Before(Nrs(c, w), Later(sp, c, m))
  /\ \E first \in 0..j : (Nrs(c, w) \cup Later(sp, c, m)) \ {Hello} = Later(sp, c, first)

LEMMA SentForm ==
  ASSUME NEW bs \in Seq(Message), NEW sp \in Seq(Ids), NEW w \in Seq(Round), NEW c \in Clients,
         Numbered(bs, sp), NEW greet, NEW j
  PROVE  Sent(c, greet, w, sp, Len(sp) - Len(bs), j) <=>
           /\ IF c \in greet THEN Nrs(c, w) = {} ELSE Hello \in Nrs(c, w)
           /\ Rising(c, w \o Spread(bs, Clients))
           /\ \E first \in 0..j : Nrs(c, w \o Spread(bs, Clients)) \ {Hello} = {n \in (first + 1)..Len(sp) : sp[n] # c}
  <1> DEFINE q == Spread(bs, Clients)
             late == Later(sp, c, Len(sp) - Len(bs))
  <1>1. q \in Seq(Round) /\ Rising(c, q) /\ Nrs(c, q) = late
    <2>1. Clients \in SUBSET Ids
      BY DEF Ids
    <2> QED
      BY <2>1, SpreadSays
  <1> HIDE DEF q, late
  <1>2. Nrs(c, w \o q) = Nrs(c, w) \cup late
    BY <1>1, NrsOfConcat
  <1>3. Rising(c, w \o q) <=> Rising(c, w) /\ Before(Nrs(c, w), late)
    <2>1. Rising(c, w \o q) <=> Rising(c, w) /\ Rising(c, q) /\ Before(Nrs(c, w), Nrs(c, q))
      BY <1>1, RisingConcat, Zenon
    <2> QED
      BY <2>1, <1>1
  <1>4. \A first : {n \in (first + 1)..Len(sp) : sp[n] # c} = Later(sp, c, first)
    BY DEF Later
  <1> QED
    BY <1>2, <1>3, <1>4 DEF Sent, q, late

\* The way to a client has its parts.
Parts(c, h, p, q) ==
  /\ Nrs(c, h \o p \o q) = Nrs(c, h) \cup Nrs(c, p) \cup Nrs(c, q)
  /\ Rising(c, h \o p \o q) <=> /\ Rising(c, h) /\ Rising(c, p) /\ Rising(c, q)
                                /\ Before(Nrs(c, h), Nrs(c, p)) /\ Before(Nrs(c, h) \cup Nrs(c, p), Nrs(c, q))

LEMMA WayParts == \A h, p, q \in Seq(Round) : h \o p \o q \in Seq(Round) /\ \A c \in Clients : Parts(c, h, p, q)
  <1> SUFFICES ASSUME NEW h \in Seq(Round), NEW p \in Seq(Round), NEW q \in Seq(Round)
               PROVE  h \o p \o q \in Seq(Round) /\ \A c \in Clients : Parts(c, h, p, q)
    OBVIOUS
  <1>1. h \o p \in Seq(Round) /\ (h \o p) \o q \in Seq(Round)
    BY RoundsConcat
  <1>2. ASSUME NEW c \in Clients PROVE Parts(c, h, p, q)
    <2>1. Nrs(c, h \o p) = Nrs(c, h) \cup Nrs(c, p)
      BY NrsOfConcat
    <2>2. Nrs(c, (h \o p) \o q) = Nrs(c, h \o p) \cup Nrs(c, q)
      BY <1>1, NrsOfConcat, ZenonT(60)
    <2>3. Rising(c, h \o p) <=> Rising(c, h) /\ Rising(c, p) /\ Before(Nrs(c, h), Nrs(c, p))
      BY RisingConcat, Zenon
    <2>4. Rising(c, (h \o p) \o q) <=> Rising(c, h \o p) /\ Rising(c, q) /\ Before(Nrs(c, h \o p), Nrs(c, q))
      BY <1>1, RisingConcat, Zenon
    <2> QED
      BY <2>1, <2>2, <2>3, <2>4 DEF Parts
  <1> QED
    BY <1>1, <1>2

gone == Len(spoken) - Len(broadcasts)

AllAreSent == \A c \in open \cap conns : ~dying /\ ~torn => Sent(c, toGreet, Way(c), spoken, gone, joined[c])

LEMMA WayType ==
  WssTypeOK => \A c \in Clients : /\ HeardBy(c, heard[c]) \in Seq(Round) /\ stdin \in Seq(Round) /\ outbox \in Seq(Round)
                                  /\ Way(c) \in Seq(Round)
  <1> SUFFICES ASSUME WssTypeOK, NEW c \in Clients
               PROVE  /\ HeardBy(c, heard[c]) \in Seq(Round) /\ stdin \in Seq(Round) /\ outbox \in Seq(Round)
                      /\ Way(c) \in Seq(Round)
    OBVIOUS
  <1>1. stdin \in Seq(Round) /\ outbox \in Seq(Round) /\ heard[c] \in Seq({Hello, Dying} \cup Broadcasts)
    BY TypeParts DEF PipeType
  <1>2. HeardBy(c, heard[c]) \in Seq(Round)
    BY <1>1, HeardRounds
  <1>3. Way(c) \in Seq(Round)
    BY <1>1, <1>2, WayParts DEF Way
  <1> QED
    BY <1>1, <1>2, <1>3

LEMMA HearsForm == WssTypeOK /\ NumberInv => (EveryoneHearsAll <=> AllAreSent)
  <1> SUFFICES ASSUME WssTypeOK, NumberInv PROVE EveryoneHearsAll <=> AllAreSent
    OBVIOUS
  <1>1. broadcasts \in Seq(Message) /\ spoken \in Seq(Ids) /\ open \subseteq Clients
    BY TypeParts, ConstantsTyped DEF PipeType, ClientType, Clients
  <1>2. Numbered(broadcasts, spoken)
    BY NumberForm
  <1>3. ASSUME NEW c \in open \cap conns
        PROVE  Sent(c, toGreet, Way(c), spoken, gone, joined[c]) <=>
                 /\ IF c \in toGreet THEN Nrs(c, Way(c)) = {} ELSE Hello \in Nrs(c, Way(c))
                 /\ Rising(c, Way(c) \o Spread(broadcasts, Clients))
                 /\ \E first \in 0..joined[c] :
                      Nrs(c, Way(c) \o Spread(broadcasts, Clients)) \ {Hello} = {n \in (first + 1)..Len(spoken) : spoken[n] # c}
    <2>1. c \in Clients /\ Way(c) \in Seq(Round)
      BY <1>1, WayType
    <2> DEFINE w == Way(c)
               j == joined[c]
    <2> HIDE DEF w, j
    <2>2. Sent(c, toGreet, w, spoken, Len(spoken) - Len(broadcasts), j) <=>
            /\ IF c \in toGreet THEN Nrs(c, w) = {} ELSE Hello \in Nrs(c, w)
            /\ Rising(c, w \o Spread(broadcasts, Clients))
            /\ \E first \in 0..j : Nrs(c, w \o Spread(broadcasts, Clients)) \ {Hello} = {n \in (first + 1)..Len(spoken) : spoken[n] # c}
      BY <2>1, <1>1, <1>2, SentForm, SMTT(60) DEF w
    <2> QED
      BY <2>2, Zenon DEF gone, w, j
  <1> QED
    BY <1>3 DEF EveryoneHearsAll, AllAreSent

LEMMA HearsFormNext == WssTypeOK' /\ NumberInv' => (EveryoneHearsAll' <=> AllAreSent')
  BY HearsForm, PTL

\* What is sent stays as it is, or the same is further on its way.
LEMMA SentOn ==
  ASSUME NEW c, NEW g, NEW h, NEW v, NEW w, NEW sp, NEW m, NEW j, Sent(c, g, v, sp, m, j),
         c \in g <=> c \in h, Nrs(c, w) = Nrs(c, v), Rising(c, v) => Rising(c, w)
  PROVE  Sent(c, h, w, sp, m, j)
  BY DEF Sent

\* One broadcast more is later than all that is on its way.
LEMMA SentMore ==
  ASSUME NEW c \in Clients, NEW g, NEW w, NEW sp \in Seq(Ids), NEW from \in Ids,
         NEW m \in 0..Len(sp), NEW j \in Nat, Sent(c, g, w, sp, m, j)
  PROVE  Sent(c, g, w, Append(sp, from), m, j)
  <1> DEFINE l == Len(sp)
             s == Append(sp, from)
             new == IF from = c THEN {} ELSE {l + 1}
  <1>1. l \in Nat /\ Len(s) = l + 1 /\ s[l + 1] = from /\ \A i \in 1..l : s[i] = sp[i]
    OBVIOUS
  <1>2. ASSUME NEW k \in 0..l PROVE Later(s, c, k) = Later(sp, c, k) \cup new
    <2>1. (k + 1)..(l + 1) = (k + 1)..l \cup {l + 1} /\ (k + 1)..l \subseteq 1..l
      BY <1>1
    <2> HIDE DEF s
    <2> QED
      BY <2>1, <1>1 DEF Later
  <1>3. PICK first \in 0..j : (Nrs(c, w) \cup Later(sp, c, m)) \ {Hello} = Later(sp, c, first)
    BY DEF Sent
  <1> DEFINE f == IF first <= l THEN first ELSE l
  <1>4. f \in 0..j /\ f \in 0..l /\ Later(sp, c, f) = Later(sp, c, first)
    BY <1>1 DEF Later
  <1> HIDE DEF s, f
  <1>5. Later(s, c, m) = Later(sp, c, m) \cup new /\ Later(s, c, f) = Later(sp, c, f) \cup new
    BY <1>2, <1>4
  <1>6. Hello \notin new
    BY <1>1 DEF Hello
  <1>7. (Nrs(c, w) \cup Later(s, c, m)) \ {Hello} = Later(s, c, f)
    BY <1>3, <1>4, <1>5, <1>6
  <1>8. Before(Nrs(c, w), Later(s, c, m))
    <2> SUFFICES ASSUME NEW i \in Nrs(c, w), NEW n \in Later(s, c, m) PROVE i < n
      BY DEF Before
    <2>1. CASE n \in Later(sp, c, m)
      BY <2>1 DEF Sent, Before
    <2>2. CASE n \in new
      <3>1. n = l + 1
        BY <2>2
      <3>2. i = 0 \/ i \in Later(sp, c, first)
        BY <1>3 DEF Hello
      <3>3. i = 0 \/ i \in (first + 1)..l
        BY <3>2 DEF Later
      <3> QED
        BY <3>1, <3>3, <1>1
    <2> QED
      BY <2>1, <2>2, <1>5
  <1> QED
    BY <1>4, <1>7, <1>8 DEF Sent, s

\* A snapshot puts the broadcasts of the State on their way.
LEMMA SentTaken ==
  ASSUME NEW c \in Clients, NEW g \in SUBSET Ids, NEW v, NEW w, NEW sp \in Seq(Ids), NEW m \in 0..Len(sp),
         NEW j, Sent(c, g, v, sp, m, j), Rising(c, w),
         Nrs(c, w) = Nrs(c, v) \cup (IF c \in g THEN {Hello} ELSE {}) \cup Later(sp, c, m)
  PROVE  Sent(c, {}, w, sp, Len(sp), j)
  <1>1. Later(sp, c, Len(sp)) = {}
    <2>1. Len(sp) \in Nat
      OBVIOUS
    <2>2. (Len(sp) + 1)..Len(sp) = {}
      BY <2>1
    <2> QED
      BY <2>2 DEF Later
  <1>2. Before(Nrs(c, w), Later(sp, c, Len(sp)))
    BY <1>1 DEF Before
  <1>3. Hello \in Nrs(c, w)
    BY DEF Sent
  <1>4. (Nrs(c, w) \cup Later(sp, c, Len(sp))) \ {Hello} = (Nrs(c, v) \cup Later(sp, c, m)) \ {Hello}
    BY <1>1
  <1> QED
    BY <1>2, <1>3, <1>4 DEF Sent

\* Who is new hears what is in the State, and what is to come.
LEMMA SentFirst ==
  ASSUME NEW c \in Clients, NEW g, c \in g, NEW w, NEW sp \in Seq(Ids), NEW m \in 0..Len(sp),
         Nrs(c, w) = {}, Rising(c, w)
  PROVE  Sent(c, g, w, sp, m, Len(sp))
  <1>1. Hello \notin Later(sp, c, m)
    BY DEF Later, Hello
  <1>2. (Nrs(c, w) \cup Later(sp, c, m)) \ {Hello} = Later(sp, c, m)
    BY <1>1
  <1> QED
    BY <1>2 DEF Sent, Before

\* What is heard and what is in the pipe may change, as long as they are together what they were.
LEMMA SentFurther ==
  ASSUME NEW c \in Clients, NEW h \in Seq(Round), NEW p \in Seq(Round), NEW q \in Seq(Round),
         NEW i \in Seq(Round), NEW r \in Seq(Round),
         Nrs(c, i) \cup Nrs(c, r) = Nrs(c, h) \cup Nrs(c, p),
         Rising(c, h) /\ Rising(c, p) /\ Before(Nrs(c, h), Nrs(c, p)) =>
           Rising(c, i) /\ Rising(c, r) /\ Before(Nrs(c, i), Nrs(c, r))
  PROVE  /\ Nrs(c, i \o r \o q) = Nrs(c, h \o p \o q)
         /\ Rising(c, h \o p \o q) => Rising(c, i \o r \o q)
  <1>1. Parts(c, h, p, q) /\ Parts(c, i, r, q)
    BY WayParts
  <1> QED
    BY <1>1 DEF Parts

LEMMA SentForward ==
  ASSUME NEW c \in Clients, NEW h \in Seq(Round), NEW p \in Seq(Round), NEW q \in Seq(Round), NEW r \in Seq(Round),
         Nrs(c, r) = Nrs(c, p), Rising(c, p) => Rising(c, r)
  PROVE  /\ Nrs(c, h \o r \o q) = Nrs(c, h \o p \o q)
         /\ Rising(c, h \o p \o q) => Rising(c, h \o r \o q)
  BY SentFurther

LEMMA HearStep ==
  ASSUME WssTypeOK, WssTypeOK', PhaseInv, NumberInv, NumberInv', ComingInv, EveryoneHearsAll, [Next]_vars
  PROVE  EveryoneHearsAll'
  <1> SUFFICES ASSUME NEW c \in open' \cap conns', ~dying', ~torn' PROVE Sent(c, toGreet', Way(c)', spoken', gone', joined'[c])
    BY HearsFormNext DEF AllAreSent
  <1> DEFINE h == HeardBy(c, heard[c])
             on == HeardBy(c, heard'[c]) \o stdin' \o outbox'
             goal == Sent(c, toGreet', Way(c)', spoken', gone', joined'[c])
  <1>a. c \in Clients
    BY TypePartsNext, ConstantsTyped DEF ClientType, Clients
  <1>t. ~torn
    BY TornStays
  <1>b. Way(c) = h \o stdin \o outbox /\ Way(c)' = on
    BY DEF Way, HeardBy
  <1>c. /\ h \in Seq(Round) /\ stdin \in Seq(Round) /\ outbox \in Seq(Round)
        /\ stdin' \in Seq(Round) /\ outbox' \in Seq(Round)
    BY <1>a, WayType DEF WssTypeOK
  <1>d. c \in open /\ c \in conns /\ ~dying => Sent(c, toGreet, Way(c), spoken, gone, joined[c]) /\ child = "running"
    <2>1. AllAreSent
      BY HearsForm
    <2> QED
      BY <2>1, <1>t DEF AllAreSent, PhaseInv
  <1>e. /\ spoken \in Seq(Ids) /\ Len(spoken) \in Nat /\ gone \in 0..Len(spoken)
        /\ joined[c] \in Nat /\ heard[c] \in Seq({Hello, Dying} \cup Broadcasts)
    <2>1. broadcasts \in Seq(Message) /\ spoken \in Seq(Ids)
      BY TypeParts DEF PipeType
    <2>2. Numbered(broadcasts, spoken)
      BY NumberForm
    <2>3. Len(spoken) \in Nat /\ gone \in 0..Len(spoken)
      BY <2>1, <2>2 DEF gone, Numbered
    <2>4. joined[c] \in Nat /\ heard[c] \in Seq({Hello, Dying} \cup Broadcasts)
      BY <1>a, TypeParts, ConstantsTyped, SMTT(60) DEF PipeType, ClientType
    <2> QED
      BY <2>1, <2>3, <2>4
  <1> HIDE DEF h, on, goal
  <1>1. ASSUME UNCHANGED <<heard, stdin, outbox, spoken, broadcasts>>, c \in open, c \in conns, ~dying,
               c \in toGreet' <=> c \in toGreet, joined'[c] = joined[c]
        PROVE  goal
    <2>1. Way(c)' = Way(c) /\ gone' = gone
      BY <1>1 DEF Way, gone
    <2>2. Sent(c, toGreet, Way(c), spoken, gone, joined[c])
      BY <1>1, <1>d
    <2>3. Sent(c, toGreet', Way(c), spoken, gone, joined[c])
      BY <2>2, <1>1, SentOn
    <2> QED
      BY <2>1, <2>3, <1>1 DEF goal
  <1>2. CASE PostStop \/ Exit \/ ExitEnds \/ SetDying \/ SetDone
    <2>1. UNCHANGED <<heard, stdin, outbox, spoken, broadcasts, open, conns, toGreet, joined>> /\ ~dying
      BY <1>2 DEF PostStop, Exit, ExitEnds, SetDying, SetDone, stateVars, userVars, childVars, history
    <2> QED
      BY <2>1, <1>1 DEF goal
  <1>3. CASE CallBegins \/ ChildEnds
    <2>1. open' = {}
      BY <1>3 DEF CallBegins, ChildEnds
    <2> QED
      BY <2>1
  <1>4. CASE CallReturns \/ LoopEnds
    <2>1. UNCHANGED <<heard, stdin, outbox, spoken, broadcasts, open, conns, toGreet, joined, dying>>
      BY <1>4 DEF CallReturns, LoopEnds, stateVars, userVars, childVars, history
    <2> QED
      BY <2>1, <1>1 DEF goal
  <1>5. CASE Snapshot
    <2>1. /\ UNCHANGED <<heard, stdin, spoken, open, conns, joined, dying>>
          /\ outbox' = Work /\ toGreet' = {} /\ broadcasts' = <<>> /\ user = "waiting"
      BY <1>5 DEF Snapshot, childVars, history
    <2>2. Sent(c, toGreet, Way(c), spoken, gone, joined[c])
      BY <2>1, <1>d
    <2>3. Way(c) = h \o stdin \o <<>> /\ on = h \o stdin \o Work
      BY <2>1, <1>b DEF PhaseInv, h, on
    <2>4. /\ Work \in Seq(Round) /\ Rising(c, Work)
          /\ Nrs(c, Work) = (IF c \in toGreet THEN {Hello} ELSE {}) \cup Later(spoken, c, gone)
      BY <2>1, <1>a, WorkSays DEF gone
    <2>5. Parts(c, h, stdin, <<>>) /\ Parts(c, h, stdin, Work)
      BY <2>4, <1>a, <1>c, WayParts, NoRound
    <2>6. /\ Nrs(c, Way(c)) = Nrs(c, h) \cup Nrs(c, stdin)
          /\ Rising(c, h) /\ Rising(c, stdin) /\ Before(Nrs(c, h), Nrs(c, stdin))
      <3>1. Rising(c, Way(c)) /\ Nrs(c, <<>>) = {}
        BY <2>2, <1>a, NoRound DEF Sent
      <3> QED
        BY <2>3, <2>5, <3>1 DEF Parts
    <2>7. Before(Nrs(c, h) \cup Nrs(c, stdin), Nrs(c, Work))
      BY <2>2, <2>4, <2>6 DEF Sent, Before
    <2>8. Rising(c, on)
      BY <2>3, <2>4, <2>5, <2>6, <2>7 DEF Parts
    <2>9. Nrs(c, on) = Nrs(c, Way(c)) \cup (IF c \in toGreet THEN {Hello} ELSE {}) \cup Later(spoken, c, gone)
      <3>1. Nrs(c, on) = Nrs(c, h) \cup Nrs(c, stdin) \cup Nrs(c, Work)
        BY <2>3, <2>5 DEF Parts
      <3> QED
        BY <3>1, <2>4, <2>6
    <2>10. Sent(c, {}, on, spoken, Len(spoken), joined[c])
      <3>1. toGreet \in SUBSET Ids
        BY TypeParts DEF ClientType
      <3> QED
        BY <2>2, <2>8, <2>9, <3>1, <1>a, <1>e, SentTaken
    <2>11. gone' = Len(spoken)
      BY <2>1, <1>e DEF gone
    <2> QED
      BY <2>1, <2>10, <2>11, <1>b DEF goal
  <1>6. CASE Write \/ KillAndReturn
    <2>1. /\ UNCHANGED <<heard, spoken, broadcasts, open, conns, toGreet, joined, dying>>
          /\ stdin' = Written /\ outbox' = <<>>
      BY <1>6 DEF Write, KillAndReturn, stateVars, childVars, history
    <2>2. Sent(c, toGreet, Way(c), spoken, gone, joined[c]) /\ child = "running"
      BY <2>1, <1>d
    <2>3. on = h \o (stdin \o outbox) \o <<>>
      BY <2>1, <2>2 DEF Written, h, on
    <2>4. on = Way(c)
      <3>1. h \o (stdin \o outbox) = Way(c)
        BY <1>b, <1>c, RoundsAssoc, ZenonT(60)
      <3>2. Way(c) \in Seq(Round)
        BY <1>a, WayType
      <3> QED
        BY <2>3, <3>1, <3>2
    <2>5. gone' = gone
      BY <2>1 DEF gone
    <2> QED
      BY <2>1, <2>2, <2>4, <2>5, <1>b DEF goal
  <1>7. CASE OnConnect
    <2> DEFINE d == Head(stdout).id
    <2>1. /\ UNCHANGED <<heard, stdin, outbox, spoken, broadcasts, open, dying>> /\ stdout # <<>> /\ Head(stdout).is = "+"
          /\ conns' = conns \cup {d} /\ toGreet' = toGreet \cup {d} /\ joined' = [joined EXCEPT ![d] = Len(spoken)]
      BY <1>7 DEF OnConnect, Line, userVars, childVars
    <2>2. joined \in [Ids -> 0..(2 * MaxSaid)] /\ c \in Ids
      BY <1>a, TypeParts, ConstantsTyped DEF ClientType
    <2>3. CASE c # d
      <3>1. c \in conns /\ (c \in toGreet' <=> c \in toGreet) /\ joined'[c] = joined[c]
        BY <2>1, <2>2, <2>3
      <3> QED
        BY <2>1, <3>1, <1>1 DEF goal
    <2>4. CASE c = d
      <3>1. stdout \in Seq(Lines)
        BY TypeParts DEF PipeType
      <3>2. 1 \in 1..Len(stdout) /\ Head(stdout) = stdout[1] /\ Head(stdout) \in Lines
        BY <2>1, <3>1, HeadOfLines
      <3>3. stdout[1] = [is |-> "+", id |-> c]
        BY <2>1, <2>4, <3>2 DEF Lines
      <3>4. Fresh(c)
        BY <2>1, <3>2, <3>3, <1>a, <1>t DEF ComingInv
      <3>5. heard[c] = <<>> /\ Nrs(c, stdin) = {} /\ Nrs(c, outbox) = {}
        BY <3>4, <1>a, FreshForm
      <3>6. Nrs(c, h) = {}
        <4>1. h = <<>>
          BY <3>5, <1>a, <1>e, HeardRounds DEF h
        <4> QED
          BY <4>1, <1>a, NoRound
      <3>7. Nrs(c, Way(c)) = {}
        <4>1. Parts(c, h, stdin, outbox)
          BY <1>a, <1>c, WayParts
        <4> QED
          BY <4>1, <3>5, <3>6, <1>b DEF Parts
      <3>8. Rising(c, Way(c))
        BY <3>7 DEF Rising, Nrs
      <3>9. Sent(c, toGreet', Way(c), spoken, gone, Len(spoken))
        BY <2>1, <2>4, <3>7, <3>8, <1>a, <1>e, SentFirst
      <3>10. Way(c)' = Way(c) /\ gone' = gone /\ joined'[c] = Len(spoken)
        BY <2>1, <2>2, <2>4, <1>a DEF Way, gone
      <3> QED
        BY <3>9, <3>10, <2>1 DEF goal
    <2> QED
      BY <2>3, <2>4 DEF goal
  <1>8. CASE OnDisconnect
    <2>1. /\ UNCHANGED <<heard, stdin, outbox, spoken, broadcasts, open, dying, joined>>
          /\ conns' = conns \ {Head(stdout).id} /\ toGreet' = toGreet \ {Head(stdout).id}
      BY <1>8 DEF OnDisconnect, userVars, childVars, history
    <2> QED
      BY <2>1, <1>1 DEF goal
  <1>9. CASE OnMessage \/ OnStop \/ Reply
    <2>1. PICK from \in {0, Head(stdout).id} : Broadcast(from)
      BY <1>9 DEF OnMessage, OnStop, Reply
    <2>2. /\ UNCHANGED <<heard, stdin, outbox, open, conns, toGreet, dying, joined>>
          /\ spoken' = Append(spoken, from) /\ Len(broadcasts') = Len(broadcasts) + 1
      <3>1. broadcasts \in Seq(Message)
        BY TypeParts DEF PipeType
      <3>2. UNCHANGED <<heard, stdin, outbox, open, conns, toGreet, dying, joined>>
        BY <1>9 DEF OnMessage, OnStop, Reply, userVars, childVars
      <3> QED
        BY <2>1, <3>1, <3>2 DEF Broadcast
    <2>3. from \in Ids /\ Len(spoken') = Len(spoken) + 1
      <3>1. spoken' \in Seq(Ids) /\ Len(spoken') = Len(spoken) + 1 /\ spoken'[Len(spoken) + 1] = from
        BY <2>2, <1>e DEF WssTypeOK
      <3> QED
        BY <3>1, <1>e
    <2>4. Sent(c, toGreet, Way(c), spoken, gone, joined[c])
      BY <2>2, <1>d
    <2>5. Sent(c, toGreet, Way(c), Append(spoken, from), gone, joined[c])
      BY <2>3, <2>4, <1>a, <1>e, SentMore
    <2>6. gone' = gone
      <3>1. Len(broadcasts) \in Nat
        BY TypeParts DEF PipeType
      <3> QED
        BY <2>2, <2>3, <3>1, <1>e DEF gone
    <2>7. Way(c)' = Way(c)
      BY <2>2 DEF Way
    <2> QED
      BY <2>2, <2>5, <2>6, <2>7 DEF goal
  <1>10. CASE NoReply \/ Stopping
    <2>1. UNCHANGED <<heard, stdin, outbox, spoken, broadcasts, open, conns, toGreet, joined, dying>>
      BY <1>10 DEF NoReply, Stopping, stateVars, userVars, childVars, history
    <2> QED
      BY <2>1, <1>1 DEF goal
  <1>11. CASE Connect
    <2>1. /\ UNCHANGED <<heard, stdin, outbox, spoken, broadcasts, conns, toGreet, joined, dying>>
          /\ open' = open \cup {idx + 1} /\ idx \in Nat
      BY <1>11, ConstantsTyped DEF Connect, stateVars, userVars, history, WssTypeOK
    <2>2. c # idx + 1
      <3> SUFFICES ASSUME c = idx + 1 PROVE FALSE
        OBVIOUS
      <3>1. c > idx
        BY <2>1
      <3>2. Fresh(c)
        BY <2>1, <3>1, <1>a, <1>t DEF ComingInv
      <3> QED
        BY <2>1, <3>2 DEF Fresh
    <2> QED
      BY <2>1, <2>2, <1>1 DEF goal
  <1>12. ASSUME NEW d \in Clients, Say(d) \/ Disconnect(d) PROVE goal
    <2>1. /\ UNCHANGED <<heard, stdin, outbox, spoken, broadcasts, conns, toGreet, joined, dying>>
          /\ open' \subseteq open
      <3>1. CASE Say(d)
        <4>1. said \in Nat /\ stdout \in Seq(Lines)
          BY ConstantsTyped DEF WssTypeOK
        <4>2. UNCHANGED heard
          BY <3>1, <4>1, SayWhole
        <4> QED
          BY <3>1, <4>2 DEF Say, stateVars, userVars
      <3>2. CASE Disconnect(d)
        BY <3>2 DEF Disconnect, stateVars, userVars, history
      <3> QED
        BY <1>12, <3>1, <3>2
    <2> QED
      BY <2>1, <1>1
  <1>13. ASSUME NEW d \in Ids, Forward(d) PROVE goal
    <2>1. /\ UNCHANGED <<outbox, spoken, broadcasts, open, conns, toGreet, joined, dying>>
          /\ heard' = IF d \in open THEN [heard EXCEPT ![d] = Append(@, Head(stdin).nr)] ELSE heard
          /\ stdin # <<>>
      BY <1>13, <1>t DEF Forward, stateVars, userVars, childVars
    <2>2. Sent(c, toGreet, Way(c), spoken, gone, joined[c])
      BY <2>1, <1>d
    <2> DEFINE i == HeardBy(c, heard'[c])
    <2>3. heard \in [Clients -> Seq({Hello, Dying} \cup Broadcasts)]
      BY TypeParts DEF PipeType
    <2>4. CASE c # d
      <3>1. heard'[c] = heard[c]
        BY <2>1, <2>3, <2>4
      <3>2. Nrs(c, stdin') = Nrs(c, stdin) /\ (Rising(c, stdin) => Rising(c, stdin'))
        BY <2>4, <1>13, <1>a, ForwardTakes
      <3>3. on = h \o stdin' \o outbox
        BY <2>1, <3>1 DEF on, h
      <3>4. Nrs(c, on) = Nrs(c, Way(c)) /\ (Rising(c, Way(c)) => Rising(c, on))
        BY <3>2, <3>3, <1>a, <1>b, <1>c, SentForward
      <3>5. Sent(c, toGreet, on, spoken, gone, joined[c])
        BY <2>2, <3>4, SentOn
      <3>6. gone' = gone
        BY <2>1 DEF gone
      <3> QED
        BY <2>1, <3>5, <3>6, <1>b DEF goal
    <2>5. CASE c = d
      <3> DEFINE n == Head(stdin).nr
                 x == [to |-> {c}, nr |-> n]
      <3>1. n \in {Hello, Dying} \cup Broadcasts
        BY <2>1, <1>c, HeadOfRounds DEF Round
      <3>2. heard'[c] = Append(heard[c], n)
        BY <2>1, <2>3, <2>5, <1>a
      <3>3. i = h \o <<x>>
        BY <3>1, <3>2, <1>a, <1>e, HeardMore, ZenonT(60) DEF h
      <3>4. x \in Round /\ c \in x.to /\ x.nr = n
        BY <3>1, <1>a DEF Round, Ids
      <3> HIDE DEF n, x, i
      <3>5. <<x>> \in Seq(Round) /\ Rising(c, <<x>>) /\ Nrs(c, <<x>>) = {n}
        BY <3>4, <1>a, OneRound
      <3>6. i \in Seq(Round) /\ Nrs(c, i) = Nrs(c, h) \cup {n}
        <4>1. h \o <<x>> \in Seq(Round)
          BY <3>5, <1>c, RoundsConcat, Zenon
        <4>2. Nrs(c, h \o <<x>>) = Nrs(c, h) \cup Nrs(c, <<x>>)
          BY <3>5, <1>a, <1>c, NrsOfConcat, ZenonT(60)
        <4> QED
          BY <4>1, <4>2, <3>3, <3>5
      <3>7. Rising(c, i) <=> Rising(c, h) /\ Before(Nrs(c, h), {n})
        <4>1. Rising(c, h \o <<x>>) <=> Rising(c, h) /\ Rising(c, <<x>>) /\ Before(Nrs(c, h), Nrs(c, <<x>>))
          BY <3>5, <1>a, <1>c, RisingConcat, Zenon
        <4> QED
          BY <4>1, <3>3, <3>5
      <3>8. Nrs(c, stdin) = {n} \cup Nrs(c, stdin') /\ (Rising(c, stdin) => Rising(c, stdin') /\ Before({n}, Nrs(c, stdin')))
        BY <2>5, <1>13, <1>a, ForwardTakes DEF n
      <3>9. Nrs(c, i) \cup Nrs(c, stdin') = Nrs(c, h) \cup Nrs(c, stdin)
        BY <3>6, <3>8
      <3>10. Rising(c, h) /\ Rising(c, stdin) /\ Before(Nrs(c, h), Nrs(c, stdin)) =>
               Rising(c, i) /\ Rising(c, stdin') /\ Before(Nrs(c, i), Nrs(c, stdin'))
        <4>1. Before(Nrs(c, h), Nrs(c, stdin)) => Before(Nrs(c, h), {n}) /\ Before(Nrs(c, h), Nrs(c, stdin'))
          BY <3>8 DEF Before
        <4>2. Before(Nrs(c, h), Nrs(c, stdin')) /\ Before({n}, Nrs(c, stdin')) => Before(Nrs(c, i), Nrs(c, stdin'))
          BY <3>6 DEF Before
        <4> QED
          BY <4>1, <4>2, <3>7, <3>8
      <3>11. on = i \o stdin' \o outbox
        BY <2>1 DEF on, i
      <3>12. Nrs(c, on) = Nrs(c, Way(c)) /\ (Rising(c, Way(c)) => Rising(c, on))
        <4>1. /\ Nrs(c, i \o stdin' \o outbox) = Nrs(c, h \o stdin \o outbox)
              /\ Rising(c, h \o stdin \o outbox) => Rising(c, i \o stdin' \o outbox)
          BY <3>6, <3>9, <3>10, <1>a, <1>c, SentFurther
        <4> QED
          BY <4>1, <3>11, <1>b
      <3>13. Sent(c, toGreet, on, spoken, gone, joined[c])
        BY <2>2, <3>12, SentOn
      <3>14. gone' = gone
        BY <2>1 DEF gone
      <3> QED
        BY <2>1, <3>13, <3>14, <1>b DEF goal
    <2> QED
      BY <2>4, <2>5
  <1>14. CASE EmptyRound
    <2>1. UNCHANGED <<heard, outbox, spoken, broadcasts, open, conns, toGreet, joined, dying>>
      BY <1>14 DEF EmptyRound, stateVars, userVars, childVars, history
    <2>2. Sent(c, toGreet, Way(c), spoken, gone, joined[c])
      BY <2>1, <1>d
    <2>3. Nrs(c, stdin') = Nrs(c, stdin) /\ (Rising(c, stdin) => Rising(c, stdin'))
      BY <1>14, <1>a, EmptyRoundTakes
    <2>4. on = h \o stdin' \o outbox
      BY <2>1 DEF on, h
    <2>5. Nrs(c, on) = Nrs(c, Way(c)) /\ (Rising(c, Way(c)) => Rising(c, on))
      BY <2>3, <2>4, <1>a, <1>b, <1>c, SentForward
    <2>6. Sent(c, toGreet, on, spoken, gone, joined[c])
      BY <2>2, <2>5, SentOn
    <2>7. gone' = gone
      BY <2>1 DEF gone
    <2> QED
      BY <2>1, <2>6, <2>7, <1>b DEF goal
  <1>15. CASE UNCHANGED vars
    <2>1. UNCHANGED <<heard, stdin, outbox, spoken, broadcasts, open, conns, toGreet, joined, dying>>
      BY <1>15 DEF vars, stateVars, userVars, childVars, history
    <2> QED
      BY <2>1, <1>1 DEF goal
  <1> QED
    BY <1>2, <1>3, <1>4, <1>5, <1>6, <1>7, <1>8, <1>9, <1>10, <1>11, <1>12, <1>13, <1>14, <1>15, NextCases DEF goal

LEMMA WssInvInit == Init => WssTypeOK /\ WssInv
  <1> SUFFICES ASSUME Init PROVE WssTypeOK /\ WssInv
    OBVIOUS
  <1>1. WssTypeOK /\ SaidInv /\ PhaseInv /\ ConnsFollow
    BY TypeInit, PhaseAndFollow
  <1>2. NumberInv
    BY DEF Init, NumberInv
  <1>3. stdout = <<>> /\ stdin = <<>> /\ outbox = <<>> /\ conns = {} /\ heard = [c \in Clients |-> <<>>]
    BY DEF Init
  <1>4. ComingInv
    <2>1. ComesOnce(stdout, idx)
      BY <1>3 DEF ComesOnce
    <2>2. \A c \in Clients : Fresh(c)
      BY <1>1, <1>3, NoRound, FreshForm
    <2> QED
      BY <2>1, <2>2, ComingForm
  <1>5. EveryoneHearsAll
    BY <1>3 DEF EveryoneHearsAll
  <1> QED
    BY <1>1, <1>2, <1>4, <1>5 DEF WssInv

LEMMA WssInvStep == WssTypeOK /\ WssInv /\ [Next]_vars => (WssTypeOK /\ WssInv)'
  <1> SUFFICES ASSUME WssTypeOK, WssInv, [Next]_vars PROVE (WssTypeOK /\ WssInv)'
    OBVIOUS
  <1>1. SaidInv /\ PhaseInv /\ NumberInv /\ ComingInv /\ ConnsFollow /\ EveryoneHearsAll
    BY DEF WssInv
  <1>2. WssTypeOK' /\ SaidInv'
    BY <1>1, TypeStep
  <1>3. PhaseInv' /\ ConnsFollow'
    BY <1>1, PhaseAndFollow
  <1>4. NumberInv'
    BY <1>1, <1>2, NumberStep
  <1>5. ComingInv'
    BY <1>1, <1>2, ComingStep
  <1>6. EveryoneHearsAll'
    BY <1>1, <1>2, <1>4, HearStep
  <1> QED
    BY <1>2, <1>3, <1>4, <1>5, <1>6 DEF WssInv

\* Whoever is connected, and known to be, is greeted once and before all else, and from
\* then on what it has got, what is in the pipe, in the hands of the user's code of
\* wss.cc and in the State is all that the others and the plugin have said since it
\* came, each once, in the order in which it was said, and nothing of its own, until
\* it is time to die or a client has said something with a line break.
THEOREM AllIsHeard == Spec => []EveryoneHearsAll
  <1>1. WssTypeOK /\ WssInv => EveryoneHearsAll
    BY DEF WssInv
  <1> QED
    BY WssInvInit, WssInvStep, <1>1, PTL DEF Spec

-----------------------------------------------------------------------------
(* The end of the program: what it takes for StopEnds.                     *)

\* A child that outlives the signal to terminate has been sent its SIGTERM, by the
\* user's code or by the termination, whichever of the call and the signal came first.
ChildIsTold == child = "running" /\ main # "up" => term

\* When the program is over, so are the keeper, its child and the user's code.
NothingRunsOn == main = "out" => keeper = "over" /\ child = "none" /\ user = "no"

\* There is a child, or what is left of one, for as long as a call is made; and the
\* user's code does not return without a Kill.
EndInv ==
  /\ child = "none" <=> keeper # "calling"
  /\ user = "no" <=> keeper # "calling"
  /\ user = "over" => term
  /\ keeper = "calling" /\ main # "up" => term
  /\ main = "out" => keeper = "over"

LEMMA EndStep == WssTypeOK /\ EndInv /\ [Next]_vars => EndInv'
  <1> SUFFICES ASSUME WssTypeOK, EndInv, [Next]_vars PROVE EndInv'
    OBVIOUS
  <1>a. ControlType /\ FlagType
    BY TypeParts
  <1>b. ASSUME UNCHANGED <<main, keeper, user, child, term>> PROVE EndInv'
    BY <1>b DEF EndInv
  <1>1. CASE PostStop \/ Exit \/ ExitEnds \/ SetDying \/ SetDone
    <2>1. CASE PostStop \/ SetDying \/ SetDone
      BY <2>1, <1>b DEF PostStop, SetDying, SetDone, userVars
    <2>2. CASE Exit
      <3>1. main' = "exiting" /\ UNCHANGED <<keeper, user, child>> /\ (term' <=> term \/ Subscribed)
        BY <2>2, Zenon DEF Exit, userVars
      <3>2. keeper = "calling" => Subscribed \/ term
        BY <1>a DEF Subscribed, EndInv, ControlType
      <3> QED
        BY <3>1, <3>2, Zenon DEF EndInv
    <2>3. CASE ExitEnds
      BY <2>3 DEF ExitEnds, userVars, EndInv
    <2> QED
      BY <1>1, <2>1, <2>2, <2>3
  <1>2. CASE CallBegins
    BY <1>2, <1>a DEF CallBegins, EndInv, ControlType
  <1>3. CASE CallReturns \/ LoopEnds
    BY <1>3 DEF CallReturns, LoopEnds, userVars, EndInv
  <1>4. CASE Snapshot
    BY <1>4 DEF Snapshot, EndInv
  <1>5. CASE Write
    BY <1>5 DEF Write, EndInv
  <1>6. CASE KillAndReturn
    BY <1>6 DEF KillAndReturn, EndInv
  <1>7. CASE OnConnect \/ OnDisconnect \/ OnMessage \/ Reply \/ OnStop \/ NoReply \/ Stopping
    BY <1>7, <1>b DEF OnConnect, OnDisconnect, OnMessage, Reply, OnStop, NoReply, Stopping, userVars
  <1>8. CASE Connect \/ EmptyRound \/ (\E c \in Clients : Say(c) \/ Disconnect(c)) \/ \E c \in Ids : Forward(c)
    BY <1>8, <1>b DEF Connect, EmptyRound, Say, Disconnect, Forward, userVars
  <1>9. CASE ChildEnds
    BY <1>9 DEF ChildEnds, userVars, EndInv
  <1>10. CASE UNCHANGED vars
    BY <1>10, <1>b DEF vars, userVars
  <1> QED
    BY <1>1, <1>2, <1>3, <1>4, <1>5, <1>6, <1>7, <1>8, <1>9, <1>10, NextCases

\* The safety half of StopEnds: nobody waits for a child that was not told to end, and
\* the program is not over before all that it runs is.
THEOREM EndIsClean == Spec => [](ChildIsTold /\ NothingRunsOn)
  <1>1. Init => EndInv
    BY DEF Init, EndInv
  <1>2. EndInv => ChildIsTold /\ NothingRunsOn
    BY DEF EndInv, ChildIsTold, NothingRunsOn
  <1> QED
    BY <1>1, <1>2, WssTypeInvariant, EndStep, PTL DEF Spec
=============================================================================
