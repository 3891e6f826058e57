----------------------------- MODULE Popen2Proofs -----------------------------
(***************************************************************************)
(* Proofs about Popen2 and TrackedPopen2, for any streams, killers, sizes   *)
(* of pipes and numbers of pieces and writes.                               *)
(***************************************************************************)
EXTENDS TrackedPopen2, SequenceTheorems, WellFoundedInduction, TLAPS

\* The child is waited for once, readers are started once, and who has a part in
\* the call is done with it before the call is over.
CallInv ==
  /\ child = "reaped" <=> parent \in {"mark", "tell", "join", "close", "returned"}
  /\ user = "done" => \A k \in Killers : killer[k] = "idle"
  /\ parent \in {"close", "returned"} => user = "done" /\ \A s \in Streams : reader[s] = "done"

\* The program's threads and the child, by their actions.
LEMMA NextCases ==
  ASSUME NEW P,
         Calling => P, Write => P, UserCodeReturns => P, Writing => P,
         \A k \in Killers : CheckDone(k) \/ Kill(k) => P,
         \A s \in Streams : Reading(s) \/ ChildWrites(s) => P,
         ChildReads => P, ChildEnds => P, UNCHANGED vars => P,
         [Next]_vars
  PROVE  P
  BY DEF Next, Program, UsersCode, Killing, ChildWorks, Over

-----------------------------------------------------------------------------
(* Type correctness.                                                       *)

LEMMA FunctionsAreSequences ==
  ASSUME NEW S, NEW n \in Nat, NEW f \in [1..n -> S]
  PROVE  f \in Seq(S)
  BY SeqDef

LEMMA CallingKeepsTypes == ASSUME Popen2TypeOK, Calling PROVE Popen2TypeOK'
  <1> USE Popen2Assumption DEF Popen2TypeOK, Killers, userVars, killVars, childVars, readVars
  <1>1. CASE Fork
    <2>1. owed' \in Seq(Streams)
      <3>1. owed' \in [1..Greeting -> Streams] /\ Greeting \in Nat
        BY <1>1 DEF Fork
      <3> QED
        BY <3>1, FunctionsAreSequences
    <2> QED
      BY <1>1, <2>1 DEF Fork
  <1>2. CASE StartUserCode
    BY <1>2 DEF StartUserCode
  <1>3. CASE SpawnReaders
    BY <1>3 DEF SpawnReaders
  <1>4. CASE WaitPid
    BY <1>4 DEF WaitPid
  <1>5. CASE MarkDone
    BY <1>5 DEF MarkDone
  <1>6. CASE TellReaders
    BY <1>6 DEF TellReaders
  <1>7. CASE Join \/ Close
    BY <1>7 DEF Join, Close
  <1> QED
    BY <1>1, <1>2, <1>3, <1>4, <1>5, <1>6, <1>7 DEF Calling

LEMMA UserKeepsTypes ==
  ASSUME Popen2TypeOK, Write \/ Writing \/ UserCodeReturns
  PROVE  Popen2TypeOK'
  <1> USE Popen2Assumption DEF Popen2TypeOK, Killers, userVars, killVars, childVars, readVars
  <1>1. CASE Write
    BY <1>1 DEF Write
  <1>2. CASE Written
    BY <1>2 DEF Written
  <1>3. CASE BrokenPipe
    BY <1>3 DEF BrokenPipe
  <1>4. CASE UserCodeReturns
    BY <1>4 DEF UserCodeReturns
  <1> QED
    BY <1>1, <1>2, <1>3, <1>4 DEF Writing

LEMMA KillersKeepTypes ==
  ASSUME Popen2TypeOK, NEW k \in Killers, CheckDone(k) \/ Kill(k)
  PROVE  Popen2TypeOK'
  <1> USE DEF Popen2TypeOK, userVars, killVars, childVars, readVars
  <1>1. CASE CheckDone(k)
    BY <1>1 DEF CheckDone
  <1>2. CASE Kill(k)
    BY <1>2 DEF Kill
  <1> QED
    BY <1>1, <1>2

LEMMA ChildKeepsTypes ==
  ASSUME Popen2TypeOK, ChildReads \/ ChildEnds \/ \E s \in Streams : ChildWrites(s)
  PROVE  Popen2TypeOK'
  <1> USE Popen2Assumption DEF Popen2TypeOK, Killers, userVars, killVars, childVars, readVars
  <1>1. CASE ChildReads
    <2>1. owed' \in Seq(Streams)
      <3>1. owed' \in [1..1 -> Streams] /\ 1 \in Nat
        BY <1>1 DEF ChildReads
      <3> QED
        BY <3>1, FunctionsAreSequences
    <2> QED
      BY <1>1, <2>1 DEF ChildReads
  <1>2. CASE ChildEnds
    BY <1>2 DEF ChildEnds
  <1>3. ASSUME NEW s \in Streams, ChildWrites(s)
        PROVE  Popen2TypeOK'
    <2>1. PICK ends \in BOOLEAN :
            LET piece == [nr |-> Len(written[s]) + 1, endsLine |-> ends]
            IN  /\ pipe' = [pipe EXCEPT ![s] = Append(@, piece)]
                /\ written' = [written EXCEPT ![s] = Append(@, piece)]
      BY <1>3 DEF ChildWrites
    <2> DEFINE piece == [nr |-> Len(written[s]) + 1, endsLine |-> ends]
    <2>2. piece \in Pieces
      BY DEF Pieces
    <2> HIDE DEF piece
    <2>3. written' \in [Streams -> Seq(Pieces)]
      BY <2>1, <2>2 DEF piece
    <2>4. pipe' \in [Streams -> Seq(Pieces)] /\ \A t \in Streams : Len(pipe'[t]) <= PipeCap
      <3>1. pipe' = [pipe EXCEPT ![s] = Append(@, piece)]
        BY <2>1 DEF piece
      <3>2. Len(pipe[s]) < PipeCap
        BY <1>3 DEF ChildWrites
      <3> QED
        BY <2>2, <3>1, <3>2, SMTT(60)
    <2>5. owed' \in Seq(Streams)
      BY <1>3 DEF ChildWrites
    <2> QED
      BY <1>3, <2>3, <2>4, <2>5, ZenonT(60) DEF ChildWrites
  <1> QED
    BY <1>1, <1>2, <1>3

LEMMA ReadersKeepTypes ==
  ASSUME Popen2TypeOK, NEW s \in Streams, Reading(s)
  PROVE  Popen2TypeOK'
  <1> USE DEF Popen2TypeOK, userVars, killVars, childVars, readVars
  <1>1. CASE Read(s)
    <2>1. Head(pipe[s]) \in Pieces
      BY <1>1 DEF Read
    <2>2. pipe' \in [Streams -> Seq(Pieces)] /\ \A t \in Streams : Len(pipe'[t]) <= PipeCap
      BY <1>1, Popen2Assumption DEF Read
    <2> DEFINE piece == Head(pipe[s])
    <2>3. group' \in [Streams -> Seq(Pieces)] /\ lines' \in [Streams -> Seq(Seq(Pieces))]
      <3>1. Feed(s, piece)
        BY <1>1 DEF Read
      <3>2. Append(group[s], piece) \in Seq(Pieces) /\ <<>> \in Seq(Pieces)
        BY <2>1
      <3> HIDE DEF piece
      <3>3. CASE piece.endsLine
        <4>1. Append(lines[s], Append(group[s], piece)) \in Seq(Seq(Pieces))
          BY <3>2
        <4> QED
          BY <3>1, <3>2, <3>3, <4>1 DEF Feed
      <3>4. CASE ~piece.endsLine
        BY <3>1, <3>2, <3>4 DEF Feed
      <3> QED
        BY <3>3, <3>4
    <2> QED
      BY <1>1, <2>2, <2>3, SMTT(60) DEF Read
  <1>2. CASE Stop(s)
    <2>1. group' \in [Streams -> Seq(Pieces)] /\ lines' \in [Streams -> Seq(Seq(Pieces))]
      BY <1>2 DEF Stop
    <2> QED
      BY <1>2, <2>1 DEF Stop
  <1> QED
    BY <1>1, <1>2 DEF Reading

LEMMA TypeInit == Init => Popen2TypeOK
  <1> SUFFICES ASSUME Init PROVE Popen2TypeOK
    OBVIOUS
  <1>1. <<>> \in Seq(Pieces) /\ <<>> \in Seq(Seq(Pieces)) /\ <<>> \in Seq(Streams)
    OBVIOUS
  <1>2. written \in [Streams -> Seq(Pieces)] /\ group \in [Streams -> Seq(Pieces)]
    BY <1>1 DEF Init
  <1>3. lines \in [Streams -> Seq(Seq(Pieces))]
    BY <1>1 DEF Init
  <1>4. pipe \in [Streams -> Seq(Pieces)] /\ \A s \in Streams : Len(pipe[s]) <= PipeCap
    BY <1>1, Popen2Assumption DEF Init
  <1>5. writes \in 0..MaxWrites /\ stdin \in 0..PipeCap
    BY Popen2Assumption DEF Init
  <1>6. killer \in [Killers -> {"idle", "kill"}] /\ sent \in [Killers -> Nat]
    BY DEF Init
  <1>7. reader \in [Streams -> {"no", "polling", "done"}] /\ told \subseteq Streams
    BY DEF Init
  <1> QED
    BY <1>1, <1>2, <1>3, <1>4, <1>5, <1>6, <1>7 DEF Init, Popen2TypeOK

LEMMA TypeNext == Popen2TypeOK /\ [Next]_vars => Popen2TypeOK'
  <1> SUFFICES ASSUME Popen2TypeOK, [Next]_vars PROVE Popen2TypeOK'
    OBVIOUS
  <1>1. UNCHANGED vars => Popen2TypeOK'
    BY DEF vars, userVars, killVars, childVars, readVars, Popen2TypeOK
  <1> QED
    BY <1>1, NextCases, CallingKeepsTypes, UserKeepsTypes, KillersKeepTypes, ChildKeepsTypes, ReadersKeepTypes

\* The variables of a call keep their types, and its pipes their bounds.
THEOREM CallTypeInvariant == Spec => []Popen2TypeOK
  BY TypeInit, TypeNext, PTL DEF Spec

-----------------------------------------------------------------------------
(* The end of the call.                                                    *)

LEMMA CallInit == Init => CallInv
  BY DEF Init, CallInv

LEMMA CallNext == Popen2TypeOK /\ CallInv /\ [Next]_vars => CallInv'
  <1> SUFFICES ASSUME Popen2TypeOK, CallInv, [Next]_vars PROVE CallInv'
    OBVIOUS
  <1> USE DEF CallInv, Popen2TypeOK, userVars, killVars, childVars, readVars
  <1>1. Calling => CallInv'
    BY DEF Calling, Fork, StartUserCode, SpawnReaders, WaitPid, MarkDone, TellReaders, Join, Close
  <1>2. Write \/ Writing \/ UserCodeReturns => CallInv'
    BY DEF Write, Writing, Written, BrokenPipe, UserCodeReturns
  <1>3. ASSUME NEW k \in Killers, CheckDone(k) \/ Kill(k)
        PROVE  CallInv'
    BY <1>3 DEF CheckDone, MayKill, Kill
  <1>4. ChildReads \/ ChildEnds => CallInv'
    BY DEF ChildReads, ChildEnds
  <1>5. ASSUME NEW s \in Streams, Reading(s) \/ ChildWrites(s)
        PROVE  CallInv'
    BY <1>5 DEF Reading, Read, Stop, ChildWrites
  <1>6. UNCHANGED vars => CallInv'
    BY DEF vars
  <1> QED
    BY <1>1, <1>2, <1>3, <1>4, <1>5, <1>6, NextCases

LEMMA CallInvariant == Spec => [](Popen2TypeOK /\ CallInv)
  BY TypeInit, TypeNext, CallInit, CallNext, PTL DEF Spec

\* No thread, no callback and no child of a call is there any more when it lets go
\* of its pipes and of the runtime context: C5T_POPEN2 may keep these on its stack.
THEOREM NobodyIsLeft == Spec => []NobodyOutlivesTheCall
  <1>1. CallInv => NobodyOutlivesTheCall
    BY DEF CallInv, NobodyOutlivesTheCall
  <1> QED
    BY <1>1, CallInvariant, PTL

-----------------------------------------------------------------------------
(* The tracked call.                                                       *)

\* Whatever the manager does, the call does what a call may do.
LEMMA TrackedStep == [TrackedNext]_allVars => [Next]_vars
  <1> SUFFICES ASSUME [TrackedNext]_allVars PROVE [Next]_vars
    OBVIOUS
  <1>1. User \in Killers /\ Others \subseteq Killers
    BY DEF Killers
  <1>2. CASE ~crashed /\ (TrackingAdd \/ TrackingRemove \/ Initiate)
    BY <1>2 DEF TrackingAdd, TrackingRemove, Initiate
  <1>3. CASE ~crashed /\ Subscribe
    BY <1>1, <1>3 DEF Subscribe, Next, Program, UsersCode
  <1>4. CASE ~crashed /\ Unsubscribe
    BY <1>4 DEF Unsubscribe, Next, Program, UsersCode
  <1>5. CASE ~crashed /\ Callback
    BY <1>1, <1>5 DEF Callback, Next, Program, UsersCode
  <1>6. CASE ~crashed /\ Inside
    BY <1>1, <1>6 DEF Inside, Next, Program, UsersCode
  <1>7. CASE TrackedOver \/ UNCHANGED allVars
    BY <1>7 DEF TrackedOver, allVars
  <1> QED
    BY <1>2, <1>3, <1>4, <1>5, <1>6, <1>7 DEF TrackedNext

\* C5T_LIFETIME_MANAGER_TRACKED_POPEN2 makes a call of C5T_POPEN2: what holds of all
\* calls holds of tracked ones.
THEOREM TrackedCallIsACall == TrackedSpec => Spec
  <1>1. TrackedInit => Init
    BY DEF TrackedInit
  <1> QED
    BY <1>1, TrackedStep, PTL DEF TrackedSpec, Spec

\* When a tracked call lets go of its runtime context, the callback of the termination
\* is not using it.
THEOREM NobodyIsLeftOfTheTracked == TrackedSpec => []NobodyOutlivesTheCall
  BY TrackedCallIsACall, NobodyIsLeft, PTL

\* What TrackedTypeOK says of the manager's part.
ScopeInv ==
  /\ tracked \in {"no", "yes", "removed"} /\ terminating \in BOOLEAN
  /\ scope \in {"none", "on", "off"} /\ (scope = "on" => user \in {"running", "writing"})
  /\ (user = "done" => scope = "off")
  /\ notice \in {"no", "due", "called"} /\ (notice # "no" => terminating)

LEMMA ScopeNext == ScopeInv /\ [TrackedNext]_allVars => ScopeInv'
  <1> SUFFICES ASSUME ScopeInv, [TrackedNext]_allVars PROVE ScopeInv'
    OBVIOUS
  <1> USE DEF ScopeInv, vars, trackedVars, userVars, killVars, childVars, readVars
  <1>1. CASE TrackingAdd \/ TrackingRemove \/ Initiate
    BY <1>1 DEF TrackingAdd, TrackingRemove, Initiate
  <1>2. CASE Subscribe
    BY <1>2 DEF Subscribe, CheckDone
  <1>3. CASE Unsubscribe
    BY <1>3 DEF Unsubscribe, UserCodeReturns
  <1>4. CASE Callback
    BY <1>4 DEF Callback, CheckDone
  <1>5. CASE Inside
    <2>1. UNCHANGED trackedVars
      BY <1>5 DEF Inside
    <2>2. CASE Calling
      BY <2>1, <2>2 DEF Calling, Fork, StartUserCode, SpawnReaders, WaitPid, MarkDone, TellReaders, Join, Close
    <2>3. CASE Write \/ CheckDone(User) \/ Writing
      BY <2>1, <2>3 DEF Write, CheckDone, Writing, Written, BrokenPipe
    <2>4. CASE Killing \/ \E s \in Streams : Reading(s)
      BY <2>1, <2>4 DEF Killing, Kill, Reading, Read, Stop
    <2>5. CASE ChildWorks \/ ChildEnds
      BY <2>1, <2>5 DEF ChildWorks, ChildReads, ChildWrites, ChildEnds
    <2> QED
      BY <1>5, <2>2, <2>3, <2>4, <2>5 DEF Inside
  <1>6. CASE TrackedOver \/ UNCHANGED allVars
    BY <1>6 DEF TrackedOver, allVars
  <1> QED
    BY <1>1, <1>2, <1>3, <1>4, <1>5, <1>6 DEF TrackedNext

\* The subscription is there only while the user's code runs, and a callback is due
\* only once the program terminates.
THEOREM TrackedTypeInvariant == TrackedSpec => []TrackedTypeOK
  <1>1. TrackedInit => ScopeInv
    BY DEF TrackedInit, Init, ScopeInv
  <1>2. Popen2TypeOK /\ ScopeInv => TrackedTypeOK
    BY DEF ScopeInv, TrackedTypeOK
  <1>3. TrackedSpec => []Popen2TypeOK
    BY TrackedCallIsACall, CallTypeInvariant, PTL
  <1>4. TrackedSpec => []ScopeInv
    BY <1>1, ScopeNext, PTL DEF TrackedSpec
  <1> QED
    BY <1>2, <1>3, <1>4, PTL

-----------------------------------------------------------------------------
(* FlattenSeq.                                                             *)

\* Induction, on a set of numbers instead of a predicate.
LEMMA SetInduction ==
  ASSUME NEW K, K \subseteq Nat, 0 \in K, \A n \in K : n + 1 \in K
  PROVE  K = Nat
<1> SUFFICES ASSUME Nat \ K # {} PROVE FALSE
  OBVIOUS
<1>1. PICK m \in Nat \ K : \A k \in Nat \ K : <<k, m>> \notin OpToRel(<, Nat)
  BY WFMin, NatLessThanWellFounded, Zenon
<1>2. m \in Nat \ K /\ \A k \in Nat \ K : ~ (k < m)
  BY <1>1, Zenon DEF OpToRel
<1>3. m # 0 /\ m - 1 \in Nat /\ m - 1 < m /\ (m - 1) + 1 = m
  BY <1>2
<1> QED
  BY <1>2, <1>3

\* What FlattenSeq computes from the left: f[i] is the first i sequences joined.
Joined(f, ss, n) == f = [i \in 1..n |-> IF i = 1 THEN ss[i] ELSE f[i - 1] \o ss[i]]

LEMMA JoinedAt ==
  ASSUME NEW f, NEW ss, NEW n, Joined(f, ss, n), NEW i \in 1..n
  PROVE  f[i] = IF i = 1 THEN ss[i] ELSE f[i - 1] \o ss[i]
BY Zenon DEF Joined

LEMMA JoinedExists == ASSUME NEW ss, NEW n \in Nat PROVE \E f : Joined(f, ss, n)
<1> DEFINE K == {k \in Nat : \E f : Joined(f, ss, k)}
<1>1. 0 \in K
  <2>1. Joined([i \in 1..0 |-> {}], ss, 0)
    BY DEF Joined
  <2> QED
    BY <2>1
<1>2. ASSUME NEW k \in K PROVE k + 1 \in K
  <2>1. PICK f : Joined(f, ss, k)
    OBVIOUS
  <2> DEFINE g == [i \in 1..(k + 1) |-> IF i = k + 1 THEN IF i = 1 THEN ss[i] ELSE f[i - 1] \o ss[i] ELSE f[i]]
  <2>2. k \in Nat
    OBVIOUS
  <2>3. ASSUME NEW i \in 1..(k + 1) PROVE g[i] = IF i = 1 THEN ss[i] ELSE g[i - 1] \o ss[i]
    <3>1. CASE i = k + 1
      BY <2>2, <3>1
    <3>2. CASE i # k + 1
      <4>1. i \in 1..k /\ (i # 1 => i - 1 \in 1..k /\ i - 1 # k + 1)
        BY <2>2, <3>2
      <4>2. f[i] = IF i = 1 THEN ss[i] ELSE f[i - 1] \o ss[i]
        BY <2>1, <4>1, JoinedAt
      <4>3. g[i] = f[i] /\ (i # 1 => g[i - 1] = f[i - 1])
        BY <2>2, <4>1
      <4> QED
        BY <4>2, <4>3
    <3> QED
      BY <3>1, <3>2
  <2>4. Joined(g, ss, k + 1)
    BY <2>3 DEF Joined
  <2> QED
    BY <2>2, <2>4
<1> HIDE DEF K
<1>3. K = Nat
  BY <1>1, <1>2, SetInduction DEF K
<1> QED
  BY <1>3 DEF K

LEMMA JoinedAgree ==
  ASSUME NEW ss, NEW tt, NEW n \in Nat, NEW m \in Nat, NEW f, NEW g, NEW k \in Nat, k <= m, k <= n,
         Joined(f, ss, n), Joined(g, tt, m), \A i \in 1..k : ss[i] = tt[i]
  PROVE  \A i \in 1..k : f[i] = g[i]
<1> DEFINE K == {j \in Nat : j \in 1..k => f[j] = g[j]}
<1>1. 0 \in K
  OBVIOUS
<1>2. ASSUME NEW j \in K PROVE j + 1 \in K
  <2>1. j \in Nat
    OBVIOUS
  <2> SUFFICES ASSUME j + 1 \in 1..k PROVE f[j + 1] = g[j + 1]
    BY <2>1
  <2>2. /\ f[j + 1] = IF j + 1 = 1 THEN ss[j + 1] ELSE f[(j + 1) - 1] \o ss[j + 1]
        /\ g[j + 1] = IF j + 1 = 1 THEN tt[j + 1] ELSE g[(j + 1) - 1] \o tt[j + 1]
    <3>1. j + 1 \in 1..n /\ j + 1 \in 1..m
      BY <2>1
    <3> QED
      BY <3>1, JoinedAt
  <2>3. (j + 1) - 1 = j /\ (j + 1 # 1 => j \in 1..k)
    BY <2>1
  <2> QED
    BY <2>1, <2>2, <2>3
<1> HIDE DEF K
<1>3. K = Nat
  BY <1>1, <1>2, SetInduction, ZenonT(60) DEF K
<1> QED
  BY <1>3 DEF K

\* The recursive function inside FlattenSeq is one that satisfies its equation.
LEMMA FlattenIsJoined ==
  ASSUME NEW ss, Len(ss) \in Nat, Len(ss) # 0
  PROVE  \E f : Joined(f, ss, Len(ss)) /\ FlattenSeq(ss) = f[Len(ss)]
<1> DEFINE h == CHOOSE f : f = [i \in 1..Len(ss) |-> IF i = 1 THEN ss[i] ELSE f[i - 1] \o ss[i]]
<1>1. FlattenSeq(ss) = h[Len(ss)]
  BY DEF FlattenSeq
<1>2. h = [i \in 1..Len(ss) |-> IF i = 1 THEN ss[i] ELSE h[i - 1] \o ss[i]]
  <2>1. \E f : f = [i \in 1..Len(ss) |-> IF i = 1 THEN ss[i] ELSE f[i - 1] \o ss[i]]
    BY JoinedExists DEF Joined
  <2> QED
    BY <2>1, Zenon
<1> QED
  BY <1>1, <1>2, ZenonT(60) DEF Joined

LEMMA JoinedIsSeq ==
  ASSUME NEW S, NEW ss, NEW n \in Nat, \A i \in 1..n : ss[i] \in Seq(S), NEW f, Joined(f, ss, n)
  PROVE  \A i \in 1..n : f[i] \in Seq(S)
<1> DEFINE K == {j \in Nat : j \in 1..n => f[j] \in Seq(S)}
<1>1. 0 \in K
  OBVIOUS
<1>2. ASSUME NEW j \in K PROVE j + 1 \in K
  <2>1. j \in Nat
    OBVIOUS
  <2> SUFFICES ASSUME j + 1 \in 1..n PROVE f[j + 1] \in Seq(S)
    BY <2>1
  <2>2. f[j + 1] = IF j + 1 = 1 THEN ss[j + 1] ELSE f[(j + 1) - 1] \o ss[j + 1]
    BY JoinedAt
  <2>3. (j + 1) - 1 = j /\ (j + 1 # 1 => j \in 1..n)
    BY <2>1
  <2>4. ss[j + 1] \in Seq(S)
    OBVIOUS
  <2>5. CASE j + 1 = 1
    BY <2>2, <2>4, <2>5
  <2>6. CASE j + 1 # 1
    <3>1. f[j] \in Seq(S)
      BY <2>3, <2>6
    <3> QED
      BY <2>2, <2>3, <2>4, <2>6, <3>1, ConcatProperties
  <2> QED
    BY <2>5, <2>6
<1> HIDE DEF K
<1>3. K = Nat
  BY <1>1, <1>2, SetInduction DEF K
<1> QED
  BY <1>3 DEF K

LEMMA FlattenType ==
  ASSUME NEW S, NEW ss \in Seq(Seq(S))
  PROVE  FlattenSeq(ss) \in Seq(S)
<1>1. Len(ss) \in Nat
  BY LenProperties
<1>2. CASE Len(ss) = 0
  <2>1. ss = <<>>
    BY <1>2, EmptySeq
  <2> QED
    BY <1>2, <2>1, EmptySeq DEF FlattenSeq
<1>3. CASE Len(ss) # 0
  <2>1. PICK f : Joined(f, ss, Len(ss)) /\ FlattenSeq(ss) = f[Len(ss)]
    BY <1>1, <1>3, FlattenIsJoined
  <2>2. Len(ss) \in 1..Len(ss) /\ Len(ss) <= Len(ss)
    BY <1>1, <1>3
  <2> QED
    <3>1. \A i \in 1..Len(ss) : ss[i] \in Seq(S)
      BY ElementOfSeq
    <3> QED
      BY <1>1, <2>1, <2>2, <3>1, JoinedIsSeq
<1> QED
  BY <1>2, <1>3

LEMMA JoinedOneMore ==
  ASSUME NEW ss, NEW tt, NEW n \in Nat, n # 0, \A i \in 1..n : ss[i] = tt[i],
         NEW f, Joined(f, ss, n), NEW g, Joined(g, tt, n + 1)
  PROVE  g[n + 1] = f[n] \o tt[n + 1]
<1>1. n + 1 \in 1..(n + 1) /\ n \in 1..n /\ n <= n /\ n <= n + 1 /\ n + 1 \in Nat /\ n + 1 # 1 /\ (n + 1) - 1 = n
  OBVIOUS
<1>2. \A i \in 1..(n + 1) : g[i] = IF i = 1 THEN tt[i] ELSE g[i - 1] \o tt[i]
  BY JoinedAt
<1>3. f[n] = g[n]
  BY <1>1, JoinedAgree, SMTT(60)
<1> QED
  BY <1>1, <1>2, <1>3

\* A sequence more at the end of the list is joined at the end of the result.
LEMMA FlattenAppend ==
  ASSUME NEW S, NEW ss \in Seq(Seq(S)), NEW x \in Seq(S)
  PROVE  FlattenSeq(Append(ss, x)) = FlattenSeq(ss) \o x
<1> DEFINE tt == Append(ss, x)
<1>1. /\ Len(ss) \in Nat /\ Len(tt) = Len(ss) + 1 /\ tt[Len(ss) + 1] = x
      /\ \A i \in 1..Len(ss) : tt[i] = ss[i]
  BY LenProperties, AppendProperties
<1> HIDE DEF tt
<1>2. PICK g : Joined(g, tt, Len(tt)) /\ FlattenSeq(tt) = g[Len(tt)]
  BY <1>1, FlattenIsJoined
<1>3. g[Len(ss) + 1] = IF Len(ss) + 1 = 1 THEN x ELSE g[(Len(ss) + 1) - 1] \o x
  <2>1. Len(ss) + 1 \in 1..Len(tt)
    BY <1>1
  <2> QED
    BY <1>1, <1>2, <2>1, JoinedAt
<1>4. CASE Len(ss) = 0
  <2>1. ss = <<>>
    BY <1>4, EmptySeq
  <2>2. FlattenSeq(ss) = <<>>
    BY <1>4, <2>1 DEF FlattenSeq
  <2> QED
    BY <1>1, <1>2, <1>3, <1>4, <2>2, ConcatEmptySeq DEF tt
<1>5. CASE Len(ss) # 0
  <2>1. PICK f : Joined(f, ss, Len(ss)) /\ FlattenSeq(ss) = f[Len(ss)]
    BY <1>1, <1>5, FlattenIsJoined
  <2>2. g[Len(ss) + 1] = f[Len(ss)] \o tt[Len(ss) + 1]
    <3>1. \A i \in 1..Len(ss) : ss[i] = tt[i]
      BY <1>1
    <3>2. Joined(g, tt, Len(ss) + 1)
      BY <1>1, <1>2
    <3> QED
      BY <1>1, <1>5, <2>1, <3>1, <3>2, JoinedOneMore
  <2> QED
    BY <1>1, <1>2, <2>1, <2>2 DEF tt
<1> QED
  BY <1>1, <1>4, <1>5

-----------------------------------------------------------------------------
(* What the readers make of the child's output.                            *)

LEMMA HeadAndTail ==
  ASSUME NEW S, NEW p \in Seq(S), p # <<>>
  PROVE  Head(p) \in S /\ Tail(p) \in Seq(S) /\ <<Head(p)>> \in Seq(S) /\ p = <<Head(p)>> \o Tail(p)
<1>1. Len(p) \in Nat /\ 1 \in 1..Len(p) /\ Len(p) \in 1..Len(p) /\ Head(p) = p[1]
  BY EmptySeq, LenProperties
<1>2. p = SubSeq(p, 1, Len(p)) /\ Tail(p) = SubSeq(p, 2, Len(p))
  BY SubSeqFull, TailIsSubSeq
<1>3. SubSeq(p, 1, Len(p)) = <<p[1]>> \o SubSeq(p, 1 + 1, Len(p))
  BY <1>1, SubSeqRecursiveFirst
<1>4. Head(p) \in S /\ Tail(p) \in Seq(S)
  BY HeadTailProperties
<1> QED
  BY <1>1, <1>2, <1>3, <1>4

\* A piece goes from the pipe into the grouper ...
LEMMA PieceGrouped ==
  ASSUME NEW f \in Seq(Pieces), NEW g \in Seq(Pieces), NEW x \in Pieces, NEW p \in Seq(Pieces)
  PROVE  f \o Append(g, x) \o p = f \o g \o (<<x>> \o p)
<1>1. <<x>> \in Seq(Pieces)
  OBVIOUS
<1>2. Append(g, x) = g \o <<x>>
  BY AppendIsConcat
<1>3. f \o g \in Seq(Pieces)
  BY ConcatProperties
<1>4. f \o (g \o <<x>>) = (f \o g) \o <<x>>
  BY <1>1, ConcatAssociative
<1>5. ((f \o g) \o <<x>>) \o p = (f \o g) \o (<<x>> \o p)
  BY <1>1, <1>3, ConcatAssociative
<1> QED
  BY <1>2, <1>4, <1>5

\* ... and from there into a line.
LEMMA LineGiven ==
  ASSUME NEW S, NEW ls \in Seq(Seq(S)), NEW g \in Seq(S), NEW p \in Seq(S)
  PROVE  FlattenSeq(Append(ls, g)) \o <<>> \o p = FlattenSeq(ls) \o g \o p
<1>1. FlattenSeq(ls) \in Seq(S) /\ FlattenSeq(Append(ls, g)) = FlattenSeq(ls) \o g
  BY FlattenType, FlattenAppend
<1>2. FlattenSeq(ls) \o g \in Seq(S)
  BY <1>1, ConcatProperties
<1> QED
  BY <1>1, <1>2, ConcatEmptySeq

\* A piece more is in the pipe.
LEMMA PieceWritten ==
  ASSUME NEW S, NEW f \in Seq(S), NEW g \in Seq(S), NEW p \in Seq(S), NEW x \in S, NEW w, f \o g \o p = w
  PROVE  f \o g \o Append(p, x) = Append(w, x)
<1>1. \A q, r \in Seq(S) : q \o r \in Seq(S)
  BY ConcatProperties
<1>2. <<x>> \in Seq(S)
  OBVIOUS
<1> DEFINE fg == f \o g
<1>3. fg \in Seq(S)
  BY <1>1
<1> HIDE DEF fg
<1>4. fg \o p \in Seq(S)
  BY <1>1, <1>3
<1>5. Append(p, x) = p \o <<x>> /\ Append(fg \o p, x) = (fg \o p) \o <<x>>
  BY <1>4, AppendIsConcat
<1>6. \A q, r, t \in Seq(S) : (q \o r) \o t = q \o (r \o t)
  BY ConcatAssociative, SMTT(60)
<1>7. (fg \o p) \o <<x>> = fg \o (p \o <<x>>)
  BY <1>2, <1>3, <1>6, Zenon
<1> QED
  BY <1>5, <1>7 DEF fg

\* LinesAreWhole, of one stream, and that the grouper holds no end of a line.
LinesOf(ls, g, p, w, r) ==
  /\ FlattenSeq(ls) \o g \o p = w
  /\ \A i \in 1..Len(ls) : Whole(ls[i]) \/ (i = Len(ls) /\ r = "done")
  /\ \A i \in 1..Len(g) : ~g[i].endsLine

\* What makes LinesAreWhole inductive: the above, and that there are no readers yet
\* when they are started.
LinesInv ==
  /\ \A s \in Streams : LinesOf(lines[s], group[s], pipe[s], written[s], reader[s])
  /\ parent \in {"fork", "start", "read"} => \A s \in Streams : reader[s] = "no"

LEMMA LinesInit == Init => LinesInv
  <1> SUFFICES ASSUME Init PROVE LinesInv
    OBVIOUS
  <1>1. ASSUME NEW s \in Streams
        PROVE  /\ FlattenSeq(lines[s]) \o group[s] \o pipe[s] = written[s]
               /\ Len(lines[s]) = 0 /\ Len(group[s]) = 0
    <2>1. lines[s] = <<>> /\ group[s] = <<>> /\ pipe[s] = <<>> /\ written[s] = <<>>
      BY DEF Init
    <2>2. FlattenSeq(<<>>) = <<>>
      BY DEF FlattenSeq
    <2> QED
      BY <2>1, <2>2
  <1> QED
    BY <1>1 DEF Init, LinesInv, LinesOf

\* The actions that neither write nor read nor start the readers.
LEMMA LinesStay ==
  ASSUME LinesInv, UNCHANGED <<written, pipe, reader, group, lines>>,
         parent' \in {"fork", "start", "read"} => parent \in {"fork", "start", "read"}
  PROVE  LinesInv'
  <1>1. written' = written /\ pipe' = pipe /\ reader' = reader /\ group' = group /\ lines' = lines
    OBVIOUS
  <1>2. /\ \A s \in Streams : LinesOf(lines'[s], group'[s], pipe'[s], written'[s], reader'[s])
        /\ parent' \in {"fork", "start", "read"} => \A s \in Streams : reader'[s] = "no"
    BY <1>1 DEF LinesInv
  <1> QED
    BY <1>2 DEF LinesInv, LinesOf, Whole

LEMMA CallingKeepsLines == ASSUME Popen2TypeOK, LinesInv, Calling PROVE LinesInv'
  <1> USE DEF userVars, killVars, childVars, readVars
  <1>1. CASE SpawnReaders
    <2>1. /\ written' = written /\ pipe' = pipe /\ group' = group /\ lines' = lines /\ parent' = "wait"
          /\ \A s \in Streams : reader[s] = "no"
      BY <1>1 DEF SpawnReaders, LinesInv
    <2>2. ASSUME NEW s \in Streams
          PROVE  LinesOf(lines'[s], group'[s], pipe'[s], written'[s], reader'[s])
      <3>1. LinesOf(lines[s], group[s], pipe[s], written[s], "no")
        BY <2>1 DEF LinesInv
      <3>2. LinesOf(lines[s], group[s], pipe[s], written[s], reader'[s])
        BY <3>1 DEF LinesOf
      <3> QED
        BY <2>1, <3>2
    <2> QED
      BY <2>1, <2>2 DEF LinesInv, LinesOf, Whole
  <1>2. CASE Fork \/ StartUserCode \/ WaitPid \/ MarkDone \/ TellReaders \/ Join \/ Close
    <2>1. /\ UNCHANGED <<written, pipe, reader, group, lines>>
          /\ parent' \in {"fork", "start", "read"} => parent \in {"fork", "start", "read"}
      BY <1>2 DEF Fork, StartUserCode, WaitPid, MarkDone, TellReaders, Join, Close
    <2> QED
      BY <2>1, LinesStay
  <1> QED
    BY <1>1, <1>2 DEF Calling

LEMMA OthersKeepLines ==
  ASSUME LinesInv,
         \/ Write \/ Writing \/ UserCodeReturns \/ ChildReads \/ ChildEnds \/ UNCHANGED vars
         \/ \E k \in Killers : CheckDone(k) \/ Kill(k)
  PROVE  LinesInv'
  <1> USE DEF userVars, killVars, childVars, readVars
  <1>1. UNCHANGED <<parent, written, pipe, reader, group, lines>>
    BY DEF Write, Writing, Written, BrokenPipe, UserCodeReturns, ChildReads, ChildEnds, vars, CheckDone, Kill
  <1> QED
    BY <1>1, LinesStay

LEMMA WritingKeepsLines ==
  ASSUME Popen2TypeOK, LinesInv, NEW s \in Streams, ChildWrites(s)
  PROVE  LinesInv'
  <1>1. PICK ends \in BOOLEAN :
          LET piece == [nr |-> Len(written[s]) + 1, endsLine |-> ends]
          IN  /\ pipe' = [pipe EXCEPT ![s] = Append(@, piece)]
              /\ written' = [written EXCEPT ![s] = Append(@, piece)]
    BY DEF ChildWrites
  <1> DEFINE piece == [nr |-> Len(written[s]) + 1, endsLine |-> ends]
  <1>2. piece \in Pieces
    BY DEF Pieces, Popen2TypeOK
  <1>3. /\ pipe' = [pipe EXCEPT ![s] = Append(@, piece)]
        /\ written' = [written EXCEPT ![s] = Append(@, piece)]
    BY <1>1
  <1> HIDE DEF piece
  <1>4. UNCHANGED <<parent, reader, group, lines>>
    BY DEF ChildWrites, userVars, killVars, readVars
  <1>5. ASSUME NEW t \in Streams
        PROVE  FlattenSeq(lines[t]) \o group[t] \o pipe'[t] = written'[t]
    <2>1. /\ lines[t] \in Seq(Seq(Pieces)) /\ group[t] \in Seq(Pieces) /\ pipe[t] \in Seq(Pieces)
          /\ written[t] \in Seq(Pieces)
      BY DEF Popen2TypeOK
    <2>2. FlattenSeq(lines[t]) \o group[t] \o pipe[t] = written[t]
      BY DEF LinesInv, LinesOf
    <2>3. CASE t = s
      <3>1. pipe'[t] = Append(pipe[t], piece) /\ written'[t] = Append(written[t], piece)
        BY <1>3, <2>3 DEF Popen2TypeOK
      <3>2. FlattenSeq(lines[t]) \in Seq(Pieces)
        BY <2>1, FlattenType
      <3>3. \A f, g, p \in Seq(Pieces) : f \o g \o Append(p, piece) = Append(f \o g \o p, piece)
        BY <1>2, PieceWritten
      <3>4. FlattenSeq(lines[t]) \o group[t] \o Append(pipe[t], piece)
              = Append(FlattenSeq(lines[t]) \o group[t] \o pipe[t], piece)
        BY <2>1, <3>2, <3>3, Zenon
      <3> QED
        BY <2>2, <3>1, <3>4
    <2>4. CASE t # s
      BY <1>3, <2>2, <2>4 DEF Popen2TypeOK
    <2> QED
      BY <2>3, <2>4
  <1> QED
    <2>1. \A t \in Streams : LinesOf(lines'[t], group'[t], pipe'[t], written'[t], reader'[t])
      BY <1>4, <1>5 DEF LinesInv, LinesOf
    <2>2. parent' \in {"fork", "start", "read"} => \A t \in Streams : reader'[t] = "no"
      BY <1>4 DEF LinesInv
    <2> QED
      BY <2>1, <2>2 DEF LinesInv, LinesOf, Whole

\* What a step of the reader of s leaves of the other streams.
LEMMA LinesOfTheOthers ==
  ASSUME Popen2TypeOK, LinesInv, NEW s \in Streams, Reading(s), NEW t \in Streams, t # s
  PROVE  /\ lines'[t] = lines[t] /\ group'[t] = group[t] /\ pipe'[t] = pipe[t] /\ reader'[t] = reader[t]
         /\ written' = written /\ parent' = parent
  BY DEF Popen2TypeOK, Reading, Read, Feed, Stop, userVars, childVars, killVars

LEMMA EmptyIsUnended == \A i \in 1..Len(<<>>) : FALSE
  <1>1. Len(<<>>) = 0
    OBVIOUS
  <1> QED
    BY <1>1

LEMMA PieceMoves ==
  \A ls \in Seq(Seq(Pieces)), g, p \in Seq(Pieces) :
    p # <<>> => FlattenSeq(ls) \o Append(g, Head(p)) \o Tail(p) = FlattenSeq(ls) \o g \o p
  <1> TAKE ls \in Seq(Seq(Pieces)), g, p \in Seq(Pieces)
  <1> HAVE p # <<>>
  <1>1. FlattenSeq(ls) \in Seq(Pieces)
    BY FlattenType
  <1>2. ASSUME NEW f \in Seq(Pieces)
        PROVE  f \o Append(g, Head(p)) \o Tail(p) = f \o g \o p
    <2>1. Head(p) \in Pieces /\ Tail(p) \in Seq(Pieces) /\ p = <<Head(p)>> \o Tail(p)
      BY HeadAndTail
    <2>2. ASSUME NEW x \in Pieces, NEW q \in Seq(Pieces)
          PROVE  f \o Append(g, x) \o q = f \o g \o (<<x>> \o q)
      BY PieceGrouped, ZenonT(60)
    <2>3. f \o Append(g, Head(p)) \o Tail(p) = f \o g \o (<<Head(p)>> \o Tail(p))
      BY <2>1, <2>2, Zenon
    <2> QED
      BY <2>1, <2>3
  <1> QED
    BY <1>1, <1>2, Zenon

LEMMA LineMoves ==
  \A ls \in Seq(Seq(Pieces)), g, p \in Seq(Pieces) :
    FlattenSeq(Append(ls, g)) \o <<>> \o p = FlattenSeq(ls) \o g \o p
  <1> TAKE ls \in Seq(Seq(Pieces)), g, p \in Seq(Pieces)
  <1> QED
    BY LineGiven, SMTT(60)

LEMMA FeedMiddle ==
  ASSUME NEW ls \in Seq(Seq(Pieces)), NEW g \in Seq(Pieces), NEW p \in Seq(Pieces), p # <<>>,
         NEW w, NEW r, LinesOf(ls, g, p, w, r), ~Head(p).endsLine
  PROVE  LinesOf(ls, Append(g, Head(p)), Tail(p), w, r)
  <1>1. Head(p) \in Pieces
    BY HeadAndTail
  <1>2. FlattenSeq(ls) \in Seq(Pieces)
    BY FlattenType
  <1>3. FlattenSeq(ls) \o Append(g, Head(p)) \o Tail(p) = w
    <2>1. FlattenSeq(ls) \o Append(g, Head(p)) \o Tail(p) = FlattenSeq(ls) \o g \o p
      BY PieceMoves, Zenon
    <2> QED
      BY <2>1 DEF LinesOf
  <1>4. \A i \in 1..Len(Append(g, Head(p))) : ~Append(g, Head(p))[i].endsLine
    BY <1>1 DEF LinesOf
  <1> QED
    BY <1>3, <1>4 DEF LinesOf

LEMMA FeedEnd ==
  ASSUME NEW ls \in Seq(Seq(Pieces)), NEW g \in Seq(Pieces), NEW p \in Seq(Pieces), p # <<>>,
         NEW w, NEW r, r # "done", LinesOf(ls, g, p, w, r), Head(p).endsLine
  PROVE  LinesOf(Append(ls, Append(g, Head(p))), <<>>, Tail(p), w, r)
  <1> DEFINE line == Append(g, Head(p))
  <1>1. Head(p) \in Pieces /\ Tail(p) \in Seq(Pieces)
    BY HeadAndTail
  <1>2. line \in Seq(Pieces) /\ FlattenSeq(ls) \in Seq(Pieces)
    BY <1>1, FlattenType
  <1>3. FlattenSeq(ls) \o line \o Tail(p) = w
    <2>1. FlattenSeq(ls) \o Append(g, Head(p)) \o Tail(p) = FlattenSeq(ls) \o g \o p
      BY PieceMoves, Zenon
    <2> QED
      BY <2>1 DEF LinesOf
  <1>4. Whole(line)
    <2>1. /\ Len(g) \in Nat /\ Len(line) = Len(g) + 1 /\ line[Len(g) + 1] = Head(p)
          /\ \A i \in 1..Len(g) : line[i] = g[i]
      BY <1>1
    <2> HIDE DEF line
    <2>2. \A i \in 1..Len(g) : ~line[i].endsLine
      BY <2>1 DEF LinesOf
    <2>3. \A i \in 1..Len(line) : i = Len(g) + 1 \/ i \in 1..Len(g)
      BY <2>1
    <2> QED
      BY <2>1, <2>2, <2>3 DEF Whole
  <1> HIDE DEF line
  <1>5. FlattenSeq(Append(ls, line)) \o <<>> \o Tail(p) = w
    <2>1. FlattenSeq(Append(ls, line)) \o <<>> \o Tail(p) = FlattenSeq(ls) \o line \o Tail(p)
      BY <1>1, <1>2, LineMoves, Zenon
    <2> QED
      BY <1>3, <2>1
  <1>6. \A i \in 1..Len(Append(ls, line)) : Whole(Append(ls, line)[i])
    <2>1. /\ Len(Append(ls, line)) = Len(ls) + 1 /\ Append(ls, line)[Len(ls) + 1] = line
          /\ \A i \in 1..Len(ls) : Append(ls, line)[i] = ls[i]
      BY <1>2
    <2>2. \A i \in 1..Len(ls) : Whole(ls[i])
      BY DEF LinesOf
    <2> QED
      BY <1>2, <1>4, <2>1, <2>2
  <1>7. LinesOf(Append(ls, line), <<>>, Tail(p), w, r)
    BY <1>5, <1>6, EmptyIsUnended DEF LinesOf
  <1> QED
    BY <1>7 DEF line

LEMMA LastLine ==
  ASSUME NEW ls \in Seq(Seq(Pieces)), NEW g \in Seq(Pieces), NEW p \in Seq(Pieces),
         NEW w, NEW r, r # "done", LinesOf(ls, g, p, w, r)
  PROVE  LinesOf(IF g = <<>> THEN ls ELSE Append(ls, g), <<>>, p, w, "done")
  <1>1. CASE g = <<>>
    BY <1>1 DEF LinesOf
  <1>2. CASE g # <<>>
    <2>1. FlattenSeq(Append(ls, g)) \o <<>> \o p = w
      <3>1. FlattenSeq(Append(ls, g)) \o <<>> \o p = FlattenSeq(ls) \o g \o p
        BY LineGiven, SMTT(60)
      <3> QED
        BY <3>1 DEF LinesOf
    <2>2. /\ Len(ls) \in Nat /\ Len(Append(ls, g)) = Len(ls) + 1
          /\ \A i \in 1..Len(ls) : Append(ls, g)[i] = ls[i]
      OBVIOUS
    <2>3. \A i \in 1..Len(ls) : Whole(ls[i])
      BY DEF LinesOf
    <2>4. \A i \in 1..Len(Append(ls, g)) : Whole(Append(ls, g)[i]) \/ i = Len(Append(ls, g))
      BY <2>2, <2>3
    <2> QED
      BY <1>2, <2>1, <2>4, EmptyIsUnended DEF LinesOf
  <1> QED
    BY <1>1, <1>2

LEMMA ReadingKeepsLines ==
  ASSUME Popen2TypeOK, LinesInv, NEW s \in Streams, Reading(s)
  PROVE  LinesInv'
  <1>1. /\ lines[s] \in Seq(Seq(Pieces)) /\ group[s] \in Seq(Pieces) /\ pipe[s] \in Seq(Pieces)
        /\ LinesOf(lines[s], group[s], pipe[s], written[s], reader[s])
    BY DEF Popen2TypeOK, LinesInv
  <1>2. /\ reader[s] = "polling" /\ written' = written /\ parent' = parent
        /\ parent \notin {"fork", "start", "read"}
    BY DEF LinesInv, Reading, Read, Stop, userVars, childVars, killVars
  <1>3. LinesOf(lines'[s], group'[s], pipe'[s], written[s], reader'[s])
    <2>1. CASE Read(s) /\ Head(pipe[s]).endsLine
      <3>1. /\ lines'[s] = Append(lines[s], Append(group[s], Head(pipe[s]))) /\ group'[s] = <<>>
            /\ pipe'[s] = Tail(pipe[s]) /\ reader'[s] = reader[s] /\ pipe[s] # <<>>
        BY <2>1 DEF Read, Feed, Popen2TypeOK
      <3> QED
        BY <1>1, <1>2, <2>1, <3>1, FeedEnd
    <2>2. CASE Read(s) /\ ~Head(pipe[s]).endsLine
      <3>1. /\ lines'[s] = lines[s] /\ group'[s] = Append(group[s], Head(pipe[s]))
            /\ pipe'[s] = Tail(pipe[s]) /\ reader'[s] = reader[s] /\ pipe[s] # <<>>
        BY <2>2 DEF Read, Feed, Popen2TypeOK
      <3> QED
        BY <1>1, <2>2, <3>1, FeedMiddle
    <2>3. CASE Stop(s)
      <3>1. /\ lines'[s] = IF group[s] = <<>> THEN lines[s] ELSE Append(lines[s], group[s])
            /\ group'[s] = <<>> /\ pipe'[s] = pipe[s] /\ reader'[s] = "done"
        BY <2>3 DEF Stop, Popen2TypeOK
      <3> QED
        BY <1>1, <1>2, <3>1, LastLine
    <2> QED
      BY <2>1, <2>2, <2>3 DEF Reading
  <1>4. ASSUME NEW t \in Streams
        PROVE  LinesOf(lines'[t], group'[t], pipe'[t], written'[t], reader'[t])
    <2>1. CASE t = s
      BY <1>2, <1>3, <2>1
    <2>2. CASE t # s
      BY <2>2, LinesOfTheOthers DEF LinesInv
    <2> QED
      BY <2>1, <2>2
  <1>5. /\ \A t \in Streams : LinesOf(lines'[t], group'[t], pipe'[t], written'[t], reader'[t])
        /\ parent' \in {"fork", "start", "read"} => \A t \in Streams : reader'[t] = "no"
    BY <1>2, <1>4
  <1> QED
    BY <1>5 DEF LinesInv, LinesOf, Whole

LEMMA LinesNext == Popen2TypeOK /\ LinesInv /\ [Next]_vars => LinesInv'
  BY NextCases, CallingKeepsLines, OthersKeepLines, WritingKeepsLines, ReadingKeepsLines

\* The readers hand over the child's output in its order, nothing lost, doubled or torn,
\* however the child's writes, the two readers and the end of the call interleave and
\* whatever the pipes hold: the read loop and StringsGroupingByNewLine of C5T_POPEN2.
THEOREM OutputIsWhole == Spec => []LinesAreWhole
  <1>1. LinesInv => LinesAreWhole
    BY DEF LinesInv, LinesOf, LinesAreWhole
  <1> QED
    BY <1>1, LinesInit, LinesNext, TypeInit, TypeNext, PTL DEF Spec

\* So it is for a tracked call, whoever terminates the program meanwhile.
THEOREM TrackedOutputIsWhole == TrackedSpec => []LinesAreWhole
  BY TrackedCallIsACall, OutputIsWhole, PTL
-----------------------------------------------------------------------------
(* SIGTERM.                                                                *)

\* Whoever sends SIGTERM sets already_done, which is else set when the child has been
\* waited for; and nobody who finds it set is on the way to send one.
SentInv ==
  /\ \A k \in Killers : sent[k] > 0 => done
  /\ \A k \in Killers : sent[k] <= 1 /\ (killer[k] = "kill" => sent[k] = 0)
  /\ done => child = "reaped" \/ \E k \in Killers : sent[k] > 0

LEMMA SentInit == Init => SentInv
  BY DEF Init, SentInv

LEMMA SentNext == Popen2TypeOK /\ CallInv /\ SentInv /\ [Next]_vars => SentInv'
  <1> SUFFICES ASSUME Popen2TypeOK, CallInv, SentInv, [Next]_vars PROVE SentInv'
    OBVIOUS
  <1> USE DEF SentInv, Popen2TypeOK, userVars, killVars, childVars, readVars
  <1>1. Calling => SentInv'
    <2>1. Fork \/ StartUserCode \/ SpawnReaders \/ WaitPid \/ TellReaders \/ Join \/ Close => SentInv'
      <3> SUFFICES ASSUME Fork \/ StartUserCode \/ SpawnReaders \/ WaitPid \/ TellReaders \/ Join \/ Close
                   PROVE  SentInv'
        OBVIOUS
      <3>1. UNCHANGED <<killer, sent, done>>
        BY DEF Fork, StartUserCode, SpawnReaders, WaitPid, TellReaders, Join, Close
      <3>2. child = "reaped" => child' = "reaped"
        BY DEF Fork, StartUserCode, SpawnReaders, WaitPid, TellReaders, Join, Close, CallInv
      <3> QED
        BY <3>1, <3>2
    <2>2. MarkDone => SentInv'
      BY DEF MarkDone, CallInv
    <2> QED
      BY <2>1, <2>2 DEF Calling
  <1>2. Write \/ Writing \/ UserCodeReturns => SentInv'
    BY DEF Write, Writing, Written, BrokenPipe, UserCodeReturns
  <1>3. ASSUME NEW k \in Killers, CheckDone(k) \/ Kill(k)
        PROVE  SentInv'
    <2>1. CASE CheckDone(k)
      <3>1. ~done /\ killer' = [killer EXCEPT ![k] = "kill"] /\ UNCHANGED <<done, sent, child>>
        BY <2>1 DEF CheckDone
      <3>2. \A l \in Killers : sent[l] = 0
        BY <3>1
      <3> QED
        BY <3>1, <3>2
    <2>2. CASE Kill(k)
      <3>1. /\ killer[k] = "kill" /\ killer' = [killer EXCEPT ![k] = "idle"]
            /\ sent' = [sent EXCEPT ![k] = @ + 1] /\ done' /\ UNCHANGED child
        BY <2>2 DEF Kill
      <3>2. sent'[k] = 1 /\ killer'[k] = "idle"
        BY <3>1
      <3>3. \A l \in Killers \ {k} : sent'[l] = sent[l] /\ killer'[l] = killer[l]
        BY <3>1
      <3> QED
        BY <3>1, <3>2, <3>3
    <2> QED
      BY <1>3, <2>1, <2>2
  <1>4. ChildReads \/ ChildEnds => SentInv'
    BY DEF ChildReads, ChildEnds
  <1>5. ASSUME NEW s \in Streams, Reading(s) \/ ChildWrites(s)
        PROVE  SentInv'
    BY <1>5, SMTT(60) DEF Reading, Read, Stop, ChildWrites
  <1>6. UNCHANGED vars => SentInv'
    BY DEF vars
  <1> QED
    BY <1>1, <1>2, <1>3, <1>4, <1>5, <1>6, NextCases
\* Nobody sends SIGTERM more than once.  (Two who do not know of each other may both
\* send it: see TermIsSentOnce.)
NobodySendsTwice == \A k \in Killers : sent[k] <= 1

\* Of what the comment at Kill guarantees, this is what already_done achieves.
THEOREM OneSigtermEach == Spec => []NobodySendsTwice
  <1>1. SentInv => NobodySendsTwice
    BY DEF SentInv, NobodySendsTwice
  <1> QED
    BY <1>1, CallInvariant, SentInit, SentNext, PTL DEF Spec

\* A subscription that is there once the program terminates is called back, or will
\* be, and the callback is past the flag or has found it set.
NoticeInv ==
  /\ terminating /\ scope = "on" => notice # "no"
  /\ notice = "called" => done \/ \E k \in Killers : killer[k] = "kill"

LEMMA NoticeNext == Popen2TypeOK /\ NoticeInv /\ [TrackedNext]_allVars => NoticeInv'
  <1> SUFFICES ASSUME Popen2TypeOK, NoticeInv, [TrackedNext]_allVars PROVE NoticeInv'
    OBVIOUS
  <1> USE DEF NoticeInv, vars, trackedVars, userVars, killVars, childVars, readVars
  <1>1. killer \in [Killers -> {"idle", "kill"}] /\ User \in Killers /\ Others \subseteq Killers
    BY DEF Popen2TypeOK, Killers
  <1>2. ASSUME NEW k \in Killers, CheckDone(k) PROVE \E l \in Killers : killer'[l] = "kill"
    BY <1>1, <1>2 DEF CheckDone
  <1>3. ASSUME UNCHANGED <<killer, done, trackedVars>> PROVE NoticeInv'
    BY <1>3
  <1>4. CASE TrackingAdd \/ TrackingRemove
    BY <1>4 DEF TrackingAdd, TrackingRemove
  <1>5. CASE Initiate
    BY <1>5 DEF Initiate
  <1>6. CASE Subscribe
    BY <1>1, <1>2, <1>6 DEF Subscribe
  <1>7. CASE Unsubscribe
    BY <1>7 DEF Unsubscribe, UserCodeReturns
  <1>8. CASE Callback
    BY <1>1, <1>2, <1>8 DEF Callback
  <1>9. CASE Inside
    <2>1. UNCHANGED trackedVars
      BY <1>9 DEF Inside
    <2>2. CASE Calling
      <3>1. UNCHANGED killer /\ (done => done')
        BY <2>2 DEF Calling, Fork, StartUserCode, SpawnReaders, WaitPid, MarkDone, TellReaders, Join, Close
      <3> QED
        BY <2>1, <3>1
    <2>3. CASE Write \/ Writing
      BY <1>3, <2>1, <2>3 DEF Write, Writing, Written, BrokenPipe
    <2>4. CASE CheckDone(User)
      BY <1>1, <1>2, <2>1, <2>4
    <2>5. CASE Killing
      <3>1. done'
        BY <2>5 DEF Killing, Kill
      <3> QED
        BY <2>1, <3>1
    <2>6. CASE \E s \in Streams : Reading(s)
      BY <1>3, <2>1, <2>6 DEF Reading, Read, Stop
    <2>7. CASE ChildWorks \/ ChildEnds
      BY <1>3, <2>1, <2>7 DEF ChildWorks, ChildReads, ChildWrites, ChildEnds
    <2> QED
      BY <1>9, <2>2, <2>3, <2>4, <2>5, <2>6, <2>7 DEF Inside
  <1>10. CASE TrackedOver \/ UNCHANGED allVars
    BY <1>10 DEF TrackedOver, allVars
  <1> QED
    BY <1>4, <1>5, <1>6, <1>7, <1>8, <1>9, <1>10 DEF TrackedNext

\* While the program terminates and the user's code of a tracked call runs, the callback
\* is due, or SIGTERM is about to be sent or was sent, or the child was waited for.
TermIsOnItsWay ==
  terminating /\ scope = "on" =>
    \/ notice = "due" \/ child = "reaped"
    \/ \E k \in Killers : killer[k] = "kill" \/ sent[k] > 0

\* No order of the subscription, the termination, the user's own Kill and the end of
\* the child makes the manager forget a child: what TermReachesTheChild
\* says will happen is at every moment somebody's next step, or done.
THEOREM NoChildIsForgotten == TrackedSpec => []TermIsOnItsWay
  <1>1. TrackedInit => NoticeInv
    BY DEF TrackedInit, NoticeInv
  <1>2. SentInv /\ NoticeInv /\ TrackedTypeOK => TermIsOnItsWay
    BY DEF SentInv, NoticeInv, TrackedTypeOK, TermIsOnItsWay
  <1>3. TrackedSpec => [](Popen2TypeOK /\ CallInv /\ TrackedTypeOK)
    BY TrackedCallIsACall, CallInvariant, TrackedTypeInvariant, PTL
  <1>4. TrackedSpec => []SentInv
    BY TrackedCallIsACall, CallInvariant, SentInit, SentNext, PTL DEF Spec
  <1>5. TrackedSpec => []NoticeInv
    BY <1>1, <1>3, NoticeNext, PTL DEF TrackedSpec
  <1> QED
    BY <1>2, <1>3, <1>4, <1>5, PTL
=============================================================================
