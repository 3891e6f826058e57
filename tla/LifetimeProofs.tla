---------------------------- MODULE LifetimeProofs ----------------------------
(***************************************************************************)
(* Proofs about LifetimeManager, for any threads, instances, subscriptions *)
(* and threads that exit.                                                  *)
(***************************************************************************)
EXTENDS LifetimeManager, TLAPS

-----------------------------------------------------------------------------
(* Type correctness.                                                       *)

LEMMA TypeInit == Init => LifetimeTypeOK
  <1> SUFFICES ASSUME Init
               PROVE  LifetimeTypeOK
    OBVIOUS
  <1>1. TasksOK
    BY DEF Init, TasksOK
  <1>2. ListenersOK
    BY DEF Init, ListenersOK
  <1>3. ExitOK
    BY DEF Init, ExitOK
  <1> QED
    BY <1>1, <1>2, <1>3 DEF Init, LifetimeTypeOK

LEMMA SignalType ==
  ASSUME ListenersOK, NEW l \in Listeners, Signal(l)
  PROVE  called' \in [Listeners -> BOOLEAN] /\ calls' \in [Listeners -> Nat]
  <1>1. calls[l] \in Nat /\ calls[l] + 1 \in Nat
    BY DEF ListenersOK
  <1>2. (IF called[l] THEN calls[l] ELSE calls[l] + 1) \in Nat
    BY <1>1, Zenon
  <1>3. calls' \in [Listeners -> Nat]
    BY <1>2, Zenon DEF Signal, ListenersOK
  <1>4. called' \in [Listeners -> BOOLEAN]
    BY Zenon DEF Signal, ListenersOK
  <1> QED
    BY <1>3, <1>4

LEMMA TypeNext == LifetimeTypeOK /\ [Next]_vars => LifetimeTypeOK'
  <1> SUFFICES ASSUME LifetimeTypeOK, [Next]_vars
               PROVE  LifetimeTypeOK'
    OBVIOUS
  <1> USE DEF LifetimeTypeOK
  <1>a. UNCHANGED taskVars => TasksOK'
    BY DEF taskVars, TasksOK
  <1>b. UNCHANGED listenerVars => ListenersOK'
    BY DEF listenerVars, ListenersOK
  <1>c. UNCHANGED exitVars => ExitOK'
    BY DEF exitVars, ExitOK
  <1>1. ASSUME NEW t \in Tasks, Starting(t)
        PROVE  LifetimeTypeOK'
    <2>1. CASE Spawn(t)
      <3>1. TasksOK'
        BY <2>1 DEF Spawn, TasksOK
      <3> QED
        BY <1>1, <1>b, <1>c, <2>1, <3>1 DEF Starting, Spawn
    <2>2. CASE EmplaceThreadImpl(t)
      <3>1. TasksOK' /\ outcome' \in {outcome, "terminated"}
        BY <2>2 DEF EmplaceThreadImpl, TasksOK
      <3> QED
        BY <1>1, <1>b, <1>c, <3>1 DEF Starting
    <2> QED
      BY <1>1, <2>1, <2>2 DEF Starting
  <1>2. ASSUME NEW t \in Tasks, Working(t)
        PROVE  LifetimeTypeOK'
    <2>1. TasksOK'
      <3>1. CASE TrackingAdd(t)
        BY <3>1 DEF TrackingAdd, TasksOK
      <3>2. CASE BodyReturns(t)
        BY <3>2 DEF BodyReturns, TasksOK
      <3>3. CASE TrackingRemove(t)
        BY <3>3 DEF TrackingRemove, TasksOK
      <3> QED
        BY <1>2, <3>1, <3>2, <3>3 DEF Working
    <2> QED
      BY <1>2, <1>b, <1>c, <2>1 DEF Working
  <1>3. ASSUME NEW l \in Listeners, Listening(l)
        PROVE  LifetimeTypeOK'
    <2>1. ListenersOK'
      <3>1. CASE Subscribe(l)
        BY <3>1 DEF Subscribe, ListenersOK
      <3>2. CASE Subscribed(l)
        BY <3>2, SignalType DEF Subscribed, ListenersOK
      <3>3. CASE Unsubscribe(l)
        BY <3>3 DEF Unsubscribe, ListenersOK
      <3> QED
        BY <1>3, <3>1, <3>2, <3>3 DEF Listening
    <2> QED
      BY <1>3, <1>a, <1>c, <2>1 DEF Listening
  <1>4. ASSUME NEW x \in Exiters, Notifying(x)
        PROVE  LifetimeTypeOK'
    <2>1. PICK l \in Listeners : Notify(x, l)
      BY <1>4 DEF Notifying
    <2>2. ListenersOK'
      BY <2>1, SignalType DEF Notify, ListenersOK
    <2>3. ExitOK'
      BY <2>1 DEF Notify, ExitOK
    <2> QED
      BY <1>4, <1>a, <2>2, <2>3 DEF Notifying
  <1>5. ASSUME NEW x \in Exiters, Initiating(x)
        PROVE  LifetimeTypeOK'
    <2>1. ASSUME NEW y \in Exiters, Initiate(y)
          PROVE  ExitOK'
      BY <2>1 DEF Initiate, Registered, ExitOK
    <2>2. CASE Exit(x)
      BY <1>5, <1>a, <1>b, <2>1, <2>2 DEF Initiating, Exit
    <2>3. CASE MainReturns
      <3>1. terminating => ExitOK'
        BY <2>3 DEF MainReturns, ExitOK
      <3> QED
        BY <1>5, <1>a, <1>b, <2>1, <2>3, <3>1, LifetimeAssumption DEF Initiating, MainReturns
    <2> QED
      BY <1>5, <2>2, <2>3 DEF Initiating
  <1>6. ASSUME NEW x \in Exiters, Exiting(x)
        PROVE  LifetimeTypeOK'
    <2>1. CASE Initiated(x)
      <3>1. ExitOK'
        BY <2>1 DEF Initiated, ExitOK
      <3> QED
        BY <1>6, <1>a, <1>b, <2>1, <3>1 DEF Exiting, Initiated, Drained, Joined, GraceOver, Destroyed, exitVars, taskVars
    <2>2. CASE Drained(x)
      <3>1. ExitOK' /\ TasksOK'
        BY <2>2 DEF Drained, ExitOK, TasksOK
      <3> QED
        BY <1>6, <1>b, <2>2, <3>1 DEF Exiting, Initiated, Drained, Joined, GraceOver, Destroyed, exitVars, taskVars
    <2>3. CASE Joined(x)
      <3>1. ExitOK'
        BY <2>3 DEF Joined, ExitOK
      <3> QED
        BY <1>6, <1>a, <1>b, <2>3, <3>1 DEF Exiting, Initiated, Drained, Joined, GraceOver, Destroyed, exitVars, taskVars
    <2>4. CASE GraceOver(x) /\ UNCHANGED taskVars
      BY <1>6, <1>a, <1>b, <1>c, <2>4 DEF Exiting, GraceOver
    <2>5. CASE Destroyed(x) /\ UNCHANGED taskVars
      BY <1>6, <1>a, <1>b, <1>c, <2>5 DEF Exiting, Destroyed
    <2> QED
      BY <1>6, <2>1, <2>2, <2>3, <2>4, <2>5 DEF Exiting
  <1>7. CASE UNCHANGED vars
    BY <1>7, <1>a, <1>b, <1>c DEF vars
  <1> QED
    BY <1>1, <1>2, <1>3, <1>4, <1>5, <1>6, <1>7 DEF Next, Over

\* The variables stay in their types, and still_alive holds exactly the tasks
\* between TrackingAdd and TrackingRemove.
THEOREM LifetimeTypeInvariant == Spec => []LifetimeTypeOK
  BY TypeInit, TypeNext, PTL DEF Spec

-----------------------------------------------------------------------------
(* The termination sequence.                                               *)

\* What each stage of the sequence knows of the threads that were handed over:
\* they are all in the list until it is moved out, and then among those being
\* joined, because the list does not grow once the termination is initiated.
HandedOver(t) ==
  spawned[t] = "emplaced" =>
    /\ (first = Nobody \/ exiting[first] \in {"notifying", "draining"}) => t \in toJoin
    /\ (first # Nobody /\ exiting[first] = "joining") => t \in joining
    /\ (first # Nobody /\ exiting[first] = "destroying") => thread[t] = "done"

FirstOnly ==
  /\ first = Nobody <=> ~terminating
  /\ first = Nobody => \A x \in Exiters : exiting[x] = "no"
  /\ first # Nobody => exiting[first] \notin {"no", "ignored"}
  /\ \A x \in Exiters : exiting[x] \in {"draining", "joining"} => first = x

SequenceInv == FirstOnly /\ \A t \in Tasks : HandedOver(t)

LEMMA SequenceInit == Init => SequenceInv
  BY LifetimeAssumption DEF Init, SequenceInv, FirstOnly, HandedOver

\* Steps that leave the sequence where it is.
LEMMA SequenceStays ==
  ASSUME SequenceInv, UNCHANGED <<first, terminating, exiting, joining>>,
         \A t \in Tasks : \/ spawned'[t] = spawned[t] /\ (t \in toJoin => t \in toJoin')
                             /\ (thread[t] = "done" => thread'[t] = "done")
                          \/ spawned'[t] # "emplaced"
                          \/ ~terminating /\ t \in toJoin'
  PROVE  SequenceInv'
  <1>1. FirstOnly'
    BY DEF SequenceInv, FirstOnly
  <1>2. ASSUME NEW t \in Tasks
        PROVE  HandedOver(t)'
    BY <1>2 DEF SequenceInv, FirstOnly, HandedOver
  <1> QED
    BY <1>1, <1>2 DEF SequenceInv

LEMMA SequenceNext == LifetimeTypeOK /\ SequenceInv /\ [Next]_vars => SequenceInv'
  <1> SUFFICES ASSUME LifetimeTypeOK, SequenceInv, [Next]_vars
               PROVE  SequenceInv'
    OBVIOUS
  <1> USE LifetimeAssumption DEF LifetimeTypeOK, TasksOK, ExitOK
  <1>1. ASSUME NEW t \in Tasks, Starting(t)
        PROVE  SequenceInv'
    <2>1. UNCHANGED <<first, terminating, exiting, joining>>
      BY <1>1 DEF Starting, exitVars
    <2>2. CASE Spawn(t)
      BY <2>1, <2>2, SequenceStays DEF Spawn
    <2>3. CASE EmplaceThreadImpl(t)
      BY <2>1, <2>3, SequenceStays DEF EmplaceThreadImpl
    <2> QED
      BY <1>1, <2>2, <2>3 DEF Starting
  <1>2. ASSUME NEW t \in Tasks, Working(t)
        PROVE  SequenceInv'
    <2>1. UNCHANGED <<first, terminating, exiting, joining, spawned, toJoin>>
      BY <1>2 DEF Working, exitVars, TrackingAdd, BodyReturns, TrackingRemove
    <2>2. \A u \in Tasks : thread[u] = "done" => thread'[u] = "done"
      BY <1>2 DEF Working, TrackingAdd, BodyReturns, TrackingRemove
    <2> QED
      BY <2>1, <2>2, SequenceStays
  <1>3. ASSUME NEW l \in Listeners, Listening(l)
        PROVE  SequenceInv'
    BY <1>3, SequenceStays DEF Listening, taskVars, exitVars
  <1>4. ASSUME NEW x \in Exiters, Notifying(x)
        PROVE  SequenceInv'
    BY <1>4, SequenceStays DEF Notifying, Notify, taskVars
  <1>5. ASSUME NEW x \in Exiters, Initiating(x)
        PROVE  SequenceInv'
    <2>1. UNCHANGED <<joining, toJoin, spawned, thread>>
      BY <1>5 DEF Initiating, Exit, MainReturns, Initiate, taskVars
    <2>2. CASE ~terminating
      <3>1. PICK y \in Exiters : exiting[y] = "no" /\ Initiate(y)
        BY <1>5, <2>2 DEF Initiating, Exit, MainReturns, SequenceInv, FirstOnly
      <3>2. /\ terminating' /\ first' = y /\ exiting'[y] = "notifying"
            /\ \A z \in Exiters \ {y} : exiting'[z] = "no"
        BY <2>2, <3>1 DEF Initiate, SequenceInv, FirstOnly
      <3>3. FirstOnly'
        BY <3>2 DEF FirstOnly
      <3>4. \A t \in Tasks : HandedOver(t)'
        BY <2>1, <2>2, <3>2 DEF SequenceInv, FirstOnly, HandedOver
      <3> QED
        BY <3>3, <3>4 DEF SequenceInv
    <2>3. CASE terminating
      <3>1. PICK y \in Exiters : /\ exiting[y] \in {"no", "ignored"}
                                 /\ \E e \in {"notifying", "destroying"} :
                                      exiting' = [exiting EXCEPT ![y] = e]
        BY <1>5, <2>3 DEF Initiating, Exit, MainReturns, Initiate
      <3>2. terminating' /\ first' = first
        BY <1>5, <2>3 DEF Initiating, Exit, MainReturns, Initiate
      <3>3. first \in Exiters /\ y # first /\ exiting'[first] = exiting[first]
        BY <2>3, <3>1 DEF SequenceInv, FirstOnly
      <3>4. FirstOnly'
        BY <2>3, <3>1, <3>2, <3>3 DEF SequenceInv, FirstOnly
      <3>5. \A t \in Tasks : HandedOver(t)'
        BY <2>1, <3>2, <3>3 DEF SequenceInv, HandedOver
      <3> QED
        BY <3>4, <3>5 DEF SequenceInv
    <2> QED
      BY <2>2, <2>3
  <1>6. ASSUME NEW x \in Exiters, Exiting(x)
        PROVE  SequenceInv'
    <2>1. CASE Initiated(x) /\ UNCHANGED taskVars
      <3>1. terminating /\ first \in Exiters
        BY <2>1 DEF Initiated, SequenceInv, FirstOnly
      <3>2. FirstOnly'
        BY <2>1, <3>1 DEF Initiated, SequenceInv, FirstOnly
      <3>3. \A t \in Tasks : HandedOver(t)'
        BY <2>1, <3>1 DEF Initiated, SequenceInv, HandedOver, taskVars
      <3> QED
        BY <3>2, <3>3 DEF SequenceInv
    <2>2. CASE Drained(x)
      <3>1. first = x /\ terminating
        BY <2>2 DEF Drained, SequenceInv, FirstOnly
      <3>2. FirstOnly'
        BY <2>2, <3>1 DEF Drained, SequenceInv, FirstOnly
      <3>3. \A t \in Tasks : HandedOver(t)'
        BY <2>2, <3>1 DEF Drained, SequenceInv, HandedOver
      <3> QED
        BY <3>2, <3>3 DEF SequenceInv
    <2>3. CASE Joined(x) /\ UNCHANGED taskVars
      <3>1. first = x /\ terminating
        BY <2>3 DEF Joined, SequenceInv, FirstOnly
      <3>2. FirstOnly'
        BY <2>3, <3>1 DEF Joined, SequenceInv, FirstOnly
      <3>3. \A t \in Tasks : HandedOver(t)'
        BY <2>3, <3>1 DEF Joined, SequenceInv, HandedOver, taskVars
      <3> QED
        BY <3>2, <3>3 DEF SequenceInv
    <2>4. CASE UNCHANGED exitVars /\ UNCHANGED taskVars
      BY <2>4, SequenceStays DEF exitVars, taskVars
    <2> QED
      BY <1>6, <2>1, <2>2, <2>3, <2>4 DEF Exiting, GraceOver, Destroyed
  <1>7. CASE UNCHANGED vars
    BY <1>7, SequenceStays DEF vars, exitVars, taskVars
  <1> QED
    BY <1>1, <1>2, <1>3, <1>4, <1>5, <1>6, <1>7 DEF Next, Over

\* When the thread that has initiated the termination gets to the end of it, all
\* that was handed over to the manager is done.
THEOREM NobodyIsLeftBehind == Spec => []NobodyLeftBehind
  <1>1. SequenceInv => NobodyLeftBehind
    BY DEF SequenceInv, HandedOver, NobodyLeftBehind
  <1> QED
    BY <1>1, LifetimeTypeInvariant, SequenceInit, SequenceNext, PTL DEF Spec

-----------------------------------------------------------------------------
(* The termination event.                                                  *)

\* The flag that the copies of a lambda share tells whether the user's lambda was
\* called, which is only done to terminate.
CalledInv ==
  \A l \in Listeners :
    /\ called[l] => calls[l] = 1
    /\ ~called[l] => calls[l] = 0

PendingInv == \A x \in Exiters : pending[x] # {} => terminating

LEMMA SignalOnce ==
  ASSUME ListenersOK, CalledInv, NEW l \in Listeners, Signal(l)
  PROVE  CalledInv'
  <1>1. ASSUME NEW k \in Listeners, k # l
        PROVE  called'[k] = called[k] /\ calls'[k] = calls[k]
    BY <1>1 DEF Signal, ListenersOK
  <1>2. called'[l]
    BY DEF Signal, ListenersOK
  <1>3. calls'[l] = IF called[l] THEN calls[l] ELSE calls[l] + 1
    BY DEF Signal, ListenersOK
  <1>4. calls'[l] = 1
    BY <1>3 DEF CalledInv
  <1> QED
    BY <1>1, <1>2, <1>4 DEF CalledInv

LEMMA CalledNext ==
  LifetimeTypeOK /\ CalledInv /\ PendingInv /\ [Next]_vars
    => CalledInv' /\ PendingInv' /\ ((\E l \in Listeners : calls'[l] > calls[l]) => terminating)
  <1> SUFFICES ASSUME LifetimeTypeOK, CalledInv, PendingInv, [Next]_vars
               PROVE  CalledInv' /\ PendingInv'
                      /\ ((\E l \in Listeners : calls'[l] > calls[l]) => terminating)
    OBVIOUS
  <1>1. ListenersOK /\ pending \in [Exiters -> SUBSET Listeners] /\ calls \in [Listeners -> Nat]
    BY DEF LifetimeTypeOK, ListenersOK, ExitOK
  <1>2. ASSUME UNCHANGED <<called, calls>>
        PROVE  CalledInv' /\ ~\E l \in Listeners : calls'[l] > calls[l]
    BY <1>1, <1>2 DEF CalledInv
  <1>3. ASSUME NEW l \in Listeners, Listening(l)
        PROVE  /\ CalledInv' /\ UNCHANGED <<pending, terminating>>
               /\ terminating \/ UNCHANGED <<called, calls>>
    <2>1. UNCHANGED <<called, calls>> \/ (terminating /\ Signal(l))
      BY <1>3 DEF Listening, Subscribe, Subscribed, Unsubscribe
    <2> QED
      BY <1>1, <1>2, <1>3, <2>1, SignalOnce DEF Listening, exitVars
  <1>4. ASSUME NEW x \in Exiters, Notifying(x)
        PROVE  CalledInv' /\ PendingInv' /\ terminating
    <2>1. PICK l \in Listeners : Notify(x, l)
      BY <1>4 DEF Notifying
    <2>2. UNCHANGED <<called, calls>> \/ Signal(l)
      BY <2>1 DEF Notify
    <2>3. terminating /\ terminating'
      BY <2>1 DEF Notify, PendingInv
    <2> QED
      BY <1>1, <1>2, <2>2, <2>3, SignalOnce DEF PendingInv
  <1>5. ASSUME NEW x \in Exiters, Initiating(x)
        PROVE  PendingInv' /\ UNCHANGED listenerVars
    BY <1>1, <1>5 DEF Initiating, Exit, MainReturns, Initiate, PendingInv
  <1>6. ASSUME NEW x \in Exiters, Exiting(x)
        PROVE  UNCHANGED <<pending, terminating>> /\ UNCHANGED listenerVars
    BY <1>6 DEF Exiting, Initiated, Drained, Joined, GraceOver, Destroyed, exitVars
  <1>7. ASSUME NEW t \in Tasks, Starting(t) \/ Working(t)
        PROVE  UNCHANGED <<pending, terminating>> /\ UNCHANGED listenerVars
    BY <1>7 DEF Starting, Working, exitVars
  <1>8. CASE UNCHANGED vars
    BY <1>2, <1>8 DEF vars, listenerVars, exitVars, PendingInv
  <1> QED
    BY <1>2, <1>3, <1>4, <1>5, <1>6, <1>7, <1>8 DEF Next, Over, PendingInv, listenerVars

\* The user's lambda is called at most once, by whichever of its copies.
THEOREM CalledOnceAndOnlyOnce == Spec => []OnceAndOnlyOnce
  <1>1. Init => CalledInv /\ PendingInv
    BY DEF Init, CalledInv, PendingInv
  <1>2. LifetimeTypeOK /\ CalledInv => OnceAndOnlyOnce
    BY DEF LifetimeTypeOK, ListenersOK, CalledInv, OnceAndOnlyOnce
  <1> QED
    BY <1>1, <1>2, LifetimeTypeInvariant, CalledNext, PTL DEF Spec

\* ... and only once the termination was initiated.
THEOREM CalledOnlyToTerminate == Spec => OnlyToTerminate
  <1>1. Init => CalledInv /\ PendingInv
    BY DEF Init, CalledInv, PendingInv
  <1>2. LifetimeTypeOK /\ CalledInv /\ PendingInv /\ [Next]_vars
          => [\A l \in Listeners : calls'[l] > calls[l] => terminating]_vars
    BY CalledNext
  <1> QED
    BY <1>1, <1>2, LifetimeTypeInvariant, CalledNext, PTL DEF Spec, OnlyToTerminate

-----------------------------------------------------------------------------
(* What it takes for SignalIsNotLost and ExitEnds.                         *)

\* The signal is on its way to whoever holds a scope when it is given: the user's
\* lambda was called, or its registered copy is one of those still to be called by a
\* thread that is about to do so.
SignalIsOnItsWay ==
  terminating => \A l \in Listeners : listener[l] = "scoped" =>
    calls[l] = 1 \/ \E x \in Exiters : exiting[x] = "notifying" /\ l \in pending[x]

\* The destructor waits for nobody but those who hold a scope: a lambda that was let
\* go, or that was never registered, borrows nothing.
OnlyScopesBorrow == held \subseteq Registered

WayInv ==
  /\ \A x \in Exiters : pending[x] # {} => exiting[x] = "notifying"
  /\ terminating => \A l \in Listeners : listener[l] = "scoped" => called[l] \/ \E x \in Exiters : l \in pending[x]
  /\ OnlyScopesBorrow

\* The steps that neither subscribe nor notify: a lambda that is still to be called
\* is still to be called by the same thread.
LEMMA WayStays ==
  ASSUME WayInv, UNCHANGED <<terminating, pending, listenerVars>>,
         \A x \in Exiters : exiting[x] = "notifying" /\ pending[x] # {} => exiting'[x] = "notifying"
  PROVE  WayInv'
  BY DEF WayInv, OnlyScopesBorrow, Registered, listenerVars

LEMMA WayNext == LifetimeTypeOK /\ WayInv /\ [Next]_vars => WayInv'
  <1> SUFFICES ASSUME LifetimeTypeOK, WayInv, [Next]_vars PROVE WayInv'
    OBVIOUS
  <1>t. ListenersOK /\ ExitOK
    BY DEF LifetimeTypeOK
  <1>1. ASSUME NEW t \in Tasks, Starting(t) \/ Working(t)
        PROVE  WayInv'
    BY <1>1, WayStays DEF Starting, Working, exitVars
  <1>2. ASSUME NEW l \in Listeners, Listening(l)
        PROVE  WayInv'
    <2>1. UNCHANGED <<terminating, exiting, pending>>
      BY <1>2 DEF Listening, exitVars
    <2>2. CASE Subscribe(l)
      BY <2>1, <2>2, <1>t DEF Subscribe, WayInv, OnlyScopesBorrow, Registered, ListenersOK
    <2>3. CASE Subscribed(l)
      <3>1. /\ listener' = [listener EXCEPT ![l] = "scoped"] /\ held' = held
            /\ IF terminating THEN called' = [called EXCEPT ![l] = TRUE] ELSE called' = called
        BY <2>3 DEF Subscribed, Signal
      <3>2. OnlyScopesBorrow'
        BY <3>1, <1>t DEF WayInv, OnlyScopesBorrow, Registered, ListenersOK
      <3>3. terminating => \A k \in Listeners : listener'[k] = "scoped" => called'[k] \/ \E x \in Exiters : k \in pending[x]
        BY <3>1, <1>t DEF WayInv, ListenersOK
      <3> QED
        BY <2>1, <3>2, <3>3 DEF WayInv
    <2>4. CASE Unsubscribe(l)
      BY <2>1, <2>4, <1>t DEF Unsubscribe, WayInv, OnlyScopesBorrow, Registered, ListenersOK
    <2> QED
      BY <1>2, <2>2, <2>3, <2>4 DEF Listening
  <1>3. ASSUME NEW x \in Exiters, Notifying(x)
        PROVE  WayInv'
    <2>1. PICK l \in Listeners : Notify(x, l)
      BY <1>3 DEF Notifying
    <2>2. /\ exiting[x] = "notifying" /\ pending' = [pending EXCEPT ![x] = @ \ {l}]
          /\ UNCHANGED <<terminating, exiting, listener>>
      BY <2>1 DEF Notify
    <2>3. /\ held' \subseteq held
          /\ \A k \in Listeners : called[k] => called'[k]
          /\ l \in Registered => called'[l]
      BY <2>1, <1>t DEF Notify, Signal, ListenersOK
    <2>4. \A y \in Exiters : pending'[y] # {} => exiting[y] = "notifying"
      BY <2>2, <1>t DEF WayInv, ExitOK
    <2>5. ASSUME terminating, NEW k \in Listeners, listener[k] = "scoped"
          PROVE  called'[k] \/ \E y \in Exiters : k \in pending'[y]
      <3>1. CASE k = l
        BY <2>3, <2>5, <3>1 DEF Registered
      <3>2. CASE k # l
        BY <2>2, <2>3, <2>5, <3>2, <1>t DEF WayInv, ExitOK
      <3> QED
        BY <3>1, <3>2
    <2>6. OnlyScopesBorrow'
      BY <2>2, <2>3 DEF WayInv, OnlyScopesBorrow, Registered
    <2> QED
      BY <2>2, <2>4, <2>5, <2>6 DEF WayInv
  <1>4. ASSUME NEW x \in Exiters, Initiating(x)
        PROVE  WayInv'
    <2>1. UNCHANGED listenerVars
      BY <1>4 DEF Initiating
    <2>2. ASSUME NEW y \in Exiters, exiting[y] \in {"no", "ignored"}, Initiate(y)
          PROVE  WayInv'
      <3>1. /\ pending' = [pending EXCEPT ![y] = Registered] /\ exiting' = [exiting EXCEPT ![y] = "notifying"]
            /\ Registered \subseteq Listeners
        BY <2>2 DEF Initiate, Registered
      <3>2. \A z \in Exiters : pending'[z] # {} => exiting'[z] = "notifying"
        BY <3>1, <1>t DEF WayInv, ExitOK
      <3>3. \A k \in Listeners : listener[k] = "scoped" => k \in pending'[y]
        BY <3>1, <1>t DEF Registered, ExitOK
      <3> QED
        BY <2>1, <3>2, <3>3 DEF WayInv, OnlyScopesBorrow, Registered, listenerVars
    <2>3. CASE Exit(x)
      BY <2>2, <2>3 DEF Exit
    <2>4. CASE x = Main /\ MainReturns
      <3>1. CASE terminating
        <4>1. exiting' = [exiting EXCEPT ![Main] = "destroying"] /\ exiting[Main] # "notifying" /\ UNCHANGED <<terminating, pending>>
          BY <2>4, <3>1 DEF MainReturns
        <4> QED
          BY <2>1, <4>1, <1>t, WayStays DEF ExitOK
      <3>2. CASE ~terminating
        BY <2>2, <2>4, <3>2 DEF MainReturns
      <3> QED
        BY <3>1, <3>2
    <2> QED
      BY <1>4, <2>3, <2>4 DEF Initiating
  <1>5. ASSUME NEW x \in Exiters, Exiting(x)
        PROVE  WayInv'
    <2>1. UNCHANGED listenerVars /\ UNCHANGED <<terminating, pending>>
      BY <1>5 DEF Exiting, Initiated, Drained, Joined, GraceOver, Destroyed, exitVars
    <2>2. \A y \in Exiters : exiting[y] = "notifying" /\ pending[y] # {} => exiting'[y] = "notifying"
      BY <1>5, <1>t DEF Exiting, Initiated, Drained, Joined, GraceOver, Destroyed, exitVars, ExitOK
    <2> QED
      BY <2>1, <2>2, WayStays
  <1>6. CASE UNCHANGED vars
    BY <1>6, WayStays DEF vars, exitVars
  <1> QED
    BY <1>1, <1>2, <1>3, <1>4, <1>5, <1>6 DEF Next, Over

\* The safety half of SignalIsNotLost and of ExitEnds: no subscription falls between
\* the look at the flag and the notifications, and none that was let go holds up the
\* end.
THEOREM NoSignalIsLost == Spec => [](SignalIsOnItsWay /\ OnlyScopesBorrow)
  <1>1. Init => WayInv /\ CalledInv /\ PendingInv
    BY DEF Init, WayInv, OnlyScopesBorrow, CalledInv, PendingInv
  <1>2. WayInv /\ CalledInv => SignalIsOnItsWay /\ OnlyScopesBorrow
    BY DEF WayInv, CalledInv, SignalIsOnItsWay
  <1> QED
    BY <1>1, <1>2, LifetimeTypeInvariant, CalledNext, WayNext, PTL DEF Spec
=============================================================================
