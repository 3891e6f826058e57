-------------------------- MODULE ActorModelProofs --------------------------
(***************************************************************************)
(* Theorems about ActorModel, for every value of its constants.            *)
(***************************************************************************)
EXTENDS ActorModel, SequenceTheorems, TLAPS

-----------------------------------------------------------------------------
(* The type invariant.                                                     *)

LEMMA TypeInit == Init => TypeOK
<1> SUFFICES ASSUME Init PROVE TypeOK
  OBVIOUS
<1>1. <<>> \in Seq(Event)
  BY EmptySeq
<1> QED
  BY <1>1 DEF Init, TypeOK, Phases, WorkerPoints

LEMMA TypeNext == TypeOK /\ [Next]_vars => TypeOK'
<1> SUFFICES ASSUME TypeOK, [Next]_vars PROVE TypeOK'
  OBVIOUS
<1> USE ConstantsAssumption DEF TypeOK, Phases, WorkerPoints, Threads, pubVars, scopeVars,
                                queueVars, workerVars, vars
<1>1. ASSUME NEW t \in Threads, NEW tid \in Topics, PublishBegin(t, tid) PROVE TypeOK'
  <2>1. [id |-> nextId, topic |-> tid, by |-> t] \in Event
    BY DEF Event
  <2>2. inHand' \in [Threads -> Event \cup {NoEvent}]
    BY <1>1, <2>1 DEF PublishBegin
  <2>3. todo' \in [Threads -> SUBSET Subs] /\ nextId' \in Nat
    BY <1>1 DEF PublishBegin
  <2>4. UNCHANGED <<scopeVars, queueVars, workerVars, trackersMutex, owed>>
    BY <1>1 DEF PublishBegin
  <2> QED
    BY <2>2, <2>3, <2>4
<1>2. ASSUME NEW t \in Threads, NEW s \in Subs, Deliver(t, s) PROVE TypeOK'
  <2>1. inHand[t] \in Event /\ fifo[s] \in Seq(Event)
    BY <1>2 DEF Deliver
  <2>2. Append(fifo[s], inHand[t]) \in Seq(Event)
    BY <2>1, AppendProperties
  <2> QED
    BY <1>2, <2>2 DEF Deliver
<1>3. ASSUME NEW t \in Threads, PublishEnd(t) PROVE TypeOK'
  BY <1>3 DEF PublishEnd
<1>4. ASSUME NEW s \in Subs, Construct(s) PROVE TypeOK'
  BY <1>4 DEF Construct
<1>5. ASSUME NEW s \in Subs, AddTracker(s) PROVE TypeOK'
  BY <1>5 DEF AddTracker
<1>6. ASSUME NEW s \in Subs, NEW tid \in Topics, RegisterType(s, tid) PROVE TypeOK'
  BY <1>6 DEF RegisterType
<1>7. ASSUME NEW s \in Subs, NEW tid \in Topics, AddLink(s, tid) PROVE TypeOK'
  BY <1>7, SMTT(60) DEF AddLink
<1>8. ASSUME NEW s \in Subs, DestroyBegin(s) PROVE TypeOK'
  BY ConcatProperties, <1>8 DEF DestroyBegin, Pipeline
<1>9. ASSUME NEW s \in Subs, NoBorrowersLeft(s) PROVE TypeOK'
  BY <1>9 DEF NoBorrowersLeft
<1>10. ASSUME NEW s \in Subs, RemoveTracker(s) PROVE TypeOK'
  BY <1>10 DEF RemoveTracker
<1>11. ASSUME NEW s \in Subs, CleanupBegin(s) PROVE TypeOK'
  BY <1>11 DEF CleanupBegin
<1>12. ASSUME NEW s \in Subs, NEW ty \in Types, CleanupType(s, ty) PROVE TypeOK'
  BY <1>12 DEF CleanupType, LinksOfType
<1>13. ASSUME NEW s \in Subs, CleanupEnd(s) PROVE TypeOK'
  BY <1>13 DEF CleanupEnd
<1>14. ASSUME NEW s \in Subs, SignalDone(s) PROVE TypeOK'
  BY <1>14 DEF SignalDone
<1>15. ASSUME NEW s \in Subs, Join(s) PROVE TypeOK'
  BY <1>15 DEF Join
<1>16. ASSUME NEW s \in Subs, TakeBatch(s) PROVE TypeOK'
  BY EmptySeq, <1>16 DEF TakeBatch
<1>17. ASSUME NEW s \in Subs, RunEvent(s) PROVE TypeOK'
  BY AppendProperties, HeadTailProperties, <1>17 DEF RunEvent
<1>18. ASSUME NEW s \in Subs, EventReturns(s) PROVE TypeOK'
  BY <1>18 DEF EventReturns
<1>19. ASSUME NEW s \in Subs, EventThrows(s) PROVE TypeOK'
  BY <1>19 DEF EventThrows
<1>20. ASSUME NEW s \in Subs, BatchDone(s) PROVE TypeOK'
  BY <1>20 DEF BatchDone
<1>21. ASSUME NEW s \in Subs, Shutdown(s) PROVE TypeOK'
  BY <1>21 DEF Shutdown
<1>22. CASE UNCHANGED vars
  BY <1>22
<1> QED
  BY <1>1, <1>2, <1>3, <1>4, <1>5, <1>6, <1>7, <1>8, <1>9, <1>10, <1>11, <1>12, <1>13, <1>14, <1>15, <1>16, <1>17, <1>18, <1>19, <1>20, <1>21, <1>22
    DEF Next, Acting, Using, Publishing, Subscribing, Destroying, Working, Rest

\* Every variable keeps its type, whatever the users of the library do.
THEOREM TypeInvariant == Spec => []TypeOK
BY TypeInit, TypeNext, PTL DEF Spec

-----------------------------------------------------------------------------
(* Nobody is called who is not linked, nobody is linked who is not alive.  *)

LEMMA LinkInit == Init => LinkInv /\ GoneInv
BY DEF Init, LinkInv, GoneInv

LEMMA LinkNext == TypeOK /\ LinkInv /\ [Next]_vars => LinkInv'
<1> SUFFICES ASSUME TypeOK, LinkInv, [Next]_vars PROVE LinkInv'
  OBVIOUS
<1> USE ConstantsAssumption DEF TypeOK, LinkInv, Linkable, Phases, Threads, pubVars, scopeVars,
                                queueVars, workerVars, vars
<1>1. ASSUME NEW t \in Threads, NEW tid \in Topics, PublishBegin(t, tid) PROVE LinkInv'
  <2>1. inHand'[t].topic = tid /\ inHand'[t] # NoEvent
    <3>1. [id |-> nextId, topic |-> tid, by |-> t] \in Event
      BY DEF Event
    <3> QED
      BY <1>1, <3>1, SentinelAssumption DEF PublishBegin
  <2>2. todo'[t] = {s \in Subs : <<tid, s>> \in links}
    BY <1>1 DEF PublishBegin
  <2>3. \A u \in Threads \ {t} : inHand'[u] = inHand[u] /\ todo'[u] = todo[u]
    BY <1>1 DEF PublishBegin
  <2>4. UNCHANGED <<links, registered, phase>>
    BY <1>1 DEF PublishBegin
  <2> QED
    BY <2>1, <2>2, <2>3, <2>4
<1>2. ASSUME NEW t \in Threads, NEW s \in Subs, Deliver(t, s) PROVE LinkInv'
  BY <1>2 DEF Deliver
<1>3. ASSUME NEW t \in Threads, PublishEnd(t) PROVE LinkInv'
  BY <1>3 DEF PublishEnd
<1>4. ASSUME NEW s \in Subs, Construct(s) PROVE LinkInv'
  BY <1>4 DEF Construct
<1>5. ASSUME NEW s \in Subs, AddTracker(s) PROVE LinkInv'
  BY <1>5 DEF AddTracker
<1>6. ASSUME NEW s \in Subs, NEW tid \in Topics, RegisterType(s, tid) PROVE LinkInv'
  BY <1>6 DEF RegisterType
<1>7. ASSUME NEW s \in Subs, NEW tid \in Topics, AddLink(s, tid) PROVE LinkInv'
  BY <1>7 DEF AddLink
<1>8. ASSUME NEW s \in Subs, DestroyBegin(s) PROVE LinkInv'
  BY <1>8 DEF DestroyBegin
<1>9. ASSUME NEW s \in Subs, NoBorrowersLeft(s) PROVE LinkInv'
  BY <1>9 DEF NoBorrowersLeft
<1>10. ASSUME NEW s \in Subs, RemoveTracker(s) PROVE LinkInv'
  BY <1>10 DEF RemoveTracker
<1>11. ASSUME NEW s \in Subs, CleanupBegin(s) PROVE LinkInv'
  BY <1>11 DEF CleanupBegin
<1>12. ASSUME NEW s \in Subs, NEW ty \in Types, CleanupType(s, ty) PROVE LinkInv'
  <2>1. ASSUME NEW t \in Threads, NEW r \in todo[t]
        PROVE  <<inHand[t].topic, r>> \notin LinksOfType(s, ty)
    BY <1>12, <2>1 DEF CleanupType, TypeLocked, EventType, LinksOfType
  <2>2. links' \subseteq links /\ \A l \in links : l \in links' \/ l \in LinksOfType(s, ty)
    BY <1>12 DEF CleanupType
  <2>3. UNCHANGED <<inHand, todo, registered, phase>>
    BY <1>12 DEF CleanupType
  <2> QED
    BY <2>1, <2>2, <2>3
<1>13. ASSUME NEW s \in Subs, CleanupEnd(s) PROVE LinkInv'
  <2>1. ASSUME NEW tid \in Topics PROVE <<tid, s>> \notin links
    <3> SUFFICES ASSUME <<tid, s>> \in links PROVE FALSE
      OBVIOUS
    <3>1. tid \in registered[s]
      OBVIOUS
    <3>2. LinksOfType(s, TypeOf[tid]) = {}
      BY <1>13, <3>1 DEF CleanupEnd
    <3>3. <<tid, s>> \in LinksOfType(s, TypeOf[tid])
      BY DEF LinksOfType
    <3> QED
      BY <3>2, <3>3
  <2> QED
    BY <1>13, <2>1 DEF CleanupEnd
<1>14. ASSUME NEW s \in Subs, SignalDone(s) PROVE LinkInv'
  BY <1>14 DEF SignalDone
<1>15. ASSUME NEW s \in Subs, Join(s) PROVE LinkInv'
  BY <1>15 DEF Join
<1>16. ASSUME NEW s \in Subs, Working(s) PROVE LinkInv'
  BY <1>16 DEF Working, TakeBatch, RunEvent, EventReturns, EventThrows, BatchDone, Shutdown
<1>17. CASE UNCHANGED vars
  BY <1>17
<1> QED
  BY <1>1, <1>2, <1>3, <1>4, <1>5, <1>6, <1>7, <1>8, <1>9, <1>10, <1>11, <1>12, <1>13, <1>14,
     <1>15, <1>16, <1>17
     DEF Next, Acting, Using, Publishing, Subscribing, Destroying, Rest

LEMMA LinkInvImplies == TypeOK /\ LinkInv => TargetsAlive
<1> SUFFICES ASSUME TypeOK, LinkInv, NEW s \in Subs,
                    \/ \E t \in Threads : s \in todo[t]
                    \/ \E tid \in Topics : <<tid, s>> \in links
             PROVE  phase[s] \in Linkable
  BY DEF TargetsAlive, Linkable
<1>1. ASSUME NEW t \in Threads, s \in todo[t] PROVE \E tid \in Topics : <<tid, s>> \in links
  <2>1. <<inHand[t].topic, s>> \in links /\ links \subseteq Topics \X Subs
    BY <1>1 DEF LinkInv, TypeOK
  <2> QED
    BY <2>1
<1> QED
  BY <1>1 DEF LinkInv

\* The lambda stored by AddGenericLink never runs, and is never kept, for a scope
\* that does not accept events any more.
THEOREM TargetsStayAlive == Spec => []TargetsAlive
<1>1. Init => TypeOK /\ LinkInv
  BY TypeInit, LinkInit
<1>2. TypeOK /\ LinkInv /\ [Next]_vars => TypeOK' /\ LinkInv'
  BY TypeNext, LinkNext
<1> QED
  BY <1>1, <1>2, LinkInvImplies, PTL DEF Spec

LEMMA GoneNext == TypeOK /\ GoneInv /\ [Next]_vars => GoneInv'
<1> SUFFICES ASSUME TypeOK, GoneInv, [Next]_vars PROVE GoneInv'
  OBVIOUS
<1> USE ConstantsAssumption DEF TypeOK, GoneInv, pubVars, scopeVars, queueVars, workerVars, vars
<1>1. ASSUME NEW t \in Threads, NEW tid \in Topics, PublishBegin(t, tid) PROVE GoneInv'
  BY <1>1 DEF PublishBegin
<1>2. ASSUME NEW t \in Threads, Publishing(t) PROVE GoneInv'
  BY <1>2 DEF Publishing, Deliver, PublishEnd
<1>3. ASSUME NEW s \in Subs, Construct(s) \/ DestroyBegin(s) PROVE GoneInv'
  BY <1>3, SMTT(60) DEF Construct, DestroyBegin
<1>4. ASSUME NEW s \in Subs, Subscribing(s) PROVE GoneInv'
  BY <1>4 DEF Subscribing, AddTracker, RegisterType, AddLink
<1>5. ASSUME NEW s \in Subs, Destroying(s) PROVE GoneInv'
  BY <1>5, SMTT(60) DEF Destroying, NoBorrowersLeft, RemoveTracker, CleanupBegin, CleanupType, CleanupEnd,
              SignalDone, Join
<1>6. ASSUME NEW s \in Subs, Working(s) PROVE GoneInv'
  BY <1>6 DEF Working, TakeBatch, RunEvent, EventReturns, EventThrows, BatchDone, Shutdown
<1>7. CASE UNCHANGED vars
  BY <1>7
<1> QED
  BY <1>1, <1>2, <1>3, <1>4, <1>5, <1>6, <1>7 DEF Next, Acting, Using, Rest

LEMMA GoneSilent ==
  TypeOK /\ LinkInv /\ GoneInv /\ [Next]_vars =>
    \A s \in Subs : phase[s] = "gone" =>
      handled'[s] = handled[s] /\ numQueued'[s] = numQueued[s] /\ phase'[s] = "gone"
<1> SUFFICES ASSUME TypeOK, LinkInv, GoneInv, [Next]_vars, NEW r \in Subs, phase[r] = "gone"
             PROVE  handled'[r] = handled[r] /\ numQueued'[r] = numQueued[r] /\ phase'[r] = "gone"
  OBVIOUS
<1> DEFINE Silent == handled'[r] = handled[r] /\ numQueued'[r] = numQueued[r] /\ phase'[r] = "gone"
<1> USE ConstantsAssumption DEF TypeOK, pubVars, scopeVars, queueVars, workerVars, vars
<1>1. ASSUME NEW t \in Threads, NEW tid \in Topics, PublishBegin(t, tid) PROVE Silent
  BY <1>1 DEF PublishBegin
<1>2. ASSUME NEW t \in Threads, NEW s \in Subs, Deliver(t, s) PROVE Silent
  <2>1. s # r
    BY <1>2, LinkInvImplies DEF Deliver, TargetsAlive
  <2> QED
    BY <1>2, <2>1 DEF Deliver
<1>3. ASSUME NEW t \in Threads, PublishEnd(t) PROVE Silent
  BY <1>3 DEF PublishEnd
<1>4. ASSUME NEW s \in Subs, Construct(s) \/ DestroyBegin(s) PROVE Silent
  BY <1>4 DEF Construct, DestroyBegin
<1>5. ASSUME NEW s \in Subs, Subscribing(s) PROVE Silent
  BY <1>5 DEF Subscribing, AddTracker, RegisterType, AddLink
<1>6. ASSUME NEW s \in Subs, Destroying(s) PROVE Silent
  BY <1>6 DEF Destroying, NoBorrowersLeft, RemoveTracker, CleanupBegin, CleanupType, CleanupEnd,
              SignalDone, Join
<1>7. ASSUME NEW s \in Subs, Working(s) PROVE Silent
  <2>1. s # r
    BY <1>7 DEF Working, TakeBatch, RunEvent, EventReturns, EventThrows, BatchDone, Shutdown, GoneInv
  <2> QED
    BY <1>7, <2>1 DEF Working, TakeBatch, RunEvent, EventReturns, EventThrows, BatchDone, Shutdown
<1>8. CASE UNCHANGED vars
  BY <1>8
<1> QED
  BY <1>1, <1>2, <1>3, <1>4, <1>5, <1>6, <1>7, <1>8 DEF Next, Acting, Using, Publishing, Rest

\* Once the destructor of a scope has returned nothing is enqueued into it and no
\* OnEvent of it runs, whatever was being published when it was cleaned up.
THEOREM GoneStaysSilent == Spec => SilentAfterGone
<1>1. Init => TypeOK /\ LinkInv /\ GoneInv
  BY TypeInit, LinkInit
<1>2. TypeOK /\ LinkInv /\ GoneInv /\ [Next]_vars => TypeOK' /\ LinkInv' /\ GoneInv'
  BY TypeNext, LinkNext, GoneNext
<1>3. TypeOK /\ LinkInv /\ GoneInv /\ [Next]_vars =>
        [\A s \in Subs : phase[s] = "gone" =>
           /\ handled'[s] = handled[s]
           /\ numQueued'[s] = numQueued[s]
           /\ phase'[s] = "gone"]_vars
  BY GoneSilent
<1> QED
  BY <1>1, <1>2, <1>3, PTL DEF Spec, SilentAfterGone

-----------------------------------------------------------------------------
(* Pipelines: a delivery appends, the worker only moves what is in them.   *)

LEMMA Enqueue ==
  ASSUME NEW S, NEW d \in Seq(S), NEW b \in Seq(S), NEW f \in Seq(S), NEW e \in S
  PROVE  (d \o b) \o Append(f, e) = Append((d \o b) \o f, e)
<1>1. d \o b \in Seq(S) /\ <<e>> \in Seq(S) /\ (d \o b) \o f \in Seq(S)
  BY ConcatProperties
<1>2. Append(f, e) = f \o <<e>> /\ Append((d \o b) \o f, e) = ((d \o b) \o f) \o <<e>>
  BY <1>1, AppendIsConcat
<1> QED
  BY <1>1, <1>2, ConcatAssociative, SMTT(60)

LEMMA SwapOut ==
  ASSUME NEW S, NEW d \in Seq(S), NEW f \in Seq(S)
  PROVE  (d \o f) \o <<>> = (d \o <<>>) \o f
<1>1. d \o f \in Seq(S)
  BY ConcatProperties
<1> QED
  BY <1>1, ConcatEmptySeq

LEMMA CallNext ==
  ASSUME NEW S, NEW d \in Seq(S), NEW b \in Seq(S), b # <<>>
  PROVE  Append(d, Head(b)) \o Tail(b) = d \o b
<1>1. Head(b) \in S /\ Tail(b) \in Seq(S) /\ Append(d, Head(b)) \in Seq(S)
  BY HeadTailProperties, AppendProperties
<1>2. Len(b) \in Nat /\ Len(b) > 0 /\ Len(d) \in Nat /\ Head(b) = b[1]
  BY EmptySeq, LenProperties
<1>3. Append(d, Head(b)) \o Tail(b) \in Seq(S) /\ d \o b \in Seq(S)
  BY <1>1, ConcatProperties
<1>4. Len(Append(d, Head(b))) = Len(d) + 1 /\ Len(Tail(b)) = Len(b) - 1
  BY <1>1, AppendProperties, HeadTailProperties
<1>5. Len(Append(d, Head(b)) \o Tail(b)) = Len(d) + Len(b) /\ Len(d \o b) = Len(d) + Len(b)
  BY <1>1, <1>2, <1>4, ConcatProperties
<1>6. ASSUME NEW i \in 1..(Len(d) + Len(b))
      PROVE  (Append(d, Head(b)) \o Tail(b))[i] = (d \o b)[i]
  <2>1. (d \o b)[i] = IF i <= Len(d) THEN d[i] ELSE b[i - Len(d)]
    BY ConcatProperties
  <2>2. (Append(d, Head(b)) \o Tail(b))[i] =
          IF i <= Len(d) + 1 THEN Append(d, Head(b))[i] ELSE Tail(b)[i - (Len(d) + 1)]
    BY <1>1, <1>2, <1>4, ConcatProperties
  <2>3. CASE i <= Len(d)
    BY <1>1, <1>2, <2>1, <2>2, <2>3, AppendProperties
  <2>4. CASE i = Len(d) + 1
    BY <1>1, <1>2, <2>1, <2>2, <2>4, AppendProperties
  <2>5. CASE i > Len(d) + 1
    <3>1. i - (Len(d) + 1) \in 1..Len(Tail(b)) /\ (i - (Len(d) + 1)) + 1 = i - Len(d)
      BY <1>2, <1>4, <2>5
    <3>2. Tail(b)[i - (Len(d) + 1)] = b[i - Len(d)]
      BY <3>1, HeadTailProperties
    <3> QED
      BY <1>2, <2>1, <2>2, <2>5, <3>2
  <2> QED
    BY <1>2, <2>3, <2>4, <2>5
<1> QED
  BY <1>2, <1>3, <1>5, <1>6, SeqEqual

LEMMA BatchInit == Init => BatchInv
BY DEF Init, BatchInv

LEMMA BatchNext == TypeOK /\ GoneInv /\ BatchInv /\ [Next]_vars => BatchInv'
<1> SUFFICES ASSUME TypeOK, GoneInv, BatchInv, [Next]_vars PROVE BatchInv'
  OBVIOUS
<1> USE ConstantsAssumption DEF TypeOK, BatchInv, pubVars, scopeVars, queueVars, workerVars, vars
<1>1. ASSUME NEW t \in Threads, NEW tid \in Topics, PublishBegin(t, tid) PROVE BatchInv'
  BY <1>1 DEF PublishBegin
<1>2. ASSUME NEW t \in Threads, Publishing(t) PROVE BatchInv'
  BY <1>2 DEF Publishing, Deliver, PublishEnd
<1>3. ASSUME NEW s \in Subs, Construct(s) \/ DestroyBegin(s) PROVE BatchInv'
  BY <1>3 DEF Construct, DestroyBegin, GoneInv
<1>4. ASSUME NEW s \in Subs, Subscribing(s) PROVE BatchInv'
  BY <1>4 DEF Subscribing, AddTracker, RegisterType, AddLink
<1>5. ASSUME NEW s \in Subs, Destroying(s) PROVE BatchInv'
  BY <1>5 DEF Destroying, NoBorrowersLeft, RemoveTracker, CleanupBegin, CleanupType, CleanupEnd,
              SignalDone, Join
<1>6. ASSUME NEW s \in Subs, Working(s) PROVE BatchInv'
  BY <1>6 DEF Working, TakeBatch, RunEvent, EventReturns, EventThrows, BatchDone, Shutdown
<1>7. CASE UNCHANGED vars
  BY <1>7
<1> QED
  BY <1>1, <1>2, <1>3, <1>4, <1>5, <1>6, <1>7 DEF Next, Acting, Using, Rest

LEMMA PipelineType == TypeOK => \A s \in Subs : Pipeline(s) \in Seq(Event)
<1> SUFFICES ASSUME TypeOK, NEW s \in Subs PROVE Pipeline(s) \in Seq(Event)
  OBVIOUS
<1>1. handled[s] \in Seq(Event) /\ batch[s] \in Seq(Event) /\ fifo[s] \in Seq(Event)
  BY DEF TypeOK
<1>2. handled[s] \o batch[s] \in Seq(Event)
  BY <1>1, ConcatProperties
<1> QED
  BY <1>1, <1>2, ConcatProperties DEF Pipeline

LEMMA PipelineUnchanged ==
  UNCHANGED <<fifo, batch, handled>> => \A s \in Subs : Pipeline(s)' = Pipeline(s)
BY DEF Pipeline

LEMMA PipelineDeliver ==
  ASSUME TypeOK, NEW t \in Threads, NEW s \in Subs, Deliver(t, s)
  PROVE  /\ inHand[t] \in Event
         /\ Pipeline(s)' = Append(Pipeline(s), inHand[t])
         /\ \A r \in Subs \ {s} : Pipeline(r)' = Pipeline(r)
<1>1. inHand[t] \in Event /\ fifo[s] \in Seq(Event) /\ batch[s] \in Seq(Event) /\ handled[s] \in Seq(Event)
  BY DEF TypeOK, Deliver
<1>2. fifo' = [fifo EXCEPT ![s] = Append(fifo[s], inHand[t])] /\ UNCHANGED <<batch, handled>>
  BY DEF Deliver, workerVars
<1>3. fifo'[s] = Append(fifo[s], inHand[t]) /\ \A r \in Subs \ {s} : fifo'[r] = fifo[r]
  BY <1>2 DEF TypeOK
<1>4. (handled[s] \o batch[s]) \o Append(fifo[s], inHand[t])
        = Append((handled[s] \o batch[s]) \o fifo[s], inHand[t])
  <2>1. \A d, b, f \in Seq(Event), e \in Event : (d \o b) \o Append(f, e) = Append((d \o b) \o f, e)
    BY Enqueue, SMTT(60)
  <2> QED
    BY <1>1, <2>1
<1>5. Pipeline(s)' = Append(Pipeline(s), inHand[t])
  BY <1>2, <1>3, <1>4 DEF Pipeline
<1>6. \A r \in Subs \ {s} : Pipeline(r)' = Pipeline(r)
  BY <1>2, <1>3 DEF Pipeline
<1> QED
  BY <1>1, <1>5, <1>6

LEMMA PipelineWorking ==
  ASSUME TypeOK, BatchInv, NEW s \in Subs, Working(s)
  PROVE  \A r \in Subs : Pipeline(r)' = Pipeline(r)
<1> USE DEF TypeOK, queueVars, workerVars
<1>1. CASE TakeBatch(s)
  <2>1. batch[s] = <<>> /\ handled[s] \in Seq(Event) /\ fifo[s] \in Seq(Event)
    BY <1>1 DEF TakeBatch, BatchInv
  <2>2. batch'[s] = fifo[s] /\ fifo'[s] = <<>> /\ handled' = handled
    BY <1>1 DEF TakeBatch
  <2>3. \A r \in Subs \ {s} : batch'[r] = batch[r] /\ fifo'[r] = fifo[r]
    BY <1>1 DEF TakeBatch
  <2>4. (handled[s] \o fifo[s]) \o <<>> = (handled[s] \o <<>>) \o fifo[s]
    BY <2>1, SwapOut
  <2> QED
    BY <2>1, <2>2, <2>3, <2>4 DEF Pipeline
<1>2. CASE RunEvent(s)
  <2>1. batch[s] # <<>> /\ batch[s] \in Seq(Event) /\ handled[s] \in Seq(Event)
    BY <1>2 DEF RunEvent
  <2>2. handled'[s] = Append(handled[s], Head(batch[s])) /\ batch'[s] = Tail(batch[s]) /\ fifo' = fifo
    BY <1>2 DEF RunEvent
  <2>3. \A r \in Subs \ {s} : batch'[r] = batch[r] /\ handled'[r] = handled[r]
    BY <1>2 DEF RunEvent
  <2>4. handled'[s] \o batch'[s] = handled[s] \o batch[s]
    BY <2>1, <2>2, CallNext
  <2> QED
    BY <2>2, <2>3, <2>4 DEF Pipeline
<1>3. CASE EventReturns(s) \/ EventThrows(s) \/ BatchDone(s) \/ Shutdown(s)
  BY <1>3, PipelineUnchanged DEF EventReturns, EventThrows, BatchDone, Shutdown
<1> QED
  BY <1>1, <1>2, <1>3 DEF Working

-----------------------------------------------------------------------------
(* Order.                                                                  *)

LEMMA EventFields == \A e \in Event : e.id \in Nat /\ e.topic \in Topics /\ e.by \in Threads
BY DEF Event

LEMMA InHandFields ==
  TypeOK => \A t \in Threads : inHand[t] # NoEvent => inHand[t] \in Event /\ inHand[t].id \in Nat
BY EventFields DEF TypeOK

LEMMA PipelineIds ==
  TypeOK => \A s \in Subs : \A i \in 1..Len(Pipeline(s)) : Pipeline(s)[i] \in Event /\ Pipeline(s)[i].id \in Nat
BY PipelineType, ElementOfSeq, EventFields

LEMMA OrderedAppend ==
  ASSUME NEW q \in Seq(Event), NEW e \in Event, Ordered(q),
         \A i \in 1..Len(q) : Related(q[i], e) => q[i].id < e.id
  PROVE  Ordered(Append(q, e))
<1> DEFINE r == Append(q, e)
<1>1. Len(q) \in Nat /\ Len(r) = Len(q) + 1 /\ r[Len(q) + 1] = e /\ \A i \in 1..Len(q) : r[i] = q[i]
  BY LenProperties, AppendProperties
<1> SUFFICES ASSUME NEW i \in 1..Len(r), NEW j \in 1..Len(r), i < j, Related(r[i], r[j])
             PROVE  r[i].id < r[j].id
  BY DEF Ordered
<1>2. i \in 1..Len(q) /\ r[i] = q[i]
  BY <1>1
<1>3. CASE j = Len(q) + 1
  BY <1>1, <1>2, <1>3
<1>4. CASE j \in 1..Len(q)
  BY <1>1, <1>2, <1>4 DEF Ordered
<1> QED
  BY <1>1, <1>3, <1>4

LEMMA OrderInit == Init => OrderInv
<1> SUFFICES ASSUME Init PROVE OrderInv
  OBVIOUS
<1>1. \A s \in Subs : Pipeline(s) = <<>>
  BY ConcatEmptySeq, EmptySeq DEF Init, Pipeline
<1>2. \A s \in Subs : Len(Pipeline(s)) = 0
  BY <1>1
<1> QED
  BY <1>2 DEF Init, OrderInv, NumberInv, LockInv, PendingInv, CausalOrder, Ordered

\* A step that publishes and delivers nothing.
LEMMA OrderQuiet ==
  ASSUME TypeOK, OrderInv, UNCHANGED nextId,
         \A s \in Subs : Pipeline(s)' = Pipeline(s),
         \A t \in Threads : inHand'[t] \in {inHand[t], NoEvent} /\ todo'[t] = todo[t],
         \A t \in Threads : todo[t] # {} => inHand'[t] = inHand[t]
  PROVE  OrderInv'
<1>1. NumberInv'
  BY DEF OrderInv, NumberInv
<1>2. LockInv'
  BY DEF OrderInv, LockInv, EventType
<1>3. PendingInv'
  <2>1. \A t \in Threads : \A s \in todo[t] : s \in Subs /\ inHand'[t] = inHand[t]
    BY DEF TypeOK
  <2> QED
    BY <2>1 DEF OrderInv, PendingInv, Related, EventType
<1>4. CausalOrder'
  BY DEF OrderInv, CausalOrder, Ordered, Related, EventType
<1> QED
  BY <1>1, <1>2, <1>3, <1>4 DEF OrderInv

LEMMA OrderPublishBegin ==
  ASSUME TypeOK, OrderInv, NEW t \in Threads, NEW tid \in Topics, PublishBegin(t, tid)
  PROVE  OrderInv'
<1> DEFINE e == [id |-> nextId, topic |-> tid, by |-> t]
<1>1. e \in Event /\ nextId \in Nat /\ e.id = nextId /\ e.by = t /\ EventType(e) = TypeOf[tid]
  BY DEF TypeOK, Event, EventType
<1>2. inHand'[t] = e /\ \A u \in Threads \ {t} : inHand'[u] = inHand[u] /\ todo'[u] = todo[u]
  BY DEF TypeOK, PublishBegin
<1>3. \A s \in Subs : Pipeline(s)' = Pipeline(s)
  BY PipelineUnchanged DEF PublishBegin, queueVars, workerVars
<1>4. nextId' = nextId + 1
  BY DEF PublishBegin
<1>5. NumberInv'
  <2>1. \A u \in Threads : inHand'[u] # NoEvent => inHand'[u].id < nextId' /\ inHand'[u].by = u
    BY <1>1, <1>2, <1>4, InHandFields DEF OrderInv, NumberInv
  <2>2. \A s \in Subs : \A i \in 1..Len(Pipeline(s)) : Pipeline(s)[i].id < nextId'
    BY <1>1, <1>4, PipelineIds DEF OrderInv, NumberInv
  <2> QED
    BY <2>1, <2>2, <1>3 DEF NumberInv
<1>6. LockInv'
  <2>1. \A u \in Threads \ {t} : inHand[u] # NoEvent => EventType(inHand[u]) # EventType(e)
    BY <1>1 DEF PublishBegin, TypeLocked
  <2> QED
    BY <1>2, <2>1 DEF OrderInv, LockInv, EventType
<1>7. PendingInv'
  <2> SUFFICES ASSUME NEW u \in Threads, NEW s \in todo'[u], NEW i \in 1..Len(Pipeline(s)),
                      Related(Pipeline(s)[i], inHand'[u]), s \in Subs
               PROVE  Pipeline(s)[i].id < inHand'[u].id
    <3>1. todo'[t] \subseteq Subs /\ \A u \in Threads : todo[u] \subseteq Subs
      BY DEF TypeOK, PublishBegin
    <3> QED
      BY <1>2, <1>3, <3>1 DEF PendingInv, Related, EventType
  <2>1. CASE u = t
    BY <1>1, <1>2, <2>1 DEF OrderInv, NumberInv
  <2>2. CASE u # t
    BY <1>2, <2>2 DEF OrderInv, PendingInv
  <2> QED
    BY <2>1, <2>2
<1>8. CausalOrder'
  BY <1>3 DEF OrderInv, CausalOrder, Ordered, Related, EventType
<1> QED
  BY <1>5, <1>6, <1>7, <1>8 DEF OrderInv

LEMMA OrderDeliver ==
  ASSUME TypeOK, LinkInv, OrderInv, NEW t \in Threads, NEW s \in Subs, Deliver(t, s)
  PROVE  OrderInv'
<1> DEFINE e == inHand[t]
<1>1. e \in Event /\ e # NoEvent /\ e.id \in Nat /\ e.id < nextId /\ e.by = t
  BY InHandFields DEF Deliver, OrderInv, NumberInv
<1>2. Pipeline(s) \in Seq(Event) /\ Len(Pipeline(s)) \in Nat
  BY PipelineType, LenProperties
<1>3. /\ Pipeline(s)' = Append(Pipeline(s), e)
      /\ \A r \in Subs \ {s} : Pipeline(r)' = Pipeline(r)
  BY PipelineDeliver
<1>4. /\ Len(Pipeline(s)') = Len(Pipeline(s)) + 1
      /\ \A i \in 1..Len(Pipeline(s)) : Pipeline(s)'[i] = Pipeline(s)[i]
      /\ Pipeline(s)'[Len(Pipeline(s)) + 1] = e
  BY <1>1, <1>2, <1>3, AppendProperties
<1>5. UNCHANGED <<nextId, inHand>> /\ s \in todo[t]
  BY DEF Deliver
<1>6. todo'[t] = todo[t] \ {s} /\ \A u \in Threads \ {t} : todo'[u] = todo[u]
  BY DEF Deliver, TypeOK
<1>7. NumberInv'
  <2>1. \A i \in 1..Len(Pipeline(s)') : Pipeline(s)'[i].id < nextId
    BY <1>1, <1>2, <1>4 DEF OrderInv, NumberInv
  <2> QED
    BY <1>3, <1>5, <2>1 DEF OrderInv, NumberInv
<1>8. LockInv'
  BY <1>5 DEF OrderInv, LockInv, EventType
<1>9. PendingInv'
  <2> SUFFICES ASSUME NEW u \in Threads, NEW r \in todo'[u], NEW i \in 1..Len(Pipeline(r)'),
                      Related(Pipeline(r)'[i], inHand[u])
               PROVE  Pipeline(r)'[i].id < inHand[u].id
    BY <1>5 DEF PendingInv, Related, EventType
  <2>1. r \in todo[u] /\ r \in Subs /\ ~ (u = t /\ r = s)
    BY <1>6 DEF TypeOK
  <2>2. CASE r # s
    BY <1>3, <2>1, <2>2 DEF OrderInv, PendingInv
  <2>3. CASE r = s /\ i \in 1..Len(Pipeline(s))
    BY <1>4, <2>1, <2>3 DEF OrderInv, PendingInv
  <2>4. CASE r = s /\ i = Len(Pipeline(s)) + 1
    <3>1. u # t /\ inHand[u] # NoEvent /\ inHand[u].by = u
      BY <2>1, <2>4 DEF LinkInv, OrderInv, NumberInv
    <3>2. EventType(e) # EventType(inHand[u])
      BY <1>1, <3>1 DEF OrderInv, LockInv
    <3>3. ~ Related(e, inHand[u])
      BY <1>1, <3>1, <3>2 DEF Related
    <3> QED
      BY <1>4, <2>4, <3>3
  <2> QED
    BY <1>2, <1>4, <2>2, <2>3, <2>4
<1>10. CausalOrder'
  <2>1. Ordered(Append(Pipeline(s), e))
    BY <1>1, <1>2, <1>5, OrderedAppend DEF OrderInv, CausalOrder, PendingInv
  <2> QED
    BY <1>3, <2>1 DEF OrderInv, CausalOrder, Ordered, Related, EventType
<1> QED
  BY <1>7, <1>8, <1>9, <1>10 DEF OrderInv

LEMMA OrderNext == TypeOK /\ LinkInv /\ BatchInv /\ OrderInv /\ [Next]_vars => OrderInv'
<1> SUFFICES ASSUME TypeOK, LinkInv, BatchInv, OrderInv, [Next]_vars PROVE OrderInv'
  OBVIOUS
<1> USE DEF pubVars, scopeVars, queueVars, workerVars
<1>1. ASSUME NEW t \in Threads, NEW tid \in Topics, PublishBegin(t, tid) PROVE OrderInv'
  BY <1>1, OrderPublishBegin
<1>2. ASSUME NEW t \in Threads, NEW s \in Subs, Deliver(t, s) PROVE OrderInv'
  BY <1>2, OrderDeliver
<1>3. ASSUME NEW t \in Threads, PublishEnd(t) PROVE OrderInv'
  <2>1. UNCHANGED <<nextId, todo>> /\ todo[t] = {} /\ \A u \in Threads \ {t} : inHand'[u] = inHand[u]
    BY <1>3 DEF PublishEnd, TypeOK
  <2>2. inHand'[t] = NoEvent
    BY <1>3 DEF PublishEnd, TypeOK
  <2>3. \A s \in Subs : Pipeline(s)' = Pipeline(s)
    BY <1>3, PipelineUnchanged DEF PublishEnd
  <2> QED
    BY <2>1, <2>2, <2>3, OrderQuiet
<1>4. ASSUME UNCHANGED pubVars, UNCHANGED <<fifo, batch, handled>> PROVE OrderInv'
  BY <1>4, PipelineUnchanged, OrderQuiet
<1>5. ASSUME NEW s \in Subs, Construct(s) \/ DestroyBegin(s) PROVE OrderInv'
  BY <1>4, <1>5 DEF Construct, DestroyBegin
<1>6. ASSUME NEW s \in Subs, Subscribing(s) PROVE OrderInv'
  BY <1>4, <1>6 DEF Subscribing, AddTracker, RegisterType, AddLink
<1>7. ASSUME NEW s \in Subs, Destroying(s) PROVE OrderInv'
  BY <1>4, <1>7 DEF Destroying, NoBorrowersLeft, RemoveTracker, CleanupBegin, CleanupType, CleanupEnd,
                    SignalDone, Join
<1>8. ASSUME NEW s \in Subs, Working(s) PROVE OrderInv'
  <2>1. UNCHANGED pubVars
    BY <1>8 DEF Working, TakeBatch, RunEvent, EventReturns, EventThrows, BatchDone, Shutdown
  <2>2. \A r \in Subs : Pipeline(r)' = Pipeline(r)
    BY <1>8, PipelineWorking
  <2> QED
    BY <2>1, <2>2, OrderQuiet
<1>9. CASE UNCHANGED vars
  BY <1>4, <1>9 DEF vars
<1> QED
  BY <1>1, <1>2, <1>3, <1>5, <1>6, <1>7, <1>8, <1>9 DEF Next, Acting, Using, Publishing, Rest

\* All subscriptions see the events of a type, and those of an emitter, in the
\* order in which they were published, and each of them once.
THEOREM OrderIsKept == Spec => []CausalOrder
<1> DEFINE I == TypeOK /\ LinkInv /\ GoneInv /\ BatchInv /\ OrderInv
<1>1. Init => I
  BY TypeInit, LinkInit, BatchInit, OrderInit
<1>2. I /\ [Next]_vars => I'
  BY TypeNext, LinkNext, GoneNext, BatchNext, OrderNext
<1>3. I => CausalOrder
  BY DEF OrderInv
<1> QED
  BY <1>1, <1>2, <1>3, PTL DEF Spec

-----------------------------------------------------------------------------
(* Draining.                                                               *)

LEMMA PrefixOfAppend ==
  ASSUME NEW p \in Seq(Event), NEW q \in Seq(Event), NEW e \in Event, IsPrefixOf(p, q)
  PROVE  IsPrefixOf(p, Append(q, e))
<1>1. Len(p) \in Nat /\ Len(q) \in Nat
  BY LenProperties
<1>2. Len(Append(q, e)) = Len(q) + 1 /\ \A i \in 1..Len(q) : Append(q, e)[i] = q[i]
  BY AppendProperties
<1> QED
  BY <1>1, <1>2 DEF IsPrefixOf

LEMMA DrainInit == Init => DrainInv
BY DEF Init, DrainInv, DrainedFirst

LEMMA DrainNext == TypeOK /\ BatchInv /\ DrainInv /\ [Next]_vars => DrainInv'
<1> SUFFICES ASSUME TypeOK, BatchInv, DrainInv, [Next]_vars PROVE DrainInv'
  OBVIOUS
<1> USE DEF pubVars, scopeVars, queueVars, workerVars
<1>1. ASSUME UNCHANGED <<phase, owed, handled>>, \A s \in Subs : Pipeline(s)' = Pipeline(s)
      PROVE  DrainInv'
  BY <1>1 DEF DrainInv, DrainedFirst, IsPrefixOf
<1>2. ASSUME UNCHANGED <<phase, owed, fifo, batch, handled>> PROVE DrainInv'
  BY <1>1, <1>2, PipelineUnchanged
<1>3. ASSUME NEW t \in Threads, NEW tid \in Topics, PublishBegin(t, tid) PROVE DrainInv'
  BY <1>2, <1>3 DEF PublishBegin
<1>4. ASSUME NEW t \in Threads, NEW s \in Subs, Deliver(t, s) PROVE DrainInv'
  <2>1. UNCHANGED <<phase, owed, handled>>
    BY <1>4 DEF Deliver
  <2>2. ASSUME NEW r \in Subs, phase[r] = "draining" PROVE IsPrefixOf(owed[r], Pipeline(r)')
    <3>1. IsPrefixOf(owed[r], Pipeline(r)) /\ owed[r] \in Seq(Event) /\ Pipeline(r) \in Seq(Event)
      BY <2>2, PipelineType DEF DrainInv, TypeOK
    <3>2. inHand[t] \in Event /\ (Pipeline(r)' = Pipeline(r) \/ Pipeline(r)' = Append(Pipeline(r), inHand[t]))
      BY <1>4, PipelineDeliver
    <3> QED
      BY <3>1, <3>2, PrefixOfAppend
  <2> QED
    BY <2>1, <2>2 DEF DrainInv, DrainedFirst, IsPrefixOf
<1>5. ASSUME NEW t \in Threads, PublishEnd(t) PROVE DrainInv'
  BY <1>2, <1>5 DEF PublishEnd
<1>6. ASSUME NEW s \in Subs, DestroyBegin(s) PROVE DrainInv'
  <2>1. \A r \in Subs : Pipeline(r)' = Pipeline(r)
    BY <1>6, PipelineUnchanged DEF DestroyBegin
  <2>2. /\ phase'[s] = "draining" /\ owed'[s] = Pipeline(s) /\ handled' = handled
        /\ \A r \in Subs \ {s} : phase'[r] = phase[r] /\ owed'[r] = owed[r]
    BY <1>6 DEF DestroyBegin, TypeOK
  <2>3. Len(Pipeline(s)) \in Nat
    BY PipelineType, LenProperties
  <2>4. IsPrefixOf(owed'[s], Pipeline(s)')
    BY <2>1, <2>2, <2>3 DEF IsPrefixOf
  <2>5. \A r \in Subs : phase'[r] = "draining" => IsPrefixOf(owed'[r], Pipeline(r)')
    BY <2>1, <2>2, <2>4 DEF DrainInv
  <2>6. DrainedFirst'
    BY <2>2 DEF DrainInv, DrainedFirst, IsPrefixOf
  <2> QED
    BY <2>5, <2>6 DEF DrainInv, IsPrefixOf
<1>7. ASSUME NEW s \in Subs, NoBorrowersLeft(s) PROVE DrainInv'
  <2>1. /\ \A r \in Subs : Pipeline(r)' = Pipeline(r)
        /\ UNCHANGED <<owed, handled>> /\ phase[s] = "draining" /\ phase'[s] = "untrack"
        /\ \A r \in Subs \ {s} : phase'[r] = phase[r]
    BY <1>7, PipelineUnchanged DEF NoBorrowersLeft, TypeOK
  <2>2. fifo[s] = <<>> /\ batch[s] = <<>> /\ handled[s] \in Seq(Event)
    BY <1>7 DEF NoBorrowersLeft, Borrowed, BatchInv, TypeOK
  <2>3. Pipeline(s) = handled[s]
    BY <2>2, ConcatEmptySeq DEF Pipeline
  <2>4. IsPrefixOf(owed[s], handled[s])
    BY <2>1, <2>3 DEF DrainInv
  <2> QED
    BY <2>1, <2>4 DEF DrainInv, DrainedFirst, IsPrefixOf
<1>8. ASSUME UNCHANGED <<owed, fifo, batch, handled>>, NEW s \in Subs,
             phase'[s] = "draining" => phase[s] = "draining",
             phase'[s] \in {"untrack", "unlink", "cleaning", "stop", "join", "gone"} =>
               phase[s] \in {"untrack", "unlink", "cleaning", "stop", "join", "gone"},
             \A r \in Subs \ {s} : phase'[r] = phase[r]
      PROVE  DrainInv'
  <2>1. \A r \in Subs : Pipeline(r)' = Pipeline(r)
    BY <1>8, PipelineUnchanged
  <2> QED
    BY <1>8, <2>1 DEF DrainInv, DrainedFirst, IsPrefixOf
<1>9. ASSUME NEW s \in Subs, Construct(s) PROVE DrainInv'
  BY <1>8, <1>9 DEF Construct, TypeOK
<1>10. ASSUME NEW s \in Subs, Subscribing(s) PROVE DrainInv'
  BY <1>2, <1>8, <1>10 DEF Subscribing, AddTracker, RegisterType, AddLink, TypeOK
<1>11. ASSUME NEW s \in Subs, RemoveTracker(s) \/ CleanupBegin(s) PROVE DrainInv'
  BY <1>8, <1>11 DEF RemoveTracker, CleanupBegin, TypeOK
<1>12. ASSUME NEW s \in Subs, NEW ty \in Types, CleanupType(s, ty) PROVE DrainInv'
  BY <1>2, <1>12 DEF CleanupType
<1>13. ASSUME NEW s \in Subs, CleanupEnd(s) \/ SignalDone(s) \/ Join(s) PROVE DrainInv'
  BY <1>8, <1>13 DEF CleanupEnd, SignalDone, Join, TypeOK
<1>14. ASSUME NEW s \in Subs, Working(s) PROVE DrainInv'
  <2>1. \A r \in Subs : Pipeline(r)' = Pipeline(r)
    BY <1>14, PipelineWorking
  <2>2. UNCHANGED <<phase, owed>>
    BY <1>14 DEF Working, TakeBatch, RunEvent, EventReturns, EventThrows, BatchDone, Shutdown
  <2>3. ASSUME NEW r \in Subs, IsPrefixOf(owed[r], handled[r]) PROVE IsPrefixOf(owed[r], handled'[r])
    <3>1. CASE handled' = handled
      BY <2>3, <3>1
    <3>2. CASE RunEvent(s)
      <4>1. handled[s] \in Seq(Event) /\ batch[s] \in Seq(Event) /\ batch[s] # <<>> /\ owed[r] \in Seq(Event)
        BY <3>2 DEF RunEvent, TypeOK
      <4>2. Head(batch[s]) \in Event
        BY <4>1, HeadTailProperties
      <4>3. handled'[s] = Append(handled[s], Head(batch[s])) /\ (r # s => handled'[r] = handled[r])
        BY <3>2 DEF RunEvent, TypeOK
      <4> QED
        BY <2>3, <4>1, <4>2, <4>3, PrefixOfAppend
    <3> QED
      BY <1>14, <3>1, <3>2 DEF Working, TakeBatch, EventReturns, EventThrows, BatchDone, Shutdown
  <2> QED
    BY <2>1, <2>2, <2>3 DEF DrainInv, DrainedFirst, IsPrefixOf
<1>15. CASE UNCHANGED vars
  BY <1>2, <1>15 DEF vars
<1> QED
  BY <1>3, <1>4, <1>5, <1>6, <1>7, <1>9, <1>10, <1>11, <1>12, <1>13, <1>14, <1>15
     DEF Next, Acting, Using, Publishing, Destroying, Rest

\* What had been queued for a subscription when its scope was let go has been
\* handled, in order, before its tracker, its links and its thread are taken away.
THEOREM ScopesAreDrained == Spec => []DrainedFirst
<1> DEFINE I == TypeOK /\ GoneInv /\ BatchInv /\ DrainInv
<1>1. Init => I
  BY TypeInit, LinkInit, BatchInit, DrainInit
<1>2. I /\ [Next]_vars => I'
  BY TypeNext, GoneNext, BatchNext, DrainNext
<1>3. I => DrainedFirst
  BY DEF DrainInv
<1> QED
  BY <1>1, <1>2, <1>3, PTL DEF Spec

-----------------------------------------------------------------------------
(* The engine implements TopicBroadcast.                                   *)

LEMMA RangeOfAppend ==
  ASSUME NEW q \in Seq(Event), NEW e \in Event
  PROVE  RangeOf(Append(q, e)) = RangeOf(q) \cup {e}
<1>1. /\ Len(q) \in Nat /\ Len(Append(q, e)) = Len(q) + 1 /\ Append(q, e)[Len(q) + 1] = e
      /\ \A i \in 1..Len(q) : Append(q, e)[i] = q[i]
  BY LenProperties, AppendProperties
<1>2. 1..(Len(q) + 1) = (1..Len(q)) \cup {Len(q) + 1}
  BY <1>1
<1> QED
  BY <1>1, <1>2 DEF RangeOf

Inbox(s) == RangeOf(Pipeline(s)) \cup OnItsWay(s)

\* What the abstract state is made of.
LEMMA BroadcastStutters ==
  ASSUME UNCHANGED <<nextId, links, handled, owed>>,
         \A s \in Subs : Stage(s)' = Stage(s) /\ Inbox(s)' = Inbox(s)
  PROVE  UNCHANGED Broadcast!bvars
<1>1. UNCHANGED [s \in Subs |-> RangeOf(Pipeline(s)) \cup OnItsWay(s)]
  BY DEF Inbox
<1>2. UNCHANGED [s \in Subs |-> Stage(s)]
  OBVIOUS
<1>3. UNCHANGED <<[s \in Subs |-> RangeOf(handled[s])], [s \in Subs |-> RangeOf(owed[s])]>>
  BY DEF RangeOf
<1> QED
  BY <1>1, <1>2, <1>3 DEF Broadcast!bvars

LEMMA InboxUnchanged ==
  ASSUME UNCHANGED <<inHand, todo>>, NEW s \in Subs, Pipeline(s)' = Pipeline(s)
  PROVE  Inbox(s)' = Inbox(s)
BY DEF Inbox, OnItsWay, RangeOf

LEMMA PublishBroadcasts ==
  ASSUME TypeOK, LinkInv, NEW t \in Threads, NEW tid \in Topics, PublishBegin(t, tid)
  PROVE  Broadcast!BPublish(t, tid)
<1> DEFINE e == [id |-> nextId, topic |-> tid, by |-> t]
<1>1. /\ inHand'[t] = e /\ todo'[t] = {s \in Subs : <<tid, s>> \in links}
      /\ \A u \in Threads \ {t} : inHand'[u] = inHand[u] /\ todo'[u] = todo[u]
      /\ todo[t] = {}
  BY DEF PublishBegin, TypeOK, LinkInv
<1>2. /\ UNCHANGED <<links, handled, owed, phase>> /\ nextId' = nextId + 1
      /\ \A s \in Subs : Pipeline(s)' = Pipeline(s)
  BY PipelineUnchanged DEF PublishBegin, scopeVars, queueVars, workerVars
<1>3. ASSUME NEW s \in Subs
      PROVE  Inbox(s)' = IF <<tid, s>> \in links THEN Inbox(s) \cup {e} ELSE Inbox(s)
  <2>1. {u \in Threads : s \in todo'[u]}
          = IF <<tid, s>> \in links THEN {u \in Threads : s \in todo[u]} \cup {t}
            ELSE {u \in Threads : s \in todo[u]}
    BY <1>1
  <2>2. t \notin {u \in Threads : s \in todo[u]}
    BY <1>1
  <2>3. OnItsWay(s)' = IF <<tid, s>> \in links THEN OnItsWay(s) \cup {e} ELSE OnItsWay(s)
    BY <1>1, <2>1, <2>2 DEF OnItsWay
  <2> QED
    BY <1>2, <2>3 DEF Inbox, RangeOf
<1>4. [s \in Subs |-> RangeOf(Pipeline(s)) \cup OnItsWay(s)]'
        = [s \in Subs |-> IF <<tid, s>> \in links
                          THEN [r \in Subs |-> RangeOf(Pipeline(r)) \cup OnItsWay(r)][s] \cup {e}
                          ELSE [r \in Subs |-> RangeOf(Pipeline(r)) \cup OnItsWay(r)][s]]
  BY <1>3 DEF Inbox
<1>5. UNCHANGED <<links, [s \in Subs |-> RangeOf(handled[s])], [s \in Subs |-> Stage(s)],
                  [s \in Subs |-> RangeOf(owed[s])]>>
  BY <1>2 DEF RangeOf, Stage
<1> QED
  BY <1>2, <1>4, <1>5 DEF Broadcast!BPublish

\* A call of one link moves the event from its way into the queue.
LEMMA DeliverStutters ==
  ASSUME TypeOK, NEW t \in Threads, NEW s \in Subs, Deliver(t, s)
  PROVE  UNCHANGED Broadcast!bvars
<1>1. /\ inHand[t] \in Event /\ Pipeline(s)' = Append(Pipeline(s), inHand[t])
      /\ \A r \in Subs \ {s} : Pipeline(r)' = Pipeline(r)
  BY PipelineDeliver
<1>2. RangeOf(Pipeline(s)') = RangeOf(Pipeline(s)) \cup {inHand[t]}
  BY <1>1, PipelineType, RangeOfAppend
<1>3. /\ UNCHANGED <<nextId, inHand, links, handled, owed, phase>> /\ s \in todo[t]
      /\ todo'[t] = todo[t] \ {s} /\ \A u \in Threads \ {t} : todo'[u] = todo[u]
  BY DEF Deliver, TypeOK, scopeVars, workerVars
<1>4. {u \in Threads : s \in todo[u]} = {u \in Threads : s \in todo'[u]} \cup {t}
  BY <1>3
<1>5. OnItsWay(s) = OnItsWay(s)' \cup {inHand[t]}
  BY <1>3, <1>4 DEF OnItsWay
<1>6. ASSUME NEW r \in Subs \ {s} PROVE Inbox(r)' = Inbox(r)
  <2>1. {u \in Threads : r \in todo'[u]} = {u \in Threads : r \in todo[u]}
    BY <1>3
  <2> QED
    BY <1>1, <1>3, <2>1 DEF Inbox, OnItsWay, RangeOf
<1>7. Inbox(s)' = Inbox(s)
  <2>1. Inbox(s)' = RangeOf(Pipeline(s)') \cup OnItsWay(s)'
    BY DEF Inbox, RangeOf
  <2> QED
    BY <1>2, <1>5, <2>1 DEF Inbox
<1>8. \A r \in Subs : Stage(r)' = Stage(r)
  BY <1>3 DEF Stage
<1> QED
  BY <1>3, <1>6, <1>7, <1>8, BroadcastStutters

\* What the destructor need not wait for is the newest event of its type: the
\* publication holds the lock of the type.
LEMMA NewestOnItsWay ==
  ASSUME TypeOK, LinkInv, OrderInv, NEW s \in Subs, NEW e \in Inbox(s) \ RangeOf(Pipeline(s)),
         NEW f \in Inbox(s), Broadcast!SameType(e, f)
  PROVE  f.id <= e.id
<1>1. PICK t \in Threads : s \in todo[t] /\ e = inHand[t]
  BY DEF Inbox, OnItsWay
<1>2. inHand[t] # NoEvent /\ e \in Event /\ e.id \in Nat
  BY <1>1, InHandFields DEF LinkInv
<1>3. EventType(e) = EventType(f)
  BY DEF Broadcast!SameType, EventType
<1>4. CASE f \in RangeOf(Pipeline(s))
  <2>1. PICK i \in 1..Len(Pipeline(s)) : f = Pipeline(s)[i]
    BY <1>4 DEF RangeOf
  <2>2. f.id < e.id /\ f.id \in Nat
    BY <1>1, <1>3, <2>1, PipelineIds DEF OrderInv, PendingInv, Related
  <2> QED
    BY <1>2, <2>2
<1>5. CASE f \in OnItsWay(s)
  <2>1. PICK u \in Threads : s \in todo[u] /\ f = inHand[u]
    BY <1>5 DEF OnItsWay
  <2>2. u = t
    BY <1>1, <1>2, <1>3, <2>1 DEF LinkInv, OrderInv, LockInv
  <2> QED
    BY <1>1, <1>2, <2>1, <2>2
<1> QED
  BY <1>4, <1>5 DEF Inbox

LEMMA QuitBroadcasts ==
  ASSUME TypeOK, LinkInv, OrderInv, NEW s \in Subs, DestroyBegin(s)
  PROVE  Broadcast!BQuit(s)
<1>1. /\ phase[s] = "open" /\ phase' = [phase EXCEPT ![s] = "draining"]
      /\ owed' = [owed EXCEPT ![s] = Pipeline(s)]
      /\ UNCHANGED <<nextId, inHand, todo, links, fifo, batch, handled>>
  BY DEF DestroyBegin, pubVars, queueVars, workerVars
<1>2. \A r \in Subs : Inbox(r)' = Inbox(r)
  BY <1>1, PipelineUnchanged, InboxUnchanged
<1>3. [r \in Subs |-> Stage(r)][s] = "active"
  BY <1>1 DEF Stage
<1>4. [r \in Subs |-> Stage(r)]' = [[r \in Subs |-> Stage(r)] EXCEPT ![s] = "quitting"]
  BY <1>1 DEF Stage, TypeOK
<1>5. [r \in Subs |-> RangeOf(owed[r])]'
        = [[r \in Subs |-> RangeOf(owed[r])] EXCEPT ![s] = RangeOf(Pipeline(s))]
  BY <1>1 DEF TypeOK, RangeOf
<1>6. RangeOf(Pipeline(s)) \in SUBSET [r \in Subs |-> RangeOf(Pipeline(r)) \cup OnItsWay(r)][s]
  OBVIOUS
<1>7. \A e \in [r \in Subs |-> RangeOf(Pipeline(r)) \cup OnItsWay(r)][s] \ RangeOf(Pipeline(s)) :
        \A f \in [r \in Subs |-> RangeOf(Pipeline(r)) \cup OnItsWay(r)][s] :
          Broadcast!SameType(e, f) => f.id <= e.id
  BY NewestOnItsWay DEF Inbox
<1>8. UNCHANGED <<nextId, links, [r \in Subs |-> RangeOf(Pipeline(r)) \cup OnItsWay(r)],
                  [r \in Subs |-> RangeOf(handled[r])]>>
  BY <1>1, <1>2 DEF Inbox, RangeOf
<1> QED
  BY <1>3, <1>4, <1>5, <1>6, <1>7, <1>8 DEF Broadcast!BQuit

\* A step that neither publishes nor runs a handler.
LEMMA FrameBroadcasts ==
  ASSUME UNCHANGED <<nextId, inHand, todo, fifo, batch, handled, owed>>
  PROVE  UNCHANGED <<nextId, [r \in Subs |-> RangeOf(Pipeline(r)) \cup OnItsWay(r)],
                     [r \in Subs |-> RangeOf(handled[r])], [r \in Subs |-> RangeOf(owed[r])]>>
<1>1. \A r \in Subs : Inbox(r)' = Inbox(r)
  BY PipelineUnchanged, InboxUnchanged
<1> QED
  BY <1>1 DEF Inbox, RangeOf

LEMMA LeaveBroadcasts ==
  ASSUME TypeOK, DrainInv, NEW s \in Subs, NEW ty \in Types, CleanupType(s, ty)
  PROVE  Broadcast!BLeave(s, ty)
<1>1. /\ phase[s] = "cleaning" /\ links' = links \ LinksOfType(s, ty)
      /\ UNCHANGED <<phase, nextId, inHand, todo, fifo, batch, handled, owed>>
  BY DEF CleanupType, pubVars, queueVars, workerVars
<1>2. [r \in Subs |-> Stage(r)][s] = "quitting" /\ UNCHANGED [r \in Subs |-> Stage(r)]
  BY <1>1 DEF Stage
<1>3. [r \in Subs |-> RangeOf(owed[r])][s] \subseteq [r \in Subs |-> RangeOf(handled[r])][s]
  <2>1. IsPrefixOf(owed[s], handled[s]) /\ owed[s] \in Seq(Event) /\ handled[s] \in Seq(Event)
    BY <1>1 DEF DrainInv, DrainedFirst, TypeOK
  <2>2. Len(owed[s]) \in Nat /\ Len(handled[s]) \in Nat
    BY <2>1, LenProperties
  <2> QED
    BY <2>1, <2>2 DEF IsPrefixOf, RangeOf
<1>4. links' = {m \in links : ~ (m[2] = s /\ TypeOf[m[1]] = ty)}
  BY <1>1 DEF LinksOfType
<1> QED
  BY <1>1, <1>2, <1>3, <1>4, FrameBroadcasts DEF Broadcast!BLeave

LEMMA SubscribeBroadcasts ==
  ASSUME TypeOK, NEW s \in Subs, NEW tid \in Topics, AddLink(s, tid)
  PROVE  Broadcast!BSubscribe(s, tid)
<1>1. /\ phase[s] = "open" /\ links' = links \cup {<<tid, s>>}
      /\ UNCHANGED <<phase, nextId, inHand, todo, fifo, batch, handled, owed>>
  BY DEF AddLink, pubVars, queueVars, workerVars
<1>2. [r \in Subs |-> Stage(r)][s] = "active" /\ UNCHANGED [r \in Subs |-> Stage(r)]
  BY <1>1 DEF Stage
<1> QED
  BY <1>1, <1>2, FrameBroadcasts DEF Broadcast!BSubscribe

LEMMA CloseBroadcasts ==
  ASSUME TypeOK, LinkInv, NEW s \in Subs, Join(s)
  PROVE  Broadcast!BClose(s)
<1>1. /\ phase[s] = "join" /\ phase' = [phase EXCEPT ![s] = "gone"]
      /\ UNCHANGED <<links, nextId, inHand, todo, fifo, batch, handled, owed>>
  BY DEF Join, pubVars, queueVars, workerVars
<1>2. [r \in Subs |-> Stage(r)][s] = "quitting"
  BY <1>1 DEF Stage
<1>3. [r \in Subs |-> Stage(r)]' = [[r \in Subs |-> Stage(r)] EXCEPT ![s] = "closed"]
  BY <1>1 DEF Stage, TypeOK
<1>4. \A m \in links : m[2] # s
  <2> SUFFICES ASSUME NEW m \in links, m[2] = s PROVE FALSE
    OBVIOUS
  <2>1. m[1] \in Topics /\ m = <<m[1], s>>
    BY DEF TypeOK
  <2> QED
    BY <1>1, <2>1 DEF LinkInv, Linkable
<1> QED
  BY <1>1, <1>2, <1>3, <1>4, FrameBroadcasts DEF Broadcast!BClose

\* Where the worker is in the pipeline: behind what it has handled, at the head of
\* its batch.
LEMMA PipelineAtHead ==
  ASSUME NEW S, NEW d \in Seq(S), NEW b \in Seq(S), NEW f \in Seq(S), b # <<>>
  PROVE  /\ Len(d) \in Nat /\ Head(b) \in S
         /\ Len(d) + 1 \in 1..Len((d \o b) \o f)
         /\ ((d \o b) \o f)[Len(d) + 1] = Head(b)
         /\ \A i \in 1..Len(d) : i \in 1..Len((d \o b) \o f) /\ ((d \o b) \o f)[i] = d[i]
<1>1. /\ Len(d) \in Nat /\ Len(f) \in Nat /\ Len(b) \in Nat /\ Len(b) > 0
      /\ Head(b) = b[1] /\ Head(b) \in S
  BY LenProperties, EmptySeq, HeadTailProperties
<1>2. d \o b \in Seq(S) /\ Len(d \o b) = Len(d) + Len(b)
  BY ConcatProperties
<1>3. Len((d \o b) \o f) = (Len(d) + Len(b)) + Len(f)
  BY <1>2, ConcatProperties
<1>4. \A i \in 1..Len(d) : (d \o b)[i] = d[i]
  BY <1>1, ConcatProperties
<1>5. (d \o b)[Len(d) + 1] = b[1]
  BY <1>1, ConcatProperties
<1>6. \A i \in 1..Len(d \o b) : ((d \o b) \o f)[i] = (d \o b)[i]
  BY <1>1, <1>2, ConcatProperties
<1>7. Len(d) + 1 \in 1..Len(d \o b) /\ \A i \in 1..Len(d) : i \in 1..Len(d \o b)
  BY <1>1, <1>2
<1>8. Len(d) + 1 \in 1..Len((d \o b) \o f) /\ \A i \in 1..Len(d) : i \in 1..Len((d \o b) \o f)
  BY <1>1, <1>3
<1> QED
  BY <1>1, <1>4, <1>5, <1>6, <1>7, <1>8

LEMMA ReadBroadcasts ==
  ASSUME TypeOK, LinkInv, GoneInv, BatchInv, OrderInv, NEW s \in Subs, RunEvent(s)
  PROVE  \E e \in [r \in Subs |-> RangeOf(Pipeline(r)) \cup OnItsWay(r)][s] : Broadcast!BRead(s, e)
<1> DEFINE e == Head(batch[s])
           n == Len(handled[s]) + 1
<1>1. handled[s] \in Seq(Event) /\ batch[s] \in Seq(Event) /\ fifo[s] \in Seq(Event) /\ batch[s] # <<>>
  BY DEF RunEvent, TypeOK
<1>2. /\ Len(handled[s]) \in Nat /\ e \in Event /\ n \in 1..Len(Pipeline(s)) /\ Pipeline(s)[n] = e
      /\ \A i \in 1..Len(handled[s]) : i \in 1..Len(Pipeline(s)) /\ Pipeline(s)[i] = handled[s][i]
  <2>1. \A d, b, f \in Seq(Event) : b # <<>> =>
          /\ Len(d) \in Nat /\ Head(b) \in Event
          /\ Len(d) + 1 \in 1..Len((d \o b) \o f)
          /\ ((d \o b) \o f)[Len(d) + 1] = Head(b)
          /\ \A i \in 1..Len(d) : i \in 1..Len((d \o b) \o f) /\ ((d \o b) \o f)[i] = d[i]
    BY PipelineAtHead, SMTT(60)
  <2> QED
    BY <1>1, <2>1, ZenonT(60) DEF Pipeline
<1>3. e.id \in Nat /\ Related(e, e)
  BY <1>2, EventFields DEF Related
<1>4. Ordered(Pipeline(s)) /\ Len(Pipeline(s)) \in Nat
  BY PipelineType, LenProperties DEF OrderInv, CausalOrder
<1>5. e \in RangeOf(Pipeline(s)) /\ e \notin RangeOf(handled[s])
  <2>1. ASSUME NEW i \in 1..Len(handled[s]), handled[s][i] = e PROVE FALSE
    <3>1. i \in 1..Len(Pipeline(s)) /\ Pipeline(s)[i] = e /\ i < n
      BY <1>2, <2>1
    <3> QED
      BY <1>2, <1>3, <1>4, <3>1, SMTT(60) DEF Ordered
  <2> QED
    BY <1>2, <2>1 DEF RangeOf
<1>6. ASSUME NEW f \in Inbox(s), Broadcast!Precedes(f, e) PROVE f \in RangeOf(handled[s])
  <2>1. f.id < e.id /\ Related(f, e) /\ Related(e, f)
    BY <1>6 DEF Broadcast!Precedes, Broadcast!SameType, Related, EventType
  <2>2. CASE f \in RangeOf(Pipeline(s))
    <3>1. PICK i \in 1..Len(Pipeline(s)) : f = Pipeline(s)[i]
      BY <2>2 DEF RangeOf
    <3>2. f.id \in Nat
      BY <3>1, PipelineIds
    <3>3. ~ (n < i)
      BY <1>2, <1>3, <1>4, <2>1, <3>1, <3>2, SMTT(60) DEF Ordered
    <3>4. i # n
      BY <1>2, <1>3, <2>1, <3>1
    <3>5. i \in 1..Len(handled[s])
      BY <1>2, <1>4, <3>3, <3>4
    <3> QED
      BY <1>2, <3>1, <3>5 DEF RangeOf
  <2>3. CASE f \in OnItsWay(s)
    <3>1. PICK t \in Threads : s \in todo[t] /\ f = inHand[t]
      BY <2>3 DEF OnItsWay
    <3>2. f.id \in Nat
      BY <3>1, InHandFields DEF LinkInv
    <3>3. e.id < f.id
      BY <1>2, <2>1, <3>1 DEF OrderInv, PendingInv
    <3> QED
      BY <1>3, <2>1, <3>2, <3>3
  <2> QED
    BY <2>2, <2>3 DEF Inbox
<1>7. [r \in Subs |-> Stage(r)][s] # "closed"
  BY DEF RunEvent, GoneInv, Stage
<1>8. /\ handled' = [handled EXCEPT ![s] = Append(handled[s], e)]
      /\ UNCHANGED <<nextId, inHand, todo, links, phase, owed>>
  BY DEF RunEvent, pubVars, scopeVars
<1>9. [r \in Subs |-> RangeOf(handled[r])]'
        = [[r \in Subs |-> RangeOf(handled[r])] EXCEPT ![s] = RangeOf(handled[s]) \cup {e}]
  <2>1. RangeOf(Append(handled[s], e)) = RangeOf(handled[s]) \cup {e}
    BY <1>1, <1>2, RangeOfAppend
  <2>2. handled'[s] = Append(handled[s], e) /\ \A r \in Subs \ {s} : handled'[r] = handled[r]
    BY <1>8 DEF TypeOK
  <2>3. RangeOf(handled'[s]) = RangeOf(handled[s]) \cup {e}
    BY <2>1, <2>2
  <2> QED
    BY <2>2, <2>3 DEF RangeOf
<1>10. \A r \in Subs : Inbox(r)' = Inbox(r)
  BY <1>8, PipelineWorking, InboxUnchanged DEF Working
<1>11. UNCHANGED <<nextId, links, [r \in Subs |-> RangeOf(Pipeline(r)) \cup OnItsWay(r)],
                   [r \in Subs |-> Stage(r)], [r \in Subs |-> RangeOf(owed[r])]>>
  BY <1>8, <1>10 DEF Inbox, Stage, RangeOf
<1>12. Broadcast!BRead(s, e)
  <2>1. e \in [r \in Subs |-> RangeOf(Pipeline(r)) \cup OnItsWay(r)][s] \ [r \in Subs |-> RangeOf(handled[r])][s]
    BY <1>5
  <2>2. \A f \in [r \in Subs |-> RangeOf(Pipeline(r)) \cup OnItsWay(r)][s] :
          Broadcast!Precedes(f, e) => f \in [r \in Subs |-> RangeOf(handled[r])][s]
    BY <1>6 DEF Inbox
  <2>3. [r \in Subs |-> RangeOf(handled[r])]'
          = [[r \in Subs |-> RangeOf(handled[r])] EXCEPT
               ![s] = [r \in Subs |-> RangeOf(handled[r])][s] \cup {e}]
    BY <1>9
  <2> QED
    BY <1>7, <1>11, <2>1, <2>2, <2>3 DEF Broadcast!BRead
<1> QED
  BY <1>5, <1>12

LEMMA BroadcastInit == Init => Broadcast!BInit
<1> SUFFICES ASSUME Init PROVE Broadcast!BInit
  OBVIOUS
<1>1. \A s \in Subs : Pipeline(s) = <<>>
  BY ConcatEmptySeq, EmptySeq DEF Init, Pipeline
<1>2. RangeOf(<<>>) = {}
  BY DEF RangeOf
<1>3. \A s \in Subs : OnItsWay(s) = {} /\ Stage(s) = "active"
  BY DEF Init, OnItsWay, Stage
<1> QED
  BY <1>1, <1>2, <1>3 DEF Init, Broadcast!BInit

LEMMA BroadcastStep ==
  TypeOK /\ LinkInv /\ GoneInv /\ BatchInv /\ OrderInv /\ DrainInv /\ [Next]_vars =>
    [Broadcast!BNext]_Broadcast!bvars
<1> SUFFICES ASSUME TypeOK, LinkInv, GoneInv, BatchInv, OrderInv, DrainInv, [Next]_vars
             PROVE  Broadcast!BNext \/ UNCHANGED Broadcast!bvars
  OBVIOUS
<1> DEFINE Goal == Broadcast!BNext \/ UNCHANGED Broadcast!bvars
<1>1. ASSUME NEW t \in Threads, NEW tid \in Topics, PublishBegin(t, tid) PROVE Goal
  BY <1>1, PublishBroadcasts DEF Broadcast!BNext
<1>2. ASSUME NEW t \in Threads, NEW s \in Subs, Deliver(t, s) PROVE Goal
  BY <1>2, DeliverStutters
<1>3. ASSUME NEW t \in Threads, PublishEnd(t) PROVE Goal
  <2>1. /\ UNCHANGED <<nextId, links, handled, owed, phase, fifo, batch, todo>> /\ todo[t] = {}
        /\ \A u \in Threads \ {t} : inHand'[u] = inHand[u]
    BY <1>3 DEF PublishEnd, TypeOK, scopeVars, queueVars, workerVars
  <2>2. \A s \in Subs : OnItsWay(s)' = OnItsWay(s)
    BY <2>1 DEF OnItsWay
  <2>3. \A s \in Subs : Inbox(s)' = Inbox(s) /\ Stage(s)' = Stage(s)
    BY <2>1, <2>2, PipelineUnchanged DEF Inbox, Stage, RangeOf
  <2> QED
    BY <2>1, <2>3, BroadcastStutters
<1>4. ASSUME UNCHANGED <<nextId, inHand, todo, links, fifo, batch, handled, owed>>,
             \A s \in Subs : Stage(s)' = Stage(s)
      PROVE  Goal
  BY <1>4, PipelineUnchanged, InboxUnchanged, BroadcastStutters
<1> USE DEF pubVars, scopeVars, queueVars, workerVars
<1>5. ASSUME NEW s \in Subs,
             \/ Construct(s) \/ AddTracker(s) \/ NoBorrowersLeft(s) \/ RemoveTracker(s)
             \/ CleanupBegin(s) \/ CleanupEnd(s) \/ SignalDone(s)
      PROVE  Goal
  <2>1. UNCHANGED <<nextId, inHand, todo, links, fifo, batch, handled, owed>>
    BY <1>5 DEF Construct, AddTracker, NoBorrowersLeft, RemoveTracker, CleanupBegin, CleanupEnd, SignalDone
  <2>2. \A r \in Subs : Stage(r)' = Stage(r)
    BY <1>5 DEF Construct, AddTracker, NoBorrowersLeft, RemoveTracker, CleanupBegin, CleanupEnd,
                SignalDone, TypeOK, Stage
  <2> QED
    BY <1>4, <2>1, <2>2
<1>6. ASSUME NEW s \in Subs, NEW tid \in Topics, RegisterType(s, tid) PROVE Goal
  BY <1>4, <1>6 DEF RegisterType, Stage
<1>7. ASSUME NEW s \in Subs, NEW tid \in Topics, AddLink(s, tid) PROVE Goal
  BY <1>7, SubscribeBroadcasts DEF Broadcast!BNext
<1>8. ASSUME NEW s \in Subs, DestroyBegin(s) PROVE Goal
  BY <1>8, QuitBroadcasts DEF Broadcast!BNext
<1>9. ASSUME NEW s \in Subs, NEW ty \in Types, CleanupType(s, ty) PROVE Goal
  BY <1>9, LeaveBroadcasts DEF Broadcast!BNext
<1>10. ASSUME NEW s \in Subs, Join(s) PROVE Goal
  BY <1>10, CloseBroadcasts DEF Broadcast!BNext
<1>11. ASSUME NEW s \in Subs, TakeBatch(s) PROVE Goal
  <2>1. \A r \in Subs : Pipeline(r)' = Pipeline(r)
    BY <1>11, PipelineWorking DEF Working
  <2>2. UNCHANGED <<nextId, inHand, todo, links, phase, handled, owed>>
    BY <1>11 DEF TakeBatch
  <2>3. \A r \in Subs : Inbox(r)' = Inbox(r) /\ Stage(r)' = Stage(r)
    BY <2>1, <2>2, InboxUnchanged DEF Stage
  <2> QED
    BY <2>2, <2>3, BroadcastStutters
<1>12. ASSUME NEW s \in Subs, RunEvent(s) PROVE Goal
  BY <1>12, ReadBroadcasts DEF Broadcast!BNext
<1>13. ASSUME NEW s \in Subs, EventReturns(s) \/ EventThrows(s) \/ BatchDone(s) \/ Shutdown(s) PROVE Goal
  BY <1>4, <1>13 DEF EventReturns, EventThrows, BatchDone, Shutdown, Stage
<1>14. CASE UNCHANGED vars
  BY <1>4, <1>14 DEF vars, Stage
<1> QED
  BY <1>1, <1>2, <1>3, <1>5, <1>6, <1>7, <1>8, <1>9, <1>10, <1>11, <1>12, <1>13, <1>14
     DEF Next, Acting, Using, Publishing, Subscribing, Destroying, Working, Rest

\* The engine implements the abstract broadcast: the calls that a publication
\* makes one by one, the queues, the batches and the destructor's many steps look
\* from outside like events published in one step, read in order and at most once
\* by everybody subscribed, and subscriptions that read what they are owed before
\* they leave.
THEOREM EngineBroadcasts == Spec => BroadcastSpec
<1> DEFINE I == TypeOK /\ LinkInv /\ GoneInv /\ BatchInv /\ OrderInv /\ DrainInv
<1>1. Init => I /\ Broadcast!BInit
  BY TypeInit, LinkInit, BatchInit, OrderInit, DrainInit, BroadcastInit
<1>2. I /\ [Next]_vars => I'
  BY TypeNext, LinkNext, GoneNext, BatchNext, OrderNext, DrainNext
<1>3. I /\ [Next]_vars => [Broadcast!BNext]_Broadcast!bvars
  BY BroadcastStep
<1> QED
  BY <1>1, <1>2, <1>3, PTL DEF Spec, BroadcastSpec, Broadcast!BSpec
=============================================================================
