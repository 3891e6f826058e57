-------------------------- MODULE DebugWaitProofs --------------------------
(***************************************************************************)
(* Theorems about ActorDebugWait, for every value of its constants: any    *)
(* number of waiters, any reuse of addresses, handlers that throw or not.  *)
(***************************************************************************)
EXTENDS ActorDebugWait, ActorModelProofs

-----------------------------------------------------------------------------
(* Steps of the engine and steps of the waiters.                           *)

LEMMA StepKinds ==
  ASSUME [DNext]_dvars
  PROVE  \/ [Next]_vars /\ UNCHANGED <<trackersMutex, waitVars>>
         \/ \E w \in Waiters : DebugBegin(w) \/ Waiting(w)
<1>1. CASE Acting /\ UNCHANGED waitVars
  <2>1. [Next]_vars
    BY <1>1 DEF Next
  <2>2. UNCHANGED trackersMutex
    BY <1>1 DEF Acting, Using, Publishing, Subscribing, Destroying, Working, PublishBegin, Deliver,
                PublishEnd, Construct, AddTracker, RegisterType, AddLink, DestroyBegin,
                NoBorrowersLeft, RemoveTracker, CleanupBegin, CleanupType, CleanupEnd, SignalDone,
                Join, TakeBatch, RunEvent, EventReturns, EventThrows, BatchDone, Shutdown
  <2> QED
    BY <1>1, <2>1, <2>2
<1>2. CASE UNCHANGED dvars
  BY <1>2 DEF dvars, vars
<1> QED
  BY <1>1, <1>2 DEF DNext

LEMMA WaiterFrame ==
  ASSUME NEW w \in Waiters, DebugBegin(w) \/ Waiting(w)
  PROVE  UNCHANGED <<pubVars, scopeVars, queueVars, workerVars, owed>>
BY DEF DebugBegin, Waiting, DebugRead, DebugReadEnd, DebugPassOver, DebugWaitOn, DebugWaited,
       DebugReturn, vars

-----------------------------------------------------------------------------
(* Addresses and counters of the engine.                                   *)

LEMMA AddrInit == Init => AddrInv
BY DEF Init, AddrInv, Exists, Trackable

\* A step that changes the phase of one subscription and neither makes it appear
\* nor changes whether it is tracked.
LEMMA AddrQuiet ==
  ASSUME TypeOK, AddrInv, NEW s \in Subs, UNCHANGED tracked,
         \A r \in Subs \ {s} : phase'[r] = phase[r],
         Exists(s)' => Exists(s),
         phase'[s] \in Trackable <=> phase[s] \in Trackable
  PROVE  AddrInv'
<1>1. \A r \in Subs : (Exists(r)' => Exists(r)) /\ (phase'[r] \in Trackable <=> phase[r] \in Trackable)
  BY DEF Exists
<1>2. \A r, q \in Subs : AddrOf[r] = AddrOf[q] /\ Exists(r)' /\ Exists(q)' => r = q
  BY <1>1 DEF AddrInv
<1>3. tracked' = {AddrOf[r] : r \in {q \in Subs : phase'[q] \in Trackable}}
  BY <1>1 DEF AddrInv
<1> QED
  BY <1>2, <1>3 DEF AddrInv, Exists, Trackable

LEMMA AddrNext == TypeOK /\ AddrInv /\ [Next]_vars => AddrInv'
<1> SUFFICES ASSUME TypeOK, AddrInv, [Next]_vars PROVE AddrInv'
  OBVIOUS
<1> USE DEF pubVars, scopeVars, queueVars, workerVars
<1>1. ASSUME UNCHANGED <<phase, tracked>> PROVE AddrInv'
  BY <1>1 DEF AddrInv, Exists
<1>2. ASSUME NEW t \in Threads, NEW tid \in Topics, PublishBegin(t, tid) PROVE AddrInv'
  BY <1>1, <1>2 DEF PublishBegin
<1>3. ASSUME NEW t \in Threads, Publishing(t) PROVE AddrInv'
  BY <1>1, <1>3 DEF Publishing, Deliver, PublishEnd
<1>4. ASSUME NEW s \in Subs, Construct(s) PROVE AddrInv'
  <2>1. /\ phase'[s] = "built" /\ phase[s] = "none" /\ UNCHANGED tracked
        /\ \A r \in Subs \ {s} : phase'[r] = phase[r]
        /\ \A r \in Subs : AddrOf[r] = AddrOf[s] => ~ Exists(r)
    BY <1>4 DEF Construct, TypeOK
  <2>2. \A r, q \in Subs : AddrOf[r] = AddrOf[q] /\ Exists(r)' /\ Exists(q)' => r = q
    BY <2>1 DEF AddrInv, Exists
  <2>3. \A r \in Subs : phase'[r] \in Trackable <=> phase[r] \in Trackable
    BY <2>1 DEF Trackable
  <2>4. tracked' = {AddrOf[r] : r \in {q \in Subs : phase'[q] \in Trackable}}
    BY <2>1, <2>3 DEF AddrInv
  <2> QED
    BY <2>2, <2>4 DEF AddrInv, Exists, Trackable
<1>5. ASSUME NEW s \in Subs, AddTracker(s) PROVE AddrInv'
  <2>1. /\ phase'[s] = "open" /\ phase[s] = "built" /\ tracked' = tracked \cup {AddrOf[s]}
        /\ \A r \in Subs \ {s} : phase'[r] = phase[r]
    BY <1>5 DEF AddTracker, TypeOK
  <2>2. \A r, q \in Subs : AddrOf[r] = AddrOf[q] /\ Exists(r)' /\ Exists(q)' => r = q
    BY <2>1 DEF AddrInv, Exists
  <2>3. {q \in Subs : phase'[q] \in Trackable} = {q \in Subs : phase[q] \in Trackable} \cup {s}
    BY <2>1 DEF Trackable
  <2>4. tracked' = {AddrOf[r] : r \in {q \in Subs : phase'[q] \in Trackable}}
    BY <2>1, <2>3 DEF AddrInv
  <2> QED
    BY <2>2, <2>4 DEF AddrInv, Exists, Trackable
<1>6. ASSUME NEW s \in Subs, NEW tid \in Topics, RegisterType(s, tid) \/ AddLink(s, tid) PROVE AddrInv'
  BY <1>1, <1>6 DEF RegisterType, AddLink
<1>7. ASSUME NEW s \in Subs, DestroyBegin(s) \/ NoBorrowersLeft(s) PROVE AddrInv'
  BY <1>7, AddrQuiet DEF DestroyBegin, NoBorrowersLeft, TypeOK, Exists, Trackable
<1>8. ASSUME NEW s \in Subs, RemoveTracker(s) PROVE AddrInv'
  <2>1. /\ phase'[s] = "unlink" /\ phase[s] = "untrack" /\ tracked' = tracked \ {AddrOf[s]}
        /\ \A r \in Subs \ {s} : phase'[r] = phase[r]
    BY <1>8 DEF RemoveTracker, TypeOK
  <2>2. \A r, q \in Subs : AddrOf[r] = AddrOf[q] /\ Exists(r)' /\ Exists(q)' => r = q
    BY <2>1 DEF AddrInv, Exists
  <2>3. {q \in Subs : phase'[q] \in Trackable} = {q \in Subs : phase[q] \in Trackable} \ {s}
    BY <2>1 DEF Trackable
  <2>4. \A r \in Subs \ {s} : phase[r] \in Trackable => AddrOf[r] # AddrOf[s]
    BY <2>1 DEF AddrInv, Exists, Trackable
  <2>5. tracked' = {AddrOf[r] : r \in {q \in Subs : phase'[q] \in Trackable}}
    BY <2>1, <2>3, <2>4 DEF AddrInv
  <2> QED
    BY <2>2, <2>5 DEF AddrInv, Exists, Trackable
<1>9. ASSUME NEW s \in Subs, CleanupBegin(s) \/ CleanupEnd(s) \/ SignalDone(s) \/ Join(s) PROVE AddrInv'
  BY <1>9, AddrQuiet DEF CleanupBegin, CleanupEnd, SignalDone, Join, TypeOK, Exists, Trackable
<1>10. ASSUME NEW s \in Subs, NEW ty \in Types, CleanupType(s, ty) PROVE AddrInv'
  BY <1>1, <1>10 DEF CleanupType
<1>11. ASSUME NEW s \in Subs, Working(s) PROVE AddrInv'
  BY <1>1, <1>11 DEF Working, TakeBatch, RunEvent, EventReturns, EventThrows, BatchDone, Shutdown
<1>12. CASE UNCHANGED vars
  BY <1>1, <1>12 DEF vars
<1> QED
  BY <1>2, <1>3, <1>4, <1>5, <1>6, <1>7, <1>8, <1>9, <1>10, <1>11, <1>12
     DEF Next, Acting, Using, Subscribing, Destroying, Rest

\* The scope that a tracked address stands for.
LEMMA TrackedScope ==
  ASSUME AddrInv, NEW x \in tracked
  PROVE  /\ At(x) \in Subs /\ AddrOf[At(x)] = x /\ phase[At(x)] \in Trackable
         /\ \A s \in Subs : AddrOf[s] = x /\ Exists(s) => s = At(x)
<1>1. PICK r \in Subs : AddrOf[r] = x /\ phase[r] \in Trackable
  BY DEF AddrInv
<1>2. Exists(r)
  BY <1>1 DEF Exists, Trackable
<1>3. At(x) \in Subs /\ AddrOf[At(x)] = x /\ Exists(At(x))
  BY <1>1, <1>2 DEF At
<1> QED
  BY <1>1, <1>2, <1>3 DEF AddrInv

\* What a step of the engine does to the queue of a subscription ...
LEMMA PipelineStep ==
  ASSUME TypeOK, BatchInv, [Next]_vars, NEW s \in Subs
  PROVE  \/ Pipeline(s)' = Pipeline(s) /\ numQueued'[s] = numQueued[s]
         \/ /\ \E e \in Event : Pipeline(s)' = Append(Pipeline(s), e)
            /\ numQueued'[s] = numQueued[s] + 1
<1> USE DEF pubVars, scopeVars, queueVars, workerVars
<1> DEFINE Quiet == Pipeline(s)' = Pipeline(s) /\ numQueued'[s] = numQueued[s]
<1>1. ASSUME UNCHANGED <<fifo, batch, handled, numQueued>> PROVE Quiet
  BY <1>1, PipelineUnchanged
<1>2. ASSUME NEW t \in Threads, NEW r \in Subs, Deliver(t, r)
      PROVE  \/ Quiet
             \/ /\ \E e \in Event : Pipeline(s)' = Append(Pipeline(s), e)
                /\ numQueued'[s] = numQueued[s] + 1
  <2>1. /\ inHand[t] \in Event /\ Pipeline(r)' = Append(Pipeline(r), inHand[t])
        /\ \A q \in Subs \ {r} : Pipeline(q)' = Pipeline(q)
    BY <1>2, PipelineDeliver
  <2>2. numQueued'[r] = numQueued[r] + 1 /\ \A q \in Subs \ {r} : numQueued'[q] = numQueued[q]
    BY <1>2 DEF Deliver, TypeOK
  <2> QED
    BY <2>1, <2>2
<1>3. ASSUME NEW r \in Subs, Working(r) PROVE Quiet
  <2>1. numQueued' = numQueued
    BY <1>3 DEF Working, TakeBatch, RunEvent, EventReturns, EventThrows, BatchDone, Shutdown
  <2> QED
    BY <1>3, <2>1, PipelineWorking
<1>4. ASSUME NEW t \in Threads, NEW tid \in Topics, PublishBegin(t, tid) PROVE Quiet
  BY <1>1, <1>4 DEF PublishBegin
<1>5. ASSUME NEW t \in Threads, PublishEnd(t) PROVE Quiet
  BY <1>1, <1>5 DEF PublishEnd
<1>6. ASSUME NEW r \in Subs, Construct(r) \/ DestroyBegin(r) PROVE Quiet
  BY <1>1, <1>6 DEF Construct, DestroyBegin
<1>7. ASSUME NEW r \in Subs, Subscribing(r) PROVE Quiet
  BY <1>1, <1>7 DEF Subscribing, AddTracker, RegisterType, AddLink
<1>8. ASSUME NEW r \in Subs, Destroying(r) PROVE Quiet
  BY <1>1, <1>8 DEF Destroying, NoBorrowersLeft, RemoveTracker, CleanupBegin, CleanupType, CleanupEnd,
                    SignalDone, Join
<1>9. CASE UNCHANGED vars
  BY <1>1, <1>9 DEF vars
<1> QED
  BY <1>2, <1>3, <1>4, <1>5, <1>6, <1>7, <1>8, <1>9 DEF Next, Acting, Using, Publishing, Rest

\* ... and to its worker: nothing that is counted, the call of OnEvent, or the
\* return from it.
LEMMA WorkerStep ==
  ASSUME TypeOK, GoneInv, [Next]_vars, NEW s \in Subs
  PROVE  \/ /\ handled'[s] = handled[s] /\ numProcessed'[s] = numProcessed[s]
            /\ (workerAt'[s] = "event") <=> (workerAt[s] = "event")
         \/ /\ workerAt[s] # "event" /\ workerAt'[s] = "event"
            /\ numProcessed'[s] = numProcessed[s]
            /\ \E e \in Event : handled'[s] = Append(handled[s], e)
         \/ /\ workerAt[s] = "event" /\ workerAt'[s] # "event" /\ handled'[s] = handled[s]
            /\ numProcessed'[s] \in {numProcessed[s], numProcessed[s] + 1}
<1> USE DEF pubVars, scopeVars, queueVars, workerVars
<1> DEFINE Quiet == /\ handled'[s] = handled[s] /\ numProcessed'[s] = numProcessed[s]
                    /\ (workerAt'[s] = "event") <=> (workerAt[s] = "event")
<1>1. ASSUME UNCHANGED <<handled, numProcessed, workerAt>> PROVE Quiet
  BY <1>1
<1>2. ASSUME NEW t \in Threads, NEW tid \in Topics, PublishBegin(t, tid) PROVE Quiet
  BY <1>1, <1>2 DEF PublishBegin
<1>3. ASSUME NEW t \in Threads, Publishing(t) PROVE Quiet
  BY <1>1, <1>3 DEF Publishing, Deliver, PublishEnd
<1>4. ASSUME NEW r \in Subs, Construct(r) PROVE Quiet
  BY <1>4 DEF Construct, TypeOK, GoneInv
<1>5. ASSUME NEW r \in Subs, DestroyBegin(r) \/ Destroying(r) PROVE Quiet
  BY <1>1, <1>5 DEF DestroyBegin, Destroying, NoBorrowersLeft, RemoveTracker, CleanupBegin, CleanupType,
                    CleanupEnd, SignalDone, Join
<1>6. ASSUME NEW r \in Subs, Subscribing(r) PROVE Quiet
  BY <1>1, <1>6 DEF Subscribing, AddTracker, RegisterType, AddLink
<1>7. CASE UNCHANGED vars
  BY <1>1, <1>7 DEF vars
<1>8. ASSUME NEW r \in Subs, TakeBatch(r) \/ BatchDone(r) \/ Shutdown(r) PROVE Quiet
  BY <1>8 DEF TakeBatch, BatchDone, Shutdown, TypeOK
<1>9. ASSUME NEW r \in Subs, RunEvent(r), r = s
      PROVE  /\ workerAt[s] # "event" /\ workerAt'[s] = "event"
             /\ numProcessed'[s] = numProcessed[s]
             /\ \E e \in Event : handled'[s] = Append(handled[s], e)
  <2>1. Head(batch[s]) \in Event
    BY <1>9, HeadTailProperties DEF RunEvent, TypeOK
  <2> QED
    BY <1>9, <2>1 DEF RunEvent, TypeOK
<1>10. ASSUME NEW r \in Subs, RunEvent(r) \/ EventReturns(r) \/ EventThrows(r), r # s PROVE Quiet
  BY <1>10 DEF RunEvent, EventReturns, EventThrows, TypeOK
<1>11. ASSUME NEW r \in Subs, EventReturns(r) \/ EventThrows(r), r = s
       PROVE  /\ workerAt[s] = "event" /\ workerAt'[s] # "event" /\ handled'[s] = handled[s]
              /\ numProcessed'[s] \in {numProcessed[s], numProcessed[s] + 1}
  BY <1>11 DEF EventReturns, EventThrows, TypeOK
<1> QED
  BY <1>2, <1>3, <1>4, <1>5, <1>6, <1>7, <1>8, <1>9, <1>10, <1>11 DEF Next, Acting, Using, Working, Rest

LEMMA CountInit == Init => CountInv
<1> SUFFICES ASSUME Init PROVE CountInv
  OBVIOUS
<1>1. \A s \in Subs : Pipeline(s) = <<>>
  BY ConcatEmptySeq, EmptySeq DEF Init, Pipeline
<1> QED
  BY <1>1 DEF Init, CountInv

LEMMA CountNext == TypeOK /\ GoneInv /\ BatchInv /\ CountInv /\ [Next]_vars => CountInv'
<1> SUFFICES ASSUME TypeOK, GoneInv, BatchInv, CountInv, [Next]_vars, NEW s \in Subs
             PROVE  /\ numQueued'[s] = Len(Pipeline(s)')
                    /\ numProcessed'[s] <= Len(handled'[s])
                    /\ workerAt'[s] = "event" => numProcessed'[s] < Len(handled'[s])
                    /\ done'[s] => phase'[s] \in {"join", "gone"}
  BY DEF CountInv
<1>1. numQueued'[s] = Len(Pipeline(s)')
  <2>1. Pipeline(s) \in Seq(Event) /\ numQueued[s] = Len(Pipeline(s))
    BY PipelineType DEF CountInv
  <2>2. \A e \in Event : Len(Append(Pipeline(s), e)) = Len(Pipeline(s)) + 1
    BY <2>1, AppendProperties
  <2> QED
    BY <2>1, <2>2, PipelineStep
<1>2. /\ numProcessed'[s] <= Len(handled'[s])
      /\ workerAt'[s] = "event" => numProcessed'[s] < Len(handled'[s])
  <2>1. /\ handled[s] \in Seq(Event) /\ Len(handled[s]) \in Nat /\ numProcessed[s] \in Nat
        /\ numProcessed[s] <= Len(handled[s])
        /\ workerAt[s] = "event" => numProcessed[s] < Len(handled[s])
    BY LenProperties DEF CountInv, TypeOK
  <2>2. \A e \in Event : Len(Append(handled[s], e)) = Len(handled[s]) + 1
    BY <2>1, AppendProperties
  <2> QED
    BY <2>1, <2>2, WorkerStep
<1>3. done'[s] => phase'[s] \in {"join", "gone"}
  <2> USE DEF pubVars, scopeVars, queueVars, workerVars
  <2>1. done[s] => phase[s] \in {"join", "gone"}
    BY DEF CountInv
  <2>2. ASSUME NEW r \in Subs, Subscribing(r) \/ Construct(r) \/ DestroyBegin(r)
        PROVE  done'[s] => phase'[s] \in {"join", "gone"}
    BY <2>1, <2>2 DEF Subscribing, AddTracker, RegisterType, AddLink, Construct, DestroyBegin, TypeOK
  <2>3. ASSUME NEW r \in Subs, Destroying(r) PROVE done'[s] => phase'[s] \in {"join", "gone"}
    BY <2>1, <2>3 DEF Destroying, NoBorrowersLeft, RemoveTracker, CleanupBegin, CleanupType, CleanupEnd,
                      SignalDone, Join, TypeOK
  <2>4. ASSUME NEW r \in Subs, Working(r) PROVE done'[s] => phase'[s] \in {"join", "gone"}
    BY <2>1, <2>4 DEF Working, TakeBatch, RunEvent, EventReturns, EventThrows, BatchDone, Shutdown
  <2>5. ASSUME NEW t \in Threads, Publishing(t) \/ \E tid \in Topics : PublishBegin(t, tid)
        PROVE  done'[s] => phase'[s] \in {"join", "gone"}
    BY <2>1, <2>5 DEF Publishing, Deliver, PublishEnd, PublishBegin
  <2> QED
    BY <2>1, <2>2, <2>3, <2>4, <2>5 DEF Next, Acting, Using, Rest, vars
<1> QED
  BY <1>1, <1>2, <1>3

\* What is known of the engine in every state, and kept by the waiters, who do
\* not touch it.
EngineInv == TypeOK /\ GoneInv /\ BatchInv /\ AddrInv /\ CountInv

LEMMA EngineInit == DInit => EngineInv
BY TypeInit, LinkInit, BatchInit, AddrInit, CountInit DEF DInit, EngineInv

LEMMA EngineNext == EngineInv /\ [DNext]_dvars => EngineInv'
<1> SUFFICES ASSUME EngineInv, [DNext]_dvars PROVE EngineInv'
  OBVIOUS
<1>1. CASE [Next]_vars
  BY <1>1, TypeNext, GoneNext, BatchNext, AddrNext, CountNext DEF EngineInv
<1>2. ASSUME NEW w \in Waiters, DebugBegin(w) \/ Waiting(w) PROVE EngineInv'
  <2>1. UNCHANGED <<pubVars, scopeVars, queueVars, workerVars, owed>>
    BY <1>2, WaiterFrame
  <2>2. TypeOK'
    BY <2>1 DEF EngineInv, TypeOK, pubVars, scopeVars, queueVars, workerVars
  <2>3. GoneInv' /\ BatchInv' /\ AddrInv'
    BY <2>1 DEF EngineInv, GoneInv, BatchInv, AddrInv, Exists, scopeVars, queueVars, workerVars
  <2>4. CountInv'
    BY <2>1, PipelineUnchanged DEF EngineInv, CountInv, scopeVars, queueVars, workerVars
  <2> QED
    BY <2>2, <2>3, <2>4 DEF EngineInv
<1> QED
  BY <1>1, <1>2, StepKinds

-----------------------------------------------------------------------------
(* The waiters: types, the holder of trackers_mutex.                       *)

LEMMA WaitTypeInit == DInit => WaitTypeOK /\ HolderInv
<1> SUFFICES ASSUME DInit PROVE WaitTypeOK /\ HolderInv
  OBVIOUS
<1>1. <<>> \in Seq(Event) /\ DOMAIN <<>> = {} /\ <<>> \in [DOMAIN <<>> -> Nat]
  BY EmptySeq
<1>2. WaitTypeOK
  BY <1>1, TypeInit DEF DInit, Init, WaitTypeOK
<1>3. HolderInv
  BY WaitersAssumption DEF DInit, Init, HolderInv
<1> QED
  BY <1>2, <1>3

LEMMA ReadEpoch ==
  ASSUME NEW f, f \in [DOMAIN f -> Nat], NEW x, NEW n \in Nat, NEW g,
         g = [y \in DOMAIN f \cup {x} |-> IF y = x THEN n ELSE f[y]]
  PROVE  g \in [DOMAIN g -> Nat] /\ DOMAIN g = DOMAIN f \cup {x}
OBVIOUS

LEMMA WaitTypeNext == EngineInv /\ WaitTypeOK /\ HolderInv /\ [DNext]_dvars => WaitTypeOK'
<1> SUFFICES ASSUME EngineInv, WaitTypeOK, HolderInv, [DNext]_dvars PROVE WaitTypeOK'
  OBVIOUS
<1>1. TypeOK'
  BY EngineNext DEF EngineInv
<1>2. CASE UNCHANGED <<trackersMutex, waitVars>>
  BY <1>1, <1>2 DEF WaitTypeOK, waitVars
<1>3. ASSUME NEW w \in Waiters, DebugBegin(w) PROVE WaitTypeOK'
  <2>1. \A s \in Subs : Pipeline(s) \in Seq(Event)
    BY PipelineType DEF EngineInv
  <2>2. [s \in Subs |-> IF phase[s] \in {"open", "draining"} THEN Pipeline(s) ELSE <<>>]
          \in [Subs -> Seq(Event)]
    BY <2>1, EmptySeq
  <2> QED
    BY <1>1, <1>3, <2>2 DEF DebugBegin, WaitTypeOK
<1>4. ASSUME NEW w \in Waiters, NEW x \in Addrs, DebugRead(w, x) PROVE WaitTypeOK'
  <2>1. At(x) \in Subs
    BY <1>4, TrackedScope DEF EngineInv, DebugRead
  <2>2. numQueued[At(x)] \in Nat
    BY <2>1 DEF EngineInv, TypeOK
  <2>3. epochs'[w] = [y \in DOMAIN epochs[w] \cup {x} |-> IF y = x THEN numQueued[At(x)] ELSE epochs[w][y]]
    BY <1>4 DEF DebugRead, WaitTypeOK
  <2>4. epochs'[w] \in [DOMAIN epochs'[w] -> Nat] /\ DOMAIN epochs'[w] = DOMAIN epochs[w] \cup {x}
    BY <2>2, <2>3 DEF WaitTypeOK
  <2>5. DOMAIN epochs' = Waiters /\ \A v \in Waiters \ {w} : epochs'[v] = epochs[v]
    BY <1>4 DEF DebugRead, WaitTypeOK
  <2>6. UNCHANGED <<trackersMutex, waitAt, waitingOn, called>>
    BY <1>4 DEF DebugRead, vars
  <2> QED
    BY <1>1, <2>4, <2>5, <2>6 DEF WaitTypeOK
<1>5. ASSUME NEW w \in Waiters, NEW x \in Addrs, epochs' = [epochs EXCEPT ![w] = Without(@, x)],
             trackersMutex' \in {trackersMutex, Free}, UNCHANGED <<waitAt, called>>,
             waitingOn' \in [Waiters -> Addrs \cup {NoAddr}]
      PROVE  WaitTypeOK'
  <2>1. epochs'[w] = [y \in DOMAIN epochs[w] \ {x} |-> epochs[w][y]]
    BY <1>5 DEF WaitTypeOK, Without
  <2>2. epochs'[w] \in [DOMAIN epochs'[w] -> Nat] /\ DOMAIN epochs'[w] = DOMAIN epochs[w] \ {x}
    BY <2>1 DEF WaitTypeOK
  <2>3. DOMAIN epochs' = Waiters /\ \A v \in Waiters \ {w} : epochs'[v] = epochs[v]
    BY <1>5 DEF WaitTypeOK
  <2> QED
    BY <1>1, <1>5, <2>2, <2>3 DEF WaitTypeOK
<1>6. ASSUME NEW w \in Waiters, NEW x \in Addrs, DebugPassOver(w, x) PROVE WaitTypeOK'
  BY <1>5, <1>6 DEF DebugPassOver, WaitTypeOK, vars
<1>7. ASSUME NEW w \in Waiters, NEW x \in Addrs, DebugWaitOn(w, x) PROVE WaitTypeOK'
  BY <1>1, <1>7 DEF DebugWaitOn, WaitTypeOK
<1>8. ASSUME NEW w \in Waiters, DebugReadEnd(w) \/ DebugReturn(w) PROVE WaitTypeOK'
  BY <1>1, <1>8 DEF DebugReadEnd, DebugReturn, WaitTypeOK, vars
<1>9. ASSUME NEW w \in Waiters, DebugWaited(w) PROVE WaitTypeOK'
  <2>1. waitingOn[w] \in Addrs
    BY <1>9 DEF DebugWaited, WaitTypeOK
  <2> QED
    BY <1>5, <1>9, <2>1 DEF DebugWaited, WaitTypeOK
<1> QED
  BY <1>2, <1>3, <1>4, <1>6, <1>7, <1>8, <1>9, StepKinds DEF Waiting

LEMMA HolderNext == EngineInv /\ WaitTypeOK /\ HolderInv /\ [DNext]_dvars => HolderInv'
<1> SUFFICES ASSUME EngineInv, WaitTypeOK, HolderInv, [DNext]_dvars PROVE HolderInv'
  OBVIOUS
<1> USE WaitersAssumption
<1>1. CASE [Next]_vars /\ UNCHANGED <<trackersMutex, waitVars>>
  <2>1. trackersMutex # Free => tracked \subseteq tracked'
    <3> USE DEF pubVars, scopeVars, queueVars, workerVars
    <3>1. ASSUME NEW s \in Subs, Destroying(s), trackersMutex # Free PROVE tracked' = tracked
      BY <3>1 DEF Destroying, NoBorrowersLeft, RemoveTracker, CleanupBegin, CleanupType, CleanupEnd,
                  SignalDone, Join
    <3>2. ASSUME NEW s \in Subs, Subscribing(s) \/ Construct(s) \/ DestroyBegin(s) PROVE tracked \subseteq tracked'
      BY <3>2 DEF Subscribing, AddTracker, RegisterType, AddLink, Construct, DestroyBegin
    <3>3. ASSUME NEW s \in Subs, Working(s) PROVE tracked' = tracked
      BY <3>3 DEF Working, TakeBatch, RunEvent, EventReturns, EventThrows, BatchDone, Shutdown
    <3>4. ASSUME NEW t \in Threads, Publishing(t) \/ \E tid \in Topics : PublishBegin(t, tid)
          PROVE  tracked' = tracked
      BY <3>4 DEF Publishing, Deliver, PublishEnd, PublishBegin
    <3> QED
      BY <1>1, <3>1, <3>2, <3>3, <3>4 DEF Next, Acting, Using, Rest, vars
  <2>2. \A w \in Waiters : waitingOn[w] # NoAddr => trackersMutex # Free
    BY DEF HolderInv
  <2> QED
    BY <1>1, <2>1, <2>2 DEF HolderInv, waitVars
<1>2. ASSUME NEW w \in Waiters, DebugBegin(w) \/ Waiting(w) PROVE HolderInv'
  <2>1. tracked' = tracked
    BY <1>2, WaiterFrame DEF scopeVars
  <2>2. CASE DebugBegin(w)
    BY <2>1, <2>2 DEF DebugBegin, HolderInv, WaitTypeOK
  <2>3. ASSUME NEW x \in Addrs, DebugRead(w, x) PROVE HolderInv'
    <3>1. \A v \in Waiters \ {w} : epochs'[v] = epochs[v]
      BY <2>3 DEF DebugRead, WaitTypeOK
    <3>2. waitingOn[w] = NoAddr
      BY <2>3 DEF DebugRead, HolderInv
    <3> QED
      BY <2>1, <2>3, <3>1, <3>2 DEF DebugRead, HolderInv, vars
  <2>4. ASSUME NEW x \in Addrs, DebugPassOver(w, x) PROVE HolderInv'
    <3>1. \A v \in Waiters \ {w} : epochs'[v] = epochs[v]
      BY <2>4 DEF DebugPassOver, WaitTypeOK
    <3> QED
      BY <2>1, <2>4, <3>1 DEF DebugPassOver, HolderInv, vars
  <2>5. ASSUME NEW x \in Addrs, DebugWaitOn(w, x) PROVE HolderInv'
    BY <2>1, <2>5 DEF DebugWaitOn, HolderInv, WaitTypeOK
  <2>6. CASE DebugReadEnd(w) \/ DebugReturn(w)
    BY <2>1, <2>6 DEF DebugReadEnd, DebugReturn, HolderInv, WaitTypeOK, vars
  <2>7. CASE DebugWaited(w)
    <3>1. /\ \A v \in Waiters \ {w} : epochs'[v] = epochs[v] /\ waitingOn'[v] = waitingOn[v]
          /\ waitingOn'[w] = NoAddr /\ trackersMutex' = Free /\ waitAt' = waitAt
      BY <2>7 DEF DebugWaited, WaitTypeOK
    <3>2. waitingOn[w] # NoAddr /\ trackersMutex = w /\ waitAt[w] = "waiting"
      BY <2>7 DEF DebugWaited, HolderInv
    <3> QED
      BY <2>1, <3>1, <3>2 DEF HolderInv
  <2> QED
    BY <1>2, <2>2, <2>3, <2>4, <2>5, <2>6, <2>7 DEF Waiting
<1> QED
  BY <1>1, <1>2, StepKinds

LEMMA WaitInvNext ==
  EngineInv /\ WaitTypeOK /\ HolderInv /\ [DNext]_dvars => (EngineInv /\ WaitTypeOK /\ HolderInv)'
BY EngineNext, WaitTypeNext, HolderNext

\* Every variable of the engine and of its waiters keeps its type; trackers_mutex
\* is only ever held, across steps, by a waiter.
THEOREM WaitTypeInvariant == DSpec => []WaitTypeOK
<1> DEFINE I == EngineInv /\ WaitTypeOK /\ HolderInv
<1>1. DInit => I
  BY EngineInit, WaitTypeInit
<1>2. I /\ [DNext]_dvars => I'
  BY WaitInvNext
<1> QED
  BY <1>1, <1>2, PTL DEF DSpec

LEMMA HolderInvImplies == EngineInv /\ WaitTypeOK /\ HolderInv => WaitsOnTheLiving
<1> SUFFICES ASSUME EngineInv, WaitTypeOK, HolderInv, NEW w \in Waiters,
                    NEW x \in (IF waitAt[w] = "reading" THEN tracked ELSE {waitingOn[w]} \ {NoAddr})
             PROVE  \E s \in Subs : AddrOf[s] = x /\ phase[s] \in Trackable
  BY DEF WaitsOnTheLiving, Trackable
<1>1. x \in tracked
  BY DEF HolderInv
<1> QED
  BY <1>1, TrackedScope DEF EngineInv

\* The address that a waiter dereferences, to read a counter or to wait, is that
\* of a scope whose destructor has not removed its tracker, however many scopes
\* have lived there before.
THEOREM WaitersTouchTheLiving == DSpec => []WaitsOnTheLiving
<1> DEFINE I == EngineInv /\ WaitTypeOK /\ HolderInv
<1>1. DInit => I
  BY EngineInit, WaitTypeInit
<1>2. I /\ [DNext]_dvars => I'
  BY WaitInvNext
<1>3. I => WaitsOnTheLiving
  BY HolderInvImplies
<1> QED
  BY <1>1, <1>2, <1>3, PTL DEF DSpec

-----------------------------------------------------------------------------
(* What the wait covers.                                                   *)

LEMMA FinishedLen ==
  ASSUME TypeOK, CountInv, NEW s \in Subs
  PROVE  /\ Len(Finished(s)) = IF workerAt[s] = "event" THEN Len(handled[s]) - 1 ELSE Len(handled[s])
         /\ Len(Finished(s)) \in Nat /\ numProcessed[s] <= Len(Finished(s))
         /\ \A i \in 1..Len(Finished(s)) : i \in 1..Len(handled[s]) /\ Finished(s)[i] = handled[s][i]
<1>1. handled[s] \in Seq(Event) /\ Len(handled[s]) \in Nat /\ numProcessed[s] \in Nat
  BY LenProperties DEF TypeOK
<1>2. numProcessed[s] <= Len(handled[s])
  BY DEF CountInv
<1>3. CASE workerAt[s] = "event"
  <2>1. numProcessed[s] < Len(handled[s]) /\ Finished(s) = SubSeq(handled[s], 1, Len(handled[s]) - 1)
    BY <1>3 DEF CountInv, Finished
  <2>2. Len(handled[s]) - 1 \in Nat /\ Len(handled[s]) - 1 <= Len(handled[s])
    BY <1>1, <2>1
  <2>3. /\ Len(Finished(s)) = Len(handled[s]) - 1
        /\ \A i \in 1..(Len(handled[s]) - 1) : Finished(s)[i] = handled[s][i]
    BY <1>1, <2>1, <2>2
  <2> QED
    BY <1>1, <1>3, <2>1, <2>2, <2>3
<1>4. CASE workerAt[s] # "event"
  BY <1>1, <1>2, <1>4 DEF Finished
<1> QED
  BY <1>3, <1>4

LEMMA FinishedLenPrimed ==
  TypeOK' /\ CountInv' => (\A s \in Subs :
    Len(Finished(s)) = IF workerAt[s] = "event" THEN Len(handled[s]) - 1 ELSE Len(handled[s]))'
<1>1. TypeOK /\ CountInv => (\A s \in Subs :
        Len(Finished(s)) = IF workerAt[s] = "event" THEN Len(handled[s]) - 1 ELSE Len(handled[s]))
  BY FinishedLen
<1> QED
  BY <1>1, PTL

\* What OnEvent has returned from never shrinks.
LEMMA FinishedGrows ==
  ASSUME EngineInv, [Next]_vars, NEW s \in Subs
  PROVE  Len(Finished(s)) <= Len(Finished(s)')
<1>1. TypeOK' /\ CountInv'
  BY TypeNext, CountNext DEF EngineInv
<1>2. Len(Finished(s)) = IF workerAt[s] = "event" THEN Len(handled[s]) - 1 ELSE Len(handled[s])
  BY FinishedLen DEF EngineInv
<1>3. Len(Finished(s)') = IF workerAt'[s] = "event" THEN Len(handled'[s]) - 1 ELSE Len(handled'[s])
  BY <1>1, FinishedLenPrimed
<1>4. handled[s] \in Seq(Event) /\ Len(handled[s]) \in Nat
  BY LenProperties DEF EngineInv, TypeOK
<1>5. \A e \in Event : Len(Append(handled[s], e)) = Len(handled[s]) + 1
  BY <1>4, AppendProperties
<1> QED
  BY <1>2, <1>3, <1>4, <1>5, WorkerStep DEF EngineInv

\* A subscription leaves "draining" only with everything handled.
LEMMA DrainedIsFinished ==
  ASSUME EngineInv, [Next]_vars, NEW s \in Subs, phase[s] \in {"open", "draining"}
  PROVE  phase'[s] \in {"open", "draining"} \/ Len(Finished(s)) = Len(Pipeline(s))
<1> USE DEF EngineInv, TypeOK, pubVars, scopeVars, queueVars, workerVars
<1>1. ASSUME NEW t \in Threads, Publishing(t) \/ \E tid \in Topics : PublishBegin(t, tid)
      PROVE  phase' = phase
  BY <1>1 DEF Publishing, Deliver, PublishEnd, PublishBegin
<1>2. ASSUME NEW r \in Subs, Working(r) PROVE phase' = phase
  BY <1>2 DEF Working, TakeBatch, RunEvent, EventReturns, EventThrows, BatchDone, Shutdown
<1>3. ASSUME NEW r \in Subs, Construct(r) \/ DestroyBegin(r) \/ Subscribing(r)
      PROVE  phase'[s] \in {"open", "draining"}
  BY <1>3 DEF Construct, DestroyBegin, Subscribing, AddTracker, RegisterType, AddLink
<1>4. ASSUME NEW r \in Subs, Destroying(r), ~ NoBorrowersLeft(s) PROVE phase'[s] = phase[s]
  BY <1>4 DEF Destroying, NoBorrowersLeft, RemoveTracker, CleanupBegin, CleanupType, CleanupEnd,
              SignalDone, Join
<1>5. ASSUME NoBorrowersLeft(s) PROVE Len(Finished(s)) = Len(Pipeline(s))
  <2>1. workerAt[s] # "event" /\ fifo[s] = <<>> /\ batch[s] = <<>> /\ handled[s] \in Seq(Event)
    BY <1>5 DEF NoBorrowersLeft, Borrowed, BatchInv
  <2>2. Pipeline(s) = handled[s]
    BY <2>1, ConcatEmptySeq DEF Pipeline
  <2> QED
    BY <2>1, <2>2, FinishedLen
<1> QED
  BY <1>1, <1>2, <1>3, <1>4, <1>5 DEF Next, Acting, Using, Rest, vars

LEMMA CoverInit == DInit => CoverInv
<1> SUFFICES ASSUME DInit PROVE CoverInv
  OBVIOUS
<1>1. \A w \in Waiters, s \in Subs : called[w][s] = <<>> /\ epochs[w] = <<>> /\ Len(Finished(s)) \in Nat
  BY FinishedLen, EngineInit DEF DInit, EngineInv
<1>2. \A s \in Subs : Pipeline(s) = <<>>
  BY ConcatEmptySeq, EmptySeq DEF DInit, Init, Pipeline
<1>3. Len(<<>>) = 0 /\ DOMAIN <<>> = {}
  OBVIOUS
<1>4. \A s \in Subs : IsPrefixOf(<<>>, Pipeline(s))
  BY <1>2, <1>3 DEF IsPrefixOf
<1>5. \A w \in Waiters : DOMAIN epochs[w] = {}
  BY <1>3 DEF DInit
<1> QED
  BY <1>1, <1>3, <1>4, <1>5 DEF CoverInv

\* What one waiter needs of one subscription, across a step of the engine.
LEMMA CoverEngine ==
  ASSUME EngineInv, WaitTypeOK, CoverInv, [Next]_vars, UNCHANGED waitVars
  PROVE  CoverInv'
<1> SUFFICES ASSUME NEW w \in Waiters, NEW s \in Subs
             PROVE  /\ IsPrefixOf(called[w][s], Pipeline(s)')
                    /\ Len(called[w][s]) <= Len(Finished(s)') \/ YetToWait(w, s)'
  BY DEF CoverInv, waitVars, IsPrefixOf
<1>1. called[w][s] \in Seq(Event) /\ Len(called[w][s]) \in Nat
  BY LenProperties DEF WaitTypeOK
<1>2. Pipeline(s) \in Seq(Event) /\ Len(Pipeline(s)) \in Nat
  BY PipelineType, LenProperties DEF EngineInv
<1>3. IsPrefixOf(called[w][s], Pipeline(s))
  BY DEF CoverInv
<1>4. IsPrefixOf(called[w][s], Pipeline(s)')
  BY <1>1, <1>2, <1>3, PipelineStep, PrefixOfAppend DEF EngineInv
<1>5. Len(Finished(s)) \in Nat /\ Len(Finished(s)') \in Nat /\ Len(Finished(s)) <= Len(Finished(s)')
  <2>1. Len(Finished(s)) \in Nat
    BY FinishedLen DEF EngineInv
  <2>2. TypeOK' /\ CountInv'
    BY TypeNext, CountNext DEF EngineInv
  <2>3. Len(handled'[s]) \in Nat /\ numProcessed'[s] \in Nat
    BY <2>2, LenProperties DEF TypeOK
  <2>4. workerAt'[s] = "event" => Len(handled'[s]) > 0
    BY <2>2, <2>3 DEF CountInv
  <2> QED
    BY <2>1, <2>2, <2>3, <2>4, FinishedGrows, FinishedLenPrimed
<1>6. Len(called[w][s]) <= Len(Pipeline(s))
  BY <1>3 DEF IsPrefixOf
<1>7. Len(called[w][s]) <= Len(Finished(s)) \/ YetToWait(w, s)
  BY DEF CoverInv
<1>8. CASE Len(called[w][s]) <= Len(Finished(s))
  BY <1>1, <1>4, <1>5, <1>8
<1>9. CASE YetToWait(w, s) /\ phase'[s] \in {"open", "draining"}
  BY <1>4, <1>9 DEF YetToWait, waitVars
<1>10. CASE YetToWait(w, s) /\ phase'[s] \notin {"open", "draining"}
  BY <1>1, <1>4, <1>5, <1>6, <1>10, DrainedIsFinished DEF YetToWait
<1> QED
  BY <1>7, <1>8, <1>9, <1>10

LEMMA CoverNext ==
  EngineInv /\ WaitTypeOK /\ HolderInv /\ CoverInv /\ [DNext]_dvars => CoverInv'
<1> SUFFICES ASSUME EngineInv, WaitTypeOK, HolderInv, CoverInv, [DNext]_dvars PROVE CoverInv'
  OBVIOUS
<1>1. CASE [Next]_vars /\ UNCHANGED <<trackersMutex, waitVars>>
  BY <1>1, CoverEngine DEF waitVars
<1>2. ASSUME NEW w \in Waiters, DebugBegin(w) \/ Waiting(w) PROVE CoverInv'
  <2>1. /\ UNCHANGED <<phase, tracked, numProcessed, done>>
        /\ \A s \in Subs : Pipeline(s)' = Pipeline(s) /\ Finished(s)' = Finished(s)
    BY <1>2, WaiterFrame, PipelineUnchanged DEF Finished, scopeVars, queueVars, workerVars
  <2>2. \A v \in Waiters \ {w} : /\ waitAt'[v] = waitAt[v] /\ epochs'[v] = epochs[v]
                                 /\ called'[v] = called[v]
    BY <1>2 DEF WaitTypeOK, DebugBegin, Waiting, DebugRead, DebugReadEnd, DebugPassOver, DebugWaitOn,
                DebugWaited, DebugReturn
  <2> SUFFICES ASSUME NEW s \in Subs
               PROVE  /\ IsPrefixOf(called'[w][s], Pipeline(s))
                      /\ Len(called'[w][s]) <= Len(Finished(s)) \/ YetToWait(w, s)'
    <3>1. ASSUME NEW v \in Waiters \ {w}, NEW s \in Subs
          PROVE  /\ IsPrefixOf(called'[v][s], Pipeline(s))
                 /\ Len(called'[v][s]) <= Len(Finished(s)) \/ YetToWait(v, s)'
      BY <2>1, <2>2 DEF CoverInv, YetToWait
    <3>2. \A v \in Waiters : waitAt'[v] = "idle" => DOMAIN epochs'[v] = {}
      BY <1>2, <2>2 DEF CoverInv, WaitTypeOK, DebugBegin, Waiting, DebugRead, DebugReadEnd, DebugPassOver,
                        DebugWaitOn, DebugWaited, DebugReturn, HolderInv
    <3>3. ASSUME NEW v \in Waiters, NEW s \in Subs
          PROVE  /\ IsPrefixOf(called[v][s], Pipeline(s))'
                 /\ (Len(called[v][s]) <= Len(Finished(s)) \/ YetToWait(v, s))'
      <4>1. /\ IsPrefixOf(called'[v][s], Pipeline(s))
            /\ Len(called'[v][s]) <= Len(Finished(s)) \/ YetToWait(v, s)'
        BY <3>1
      <4> QED
        BY <2>1, <4>1 DEF IsPrefixOf
    <3> QED
      BY <3>1, <3>2, <3>3 DEF CoverInv
  <2>3. /\ IsPrefixOf(called[w][s], Pipeline(s))
        /\ Len(called[w][s]) <= Len(Finished(s)) \/ YetToWait(w, s)
        /\ Len(called[w][s]) <= Len(Pipeline(s))
    BY DEF CoverInv, IsPrefixOf
  <2>4. /\ called[w][s] \in Seq(Event) /\ Len(called[w][s]) \in Nat
        /\ numQueued[s] = Len(Pipeline(s)) /\ Len(Pipeline(s)) \in Nat
        /\ numProcessed[s] \in Nat /\ Len(Finished(s)) \in Nat /\ numProcessed[s] <= Len(Finished(s))
    <3>1. called[w][s] \in Seq(Event) /\ Len(called[w][s]) \in Nat
      BY LenProperties DEF WaitTypeOK
    <3>2. Pipeline(s) \in Seq(Event) /\ Len(Pipeline(s)) \in Nat
      BY PipelineType, LenProperties DEF EngineInv
    <3>3. numQueued[s] = Len(Pipeline(s)) /\ numProcessed[s] \in Nat
      BY DEF EngineInv, CountInv, TypeOK
    <3> QED
      BY <3>1, <3>2, <3>3, FinishedLen DEF EngineInv
  <2>5. phase[s] \in {"open", "draining"} =>
          AddrOf[s] \in tracked /\ s = At(AddrOf[s]) /\ ~ done[s]
    <3>1. phase[s] \in {"open", "draining"} => AddrOf[s] \in tracked /\ Exists(s)
      BY DEF EngineInv, AddrInv, Trackable, Exists
    <3>2. phase[s] \in {"open", "draining"} => ~ done[s]
      BY DEF EngineInv, CountInv
    <3> QED
      BY <3>1, <3>2, TrackedScope DEF EngineInv
  <2>6. CASE DebugBegin(w)
    <3>1. /\ called'[w][s] = IF phase[s] \in {"open", "draining"} THEN Pipeline(s) ELSE <<>>
          /\ waitAt'[w] = "reading" /\ epochs' = epochs /\ DOMAIN epochs[w] = {}
      BY <2>6 DEF DebugBegin, WaitTypeOK, CoverInv
    <3>2. CASE phase[s] \in {"open", "draining"}
      BY <2>1, <2>4, <3>1, <3>2 DEF YetToWait, IsPrefixOf
    <3>3. CASE phase[s] \notin {"open", "draining"}
      BY <2>4, <3>1, <3>3 DEF IsPrefixOf
    <3> QED
      BY <3>2, <3>3
  <2>7. ASSUME NEW x \in Addrs, DebugRead(w, x)
        PROVE  /\ IsPrefixOf(called'[w][s], Pipeline(s))
               /\ Len(called'[w][s]) <= Len(Finished(s)) \/ YetToWait(w, s)'
    <3>1. /\ waitAt' = waitAt /\ called' = called /\ waitAt[w] = "reading" /\ x \in tracked
          /\ epochs'[w] = [y \in DOMAIN epochs[w] \cup {x} |->
                             IF y = x THEN numQueued[At(x)] ELSE epochs[w][y]]
      BY <2>7 DEF DebugRead, WaitTypeOK
    <3>2. ASSUME YetToWait(w, s) PROVE YetToWait(w, s)'
      <4>1. CASE AddrOf[s] = x
        BY <2>1, <2>3, <2>4, <2>5, <3>1, <3>2, <4>1 DEF YetToWait
      <4>2. CASE AddrOf[s] # x
        BY <2>1, <3>1, <3>2, <4>2 DEF YetToWait
      <4> QED
        BY <4>1, <4>2
    <3> QED
      BY <2>3, <3>1, <3>2
  <2>8. ASSUME NEW x \in Addrs, DebugPassOver(w, x)
        PROVE  /\ IsPrefixOf(called'[w][s], Pipeline(s))
               /\ Len(called'[w][s]) <= Len(Finished(s)) \/ YetToWait(w, s)'
    <3>1. /\ waitAt' = waitAt /\ called' = called /\ waitAt[w] = "waiting" /\ x \notin tracked
          /\ epochs'[w] = [y \in DOMAIN epochs[w] \ {x} |-> epochs[w][y]]
      BY <2>8 DEF DebugPassOver, WaitTypeOK, Without
    <3> QED
      BY <2>1, <2>3, <2>5, <3>1 DEF YetToWait
  <2>9. CASE (\E x \in Addrs : DebugWaitOn(w, x)) \/ DebugReadEnd(w)
    BY <2>1, <2>3, <2>5, <2>9 DEF DebugWaitOn, DebugReadEnd, YetToWait, WaitTypeOK
  <2>10. CASE DebugWaited(w)
    <3> DEFINE x == waitingOn[w]
    <3>1. /\ waitAt' = waitAt /\ called' = called /\ waitAt[w] = "waiting"
          /\ x \in tracked /\ x \in DOMAIN epochs[w]
          /\ epochs'[w] = [y \in DOMAIN epochs[w] \ {x} |-> epochs[w][y]]
          /\ done[At(x)] \/ numProcessed[At(x)] >= epochs[w][x]
      BY <2>10 DEF DebugWaited, WaitTypeOK, HolderInv, Without
    <3>2. epochs[w][x] \in Nat
      BY <3>1 DEF WaitTypeOK
    <3>3. ASSUME YetToWait(w, s), AddrOf[s] = x PROVE Len(called[w][s]) <= Len(Finished(s))
      <4>1. s = At(x) /\ ~ done[s] /\ Len(called[w][s]) <= epochs[w][x]
        BY <2>5, <3>1, <3>3 DEF YetToWait
      <4> QED
        BY <2>4, <3>1, <3>2, <4>1
    <3>4. ASSUME YetToWait(w, s), AddrOf[s] # x PROVE YetToWait(w, s)'
      BY <2>1, <3>1, <3>4 DEF YetToWait
    <3> QED
      BY <2>3, <3>1, <3>3, <3>4
  <2>11. CASE DebugReturn(w)
    BY <2>1, <2>3, <2>11 DEF DebugReturn, YetToWait, WaitTypeOK
  <2> QED
    BY <1>2, <2>6, <2>7, <2>8, <2>9, <2>10, <2>11 DEF Waiting
<1> QED
  BY <1>1, <1>2, StepKinds

LEMMA HeadOfConcat ==
  ASSUME NEW S, NEW d \in Seq(S), NEW b \in Seq(S), NEW f \in Seq(S)
  PROVE  \A i \in 1..Len(d) : ((d \o b) \o f)[i] = d[i]
<1>1. Len(d) \in Nat /\ Len(b) \in Nat /\ Len(f) \in Nat
  BY LenProperties
<1>2. d \o b \in Seq(S) /\ Len(d \o b) = Len(d) + Len(b)
  BY ConcatProperties
<1>3. \A i \in 1..Len(d) : (d \o b)[i] = d[i]
  BY <1>1, ConcatProperties
<1>4. \A i \in 1..Len(d \o b) : ((d \o b) \o f)[i] = (d \o b)[i]
  BY <1>1, <1>2, ConcatProperties
<1> QED
  BY <1>1, <1>2, <1>3, <1>4

LEMMA CoverInvImplies == EngineInv /\ WaitTypeOK /\ CoverInv => WaitCovers
<1> SUFFICES ASSUME EngineInv, WaitTypeOK, CoverInv, NEW w \in Waiters, waitAt[w] = "returned",
                    NEW s \in Subs
             PROVE  IsPrefixOf(called[w][s], Finished(s))
  BY DEF WaitCovers
<1>1. Len(called[w][s]) <= Len(Finished(s)) /\ IsPrefixOf(called[w][s], Pipeline(s))
  BY DEF CoverInv, YetToWait
<1>4. \A i \in 1..Len(handled[s]) : Pipeline(s)[i] = handled[s][i]
  <2>1. handled[s] \in Seq(Event) /\ batch[s] \in Seq(Event) /\ fifo[s] \in Seq(Event)
    BY DEF EngineInv, TypeOK
  <2>2. \A d, b, f \in Seq(Event) : \A i \in 1..Len(d) : ((d \o b) \o f)[i] = d[i]
    BY HeadOfConcat
  <2> QED
    BY <2>1, <2>2 DEF Pipeline
<1>5. Len(called[w][s]) \in Nat /\ Len(Finished(s)) \in Nat
  BY LenProperties, FinishedLen DEF WaitTypeOK, EngineInv
<1>6. \A i \in 1..Len(Finished(s)) : i \in 1..Len(handled[s]) /\ Finished(s)[i] = handled[s][i]
  BY FinishedLen DEF EngineInv
<1>7. ASSUME NEW i \in 1..Len(called[w][s]) PROVE Finished(s)[i] = called[w][s][i]
  <2>1. i \in 1..Len(Finished(s))
    BY <1>1, <1>5
  <2>2. Finished(s)[i] = Pipeline(s)[i]
    BY <1>4, <1>6, <2>1
  <2> QED
    BY <1>1, <2>2 DEF IsPrefixOf
<1> QED
  BY <1>1, <1>7 DEF IsPrefixOf

\* When the wait returns, OnEvent has returned for all that was queued at the
\* call: the counters it compares, read and waited for under separate locks while
\* events flow, scopes die and addresses are reused, never let it return early.
THEOREM WaitCoversTheCall == DSpec => []WaitCovers
<1> DEFINE I == EngineInv /\ WaitTypeOK /\ HolderInv /\ CoverInv
<1>1. DInit => I
  BY EngineInit, WaitTypeInit, CoverInit
<1>2. I /\ [DNext]_dvars => I'
  BY WaitInvNext, CoverNext
<1>3. I => WaitCovers
  BY CoverInvImplies
<1> QED
  BY <1>1, <1>2, <1>3, PTL DEF DSpec
-----------------------------------------------------------------------------
(* The engine under the waiters.                                           *)

\* All that the theorems of ActorModelProofs rest on.
EngineFullInv == EngineInv /\ LinkInv /\ OrderInv /\ DrainInv

LEMMA EngineFullInit == DInit => EngineFullInv /\ Broadcast!BInit
BY EngineInit, LinkInit, OrderInit, DrainInit, BroadcastInit DEF DInit, EngineFullInv

LEMMA EngineFullNext == EngineFullInv /\ [DNext]_dvars => EngineFullInv'
<1> SUFFICES ASSUME EngineFullInv, [DNext]_dvars PROVE EngineFullInv'
  OBVIOUS
<1>1. EngineInv'
  BY EngineNext DEF EngineFullInv
<1>2. CASE [Next]_vars
  BY <1>1, <1>2, LinkNext, OrderNext, DrainNext DEF EngineFullInv, EngineInv
<1>3. ASSUME NEW w \in Waiters, DebugBegin(w) \/ Waiting(w) PROVE LinkInv' /\ OrderInv' /\ DrainInv'
  <2>1. UNCHANGED <<pubVars, scopeVars, queueVars, workerVars, owed>>
    BY <1>3, WaiterFrame
  <2>2. \A s \in Subs : Pipeline(s)' = Pipeline(s)
    BY <2>1, PipelineUnchanged DEF queueVars, workerVars
  <2>3. LinkInv'
    BY <2>1 DEF EngineFullInv, LinkInv, pubVars, scopeVars
  <2>4. NumberInv' /\ LockInv' /\ PendingInv' /\ CausalOrder'
    <3>1. UNCHANGED <<nextId, inHand, todo>>
      BY <2>1 DEF pubVars
    <3>2. NumberInv'
      BY <2>2, <3>1 DEF EngineFullInv, OrderInv, NumberInv
    <3>3. LockInv'
      BY <3>1 DEF EngineFullInv, OrderInv, LockInv, EventType
    <3>4. PendingInv'
      <4> SUFFICES ASSUME NEW t \in Threads, NEW s \in todo[t], NEW i \in 1..Len(Pipeline(s)),
                          s \in Subs, Related(Pipeline(s)[i], inHand[t])
                   PROVE  Pipeline(s)[i].id < inHand[t].id
        <5>1. todo \in [Threads -> SUBSET Subs]
          BY DEF EngineFullInv, EngineInv, TypeOK
        <5> QED
          BY <2>2, <3>1, <5>1 DEF PendingInv, Related, EventType
      <4> QED
        BY DEF EngineFullInv, OrderInv, PendingInv
    <3>5. CausalOrder'
      BY <2>2 DEF EngineFullInv, OrderInv, CausalOrder, Ordered, Related, EventType
    <3> QED
      BY <3>2, <3>3, <3>4, <3>5
  <2>5. DrainInv'
    BY <2>1, <2>2 DEF EngineFullInv, DrainInv, DrainedFirst, scopeVars, workerVars
  <2> QED
    BY <2>3, <2>4, <2>5 DEF OrderInv
<1> QED
  BY <1>1, <1>2, <1>3, StepKinds DEF EngineFullInv

LEMMA BroadcastUnderWaiters == EngineFullInv /\ [DNext]_dvars => [Broadcast!BNext]_Broadcast!bvars
<1> SUFFICES ASSUME EngineFullInv, [DNext]_dvars PROVE [Broadcast!BNext]_Broadcast!bvars
  OBVIOUS
<1>1. CASE [Next]_vars
  BY <1>1, BroadcastStep DEF EngineFullInv, EngineInv
<1>2. ASSUME NEW w \in Waiters, DebugBegin(w) \/ Waiting(w) PROVE UNCHANGED Broadcast!bvars
  <2>1. UNCHANGED <<nextId, inHand, todo, links, fifo, batch, handled, owed, phase>>
    BY <1>2, WaiterFrame DEF pubVars, scopeVars, queueVars, workerVars
  <2>2. \A s \in Subs : Stage(s)' = Stage(s) /\ Inbox(s)' = Inbox(s)
    BY <2>1, PipelineUnchanged, InboxUnchanged DEF Stage
  <2> QED
    BY <2>1, <2>2, BroadcastStutters
<1> QED
  BY <1>1, <1>2, StepKinds

LEMMA SilentUnderWaiters ==
  EngineFullInv /\ [DNext]_dvars =>
    \A s \in Subs : phase[s] = "gone" =>
      /\ handled'[s] = handled[s]
      /\ numQueued'[s] = numQueued[s]
      /\ phase'[s] = "gone"
<1> SUFFICES ASSUME EngineFullInv, [DNext]_dvars
             PROVE  \A s \in Subs : phase[s] = "gone" =>
                      handled'[s] = handled[s] /\ numQueued'[s] = numQueued[s] /\ phase'[s] = "gone"
  OBVIOUS
<1>1. CASE [Next]_vars
  BY <1>1, GoneSilent DEF EngineFullInv, EngineInv
<1>2. ASSUME NEW w \in Waiters, DebugBegin(w) \/ Waiting(w) PROVE UNCHANGED <<handled, numQueued, phase>>
  BY <1>2, WaiterFrame DEF scopeVars, queueVars, workerVars
<1> QED
  BY <1>1, <1>2, StepKinds

\* A debug wait is invisible to the users of the engine: with any number of waiters,
\* which hold up the constructors and destructors of scopes, it is the same
\* broadcast, in order, drained, and silent towards whom it has let go.
THEOREM WaitersDisturbNothing ==
  DSpec => BroadcastSpec /\ [](TargetsAlive /\ CausalOrder /\ DrainedFirst) /\ SilentAfterGone
<1>1. EngineFullInv => TargetsAlive /\ CausalOrder /\ DrainedFirst
  BY LinkInvImplies DEF EngineFullInv, EngineInv, OrderInv, DrainInv
<1>2. EngineFullInv /\ [DNext]_dvars =>
        [\A s \in Subs : phase[s] = "gone" =>
           /\ handled'[s] = handled[s]
           /\ numQueued'[s] = numQueued[s]
           /\ phase'[s] = "gone"]_vars
  BY SilentUnderWaiters
<1> QED
  BY <1>1, <1>2, EngineFullInit, EngineFullNext, BroadcastUnderWaiters, PTL
     DEF DSpec, BroadcastSpec, Broadcast!BSpec, SilentAfterGone
-----------------------------------------------------------------------------
(* What a waiter waits for will come.                                      *)

\* No scope is ever made at the address of another one.
OwnAddresses == \A r, s \in Subs : AddrOf[r] = AddrOf[s] => r = s

\* Of a subscription that does not throw, what OnEvent has returned from is counted.
CountedInv ==
  \A s \in Subs \ Throwing :
    numProcessed[s] = IF workerAt[s] = "event" THEN Len(handled[s]) - 1 ELSE Len(handled[s])

\* A number that is waited for is one that was reached by the queue.
EpochInv ==
  \A w \in Waiters, s \in Subs :
    AddrOf[s] \in DOMAIN epochs[w] => epochs[w][AddrOf[s]] <= numQueued[s]

\* Whoever waits, waits for a number that is reached when what is in the queue has
\* been handled.
WaitsForTheQueued ==
  \A w \in Waiters, s \in Subs \ Throwing : waitingOn[w] = AddrOf[s] =>
    /\ numProcessed[s] = Len(Finished(s))
    /\ epochs[w][AddrOf[s]] <= Len(Pipeline(s))

LEMMA CountedNext == TypeOK /\ GoneInv /\ CountInv /\ CountedInv /\ [Next]_vars => CountedInv'
<1> SUFFICES ASSUME TypeOK, GoneInv, CountInv, CountedInv, [Next]_vars, NEW s \in Subs \ Throwing
             PROVE  numProcessed'[s] = IF workerAt'[s] = "event" THEN Len(handled'[s]) - 1 ELSE Len(handled'[s])
  BY DEF CountedInv
<1>1. /\ handled[s] \in Seq(Event) /\ Len(handled[s]) \in Nat /\ numProcessed[s] \in Nat
      /\ \A e \in Event : Len(Append(handled[s], e)) = Len(handled[s]) + 1
  BY LenProperties, AppendProperties DEF TypeOK
<1>2. numProcessed[s] = IF workerAt[s] = "event" THEN Len(handled[s]) - 1 ELSE Len(handled[s])
  BY DEF CountedInv
<1>3. CASE workerAt[s] = "event" /\ workerAt'[s] # "event" /\ handled'[s] = handled[s]
  <2>1. EventReturns(s)
    <3> USE <1>3 DEF pubVars, scopeVars, queueVars, workerVars
    <3>1. ASSUME NEW r \in Subs, Working(r) PROVE EventReturns(s)
      BY <3>1 DEF Working, TakeBatch, RunEvent, EventReturns, EventThrows, BatchDone, Shutdown, TypeOK
    <3>2. ASSUME NEW r \in Subs, \/ Construct(r) \/ DestroyBegin(r) \/ Subscribing(r) \/ Destroying(r) PROVE FALSE
      BY <3>2 DEF Construct, DestroyBegin, Subscribing, AddTracker, RegisterType, AddLink, Destroying,
                  NoBorrowersLeft, RemoveTracker, CleanupBegin, CleanupType, CleanupEnd, SignalDone, Join,
                  TypeOK, GoneInv
    <3>3. ASSUME NEW t \in Threads, Publishing(t) \/ \E tid \in Topics : PublishBegin(t, tid) PROVE FALSE
      BY <3>3 DEF Publishing, Deliver, PublishEnd, PublishBegin
    <3> QED
      BY <3>1, <3>2, <3>3 DEF Next, Acting, Using, Rest, vars
  <2>2. numProcessed'[s] = numProcessed[s] + 1
    BY <2>1 DEF EventReturns, TypeOK
  <2> QED
    BY <1>1, <1>2, <1>3, <2>2
<1>4. CASE ~ (workerAt[s] = "event" /\ workerAt'[s] # "event" /\ handled'[s] = handled[s])
  BY <1>1, <1>2, <1>4, WorkerStep, SMTT(60)
<1> QED
  BY <1>3, <1>4

LEMMA EpochNext ==
  OwnAddresses /\ EngineInv /\ WaitTypeOK /\ HolderInv /\ EpochInv /\ [DNext]_dvars => EpochInv'
<1> SUFFICES ASSUME OwnAddresses, EngineInv, WaitTypeOK, HolderInv, EpochInv, [DNext]_dvars,
                    NEW w \in Waiters, NEW s \in Subs, AddrOf[s] \in DOMAIN epochs'[w]
             PROVE  epochs'[w][AddrOf[s]] <= numQueued'[s]
  BY DEF EpochInv
<1> DEFINE x == AddrOf[s]
<1>1. numQueued[s] \in Nat /\ DOMAIN epochs = Waiters /\ epochs[w] \in [DOMAIN epochs[w] -> Nat]
      /\ (x \in DOMAIN epochs[w] => epochs[w][x] <= numQueued[s])
  BY DEF WaitTypeOK, TypeOK, EpochInv
<1>2. CASE [Next]_vars /\ UNCHANGED <<trackersMutex, waitVars>>
  <2>1. epochs' = epochs
    BY <1>2 DEF waitVars
  <2>2. numQueued'[s] \in {numQueued[s], numQueued[s] + 1}
    BY <1>2, PipelineStep DEF EngineInv
  <2> QED
    BY <1>1, <2>1, <2>2
<1>3. ASSUME NEW v \in Waiters, DebugBegin(v) \/ Waiting(v) PROVE epochs'[w][x] <= numQueued'[s]
  <2>1. numQueued' = numQueued
    BY <1>3, WaiterFrame DEF queueVars
  <2>2. CASE epochs'[w] = epochs[w]
    BY <1>1, <2>1, <2>2
  <2>3. ASSUME NEW y, epochs' = [epochs EXCEPT ![v] = Without(@, y)] PROVE epochs'[w][x] <= numQueued'[s]
    <3>1. epochs'[w] = epochs[w] \/ epochs'[w] = Without(epochs[w], y)
      BY <1>1, <2>3
    <3>2. epochs'[w] = Without(epochs[w], y) => x \in DOMAIN epochs[w] /\ epochs'[w][x] = epochs[w][x]
      BY DEF Without
    <3> QED
      BY <1>1, <2>1, <3>1, <3>2
  <2>4. ASSUME NEW y \in Addrs, DebugRead(v, y) PROVE epochs'[w][x] <= numQueued'[s]
    <3>1. y \in tracked /\ epochs' = [epochs EXCEPT ![v] =
            [z \in DOMAIN epochs[v] \cup {y} |-> IF z = y THEN numQueued[At(y)] ELSE epochs[v][z]]]
      BY <1>1, <2>4 DEF DebugRead
    <3>2. At(y) \in Subs /\ AddrOf[At(y)] = y
      BY <3>1, TrackedScope DEF EngineInv
    <3>3. x = y => s = At(y)
      BY <3>2 DEF OwnAddresses
    <3>4. CASE w = v
      BY <1>1, <2>1, <3>1, <3>3, <3>4
    <3>5. CASE w # v
      BY <1>1, <2>2, <3>1, <3>5
    <3> QED
      BY <3>4, <3>5
  <2>5. \/ epochs' = epochs \/ \E y \in Addrs : DebugRead(v, y)
        \/ \E y : epochs' = [epochs EXCEPT ![v] = Without(@, y)]
    BY <1>3 DEF DebugBegin, Waiting, DebugReadEnd, DebugPassOver, DebugWaitOn, DebugWaited, DebugReturn
  <2> QED
    BY <2>2, <2>3, <2>4, <2>5
<1> QED
  BY <1>2, <1>3, StepKinds

\* A debug wait is never made to wait for more than what is queued, and all of that is
\* counted when it has been handled, as long as OnEvent does not throw and addresses
\* are not reused: the two conditions without which WaitReturns fails.
THEOREM WaitIsForTheQueued == ASSUME OwnAddresses PROVE DSpec => []WaitsForTheQueued
<1> DEFINE I == EngineInv /\ WaitTypeOK /\ HolderInv /\ CountedInv /\ EpochInv
<1>1. DInit => I
  <2>1. DInit => CountedInv /\ EpochInv
    BY EmptySeq DEF DInit, Init, CountedInv, EpochInv
  <2> QED
    BY <2>1, EngineInit, WaitTypeInit
<1>2. I /\ [DNext]_dvars => I'
  <2>1. I /\ [DNext]_dvars => CountedInv'
    <3> SUFFICES ASSUME I, [DNext]_dvars PROVE CountedInv'
      OBVIOUS
    <3>1. CASE [Next]_vars
      BY <3>1, CountedNext DEF EngineInv
    <3>2. ASSUME NEW w \in Waiters, DebugBegin(w) \/ Waiting(w) PROVE UNCHANGED <<handled, numProcessed, workerAt>>
      BY <3>2, WaiterFrame DEF queueVars, workerVars
    <3> QED
      BY <3>1, <3>2, StepKinds DEF CountedInv
  <2> QED
    BY <2>1, WaitInvNext, EpochNext
<1>3. I => WaitsForTheQueued
  <2> SUFFICES ASSUME I, NEW w \in Waiters, NEW s \in Subs \ Throwing, waitingOn[w] = AddrOf[s]
               PROVE  numProcessed[s] = Len(Finished(s)) /\ epochs[w][AddrOf[s]] <= Len(Pipeline(s))
    BY DEF WaitsForTheQueued
  <2>1. AddrOf[s] # NoAddr
    BY ConstantsAssumption, WaitersAssumption
  <2>2. AddrOf[s] \in DOMAIN epochs[w]
    BY <2>1 DEF HolderInv
  <2>3. numQueued[s] = Len(Pipeline(s)) /\ epochs[w][AddrOf[s]] <= numQueued[s]
    BY <2>2 DEF EngineInv, CountInv, EpochInv
  <2>4. numProcessed[s] = Len(Finished(s))
    BY FinishedLen DEF EngineInv, CountedInv
  <2> QED
    BY <2>3, <2>4
<1> QED
  BY <1>1, <1>2, <1>3, PTL DEF DSpec
=============================================================================
