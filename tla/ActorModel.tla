----------------------------- MODULE ActorModel -----------------------------
(***************************************************************************)
(* The publish/subscribe engine of lib_c5t_actor_model.{h,cc}: emitters    *)
(* publish events into topics, every subscription owns a queue and a       *)
(* worker thread, and subscriptions come and go while events flow.         *)
(*                                                                         *)
(* A subscription s stands for one `ActorSubscriberScopeForImpl`, its      *)
(* `OfExtendedScope`, its worker thread and its subscriber id: the ids are *)
(* unique, so each member of Subs is constructed at most once.             *)
(*                                                                         *)
(* Mutexes held only inside one step are not represented.  The ones that   *)
(* are held across steps are: the mutex of a type's handler is held by the *)
(* thread whose event in hand has that type, the mutex of the all-types    *)
(* singleton by the subscription being cleaned up, and `trackersMutex` is  *)
(* a variable because the waiters of ActorDebugWait hold it.               *)
(***************************************************************************)
EXTENDS Naturals, Sequences, FiniteSets

CONSTANTS
  Emitters,     \* threads that call C5T_EMIT
  Subs,         \* subscriptions; each one names its worker thread too
  Topics,       \* topic ids
  Types,        \* event types, one handler (TopicsSubcribersPerTypeSingleton) each
  Addrs,        \* heap addresses an OfExtendedScope may be allocated at
  TypeOf,       \* the event type of a topic
  TopicsOf,     \* the topics a subscription subscribes to
  AddrOf,       \* the address of a subscription's OfExtendedScope
  EmitsOf,      \* the topics the OnEvent of a subscription's worker may emit to
  Throwing,     \* the subscriptions whose OnEvent may throw
  MaxEvents,    \* bound: events emitted in a behaviour
  NoEvent,      \* "this thread is not publishing"
  Free          \* "nobody holds the mutex"

Threads == Emitters \cup Subs

ASSUME ConstantsAssumption ==
  /\ Emitters \cap Subs = {}
  /\ TypeOf \in [Topics -> Types]
  /\ TopicsOf \in [Subs -> SUBSET Topics]
  /\ AddrOf \in [Subs -> Addrs]
  /\ EmitsOf \in [Subs -> SUBSET Topics]
  /\ Throwing \subseteq Subs
  /\ MaxEvents \in Nat

Event == [id : Nat, topic : Topics, by : Threads]

ASSUME SentinelAssumption == NoEvent \notin Event

VARIABLES
  nextId,        \* ghost: the number of the next event, in publication order
  inHand,        \* the event a thread is publishing, or NoEvent
  todo,          \* the subscriptions that PublishGenericEvent has yet to call
  links,         \* s_ and m2_ of all handlers: the pairs <<topic, subscription>>
  registered,    \* types_per_ids_: the topics whose type was registered for s
  phase,         \* where the owner of the scope is in its life
  fifo,          \* ActorModelQueue::fifo
  done,          \* ActorModelQueue::done
  numQueued,     \* ActorModelQueue::num_queued
  numProcessed,  \* ActorModelQueue::num_processed
  batch,         \* what is left of the vector that the worker swapped out
  workerAt,      \* where the worker thread is in Thread()
  tracked,       \* tracked_workers: the addresses registered with AddTracker
  trackersMutex, \* trackers_mutex: Free or its holder
  handled,       \* ghost: the events OnEvent was called with, in order
  owed           \* ghost: what was handled or queued when the destruction began

pubVars    == <<nextId, inHand, todo>>
scopeVars  == <<links, registered, phase, tracked>>
queueVars  == <<fifo, done, numQueued, numProcessed>>
workerVars == <<batch, workerAt, handled>>
vars == <<pubVars, scopeVars, queueVars, workerVars, trackersMutex, owed>>

Phases == {"none", "built", "open", "draining", "untrack", "unlink",
           "cleaning", "stop", "join", "gone"}

WorkerPoints == {"none", "waiting", "batch", "event", "exited"}

TypeOK ==
  /\ nextId \in Nat
  /\ inHand \in [Threads -> Event \cup {NoEvent}]
  /\ todo \in [Threads -> SUBSET Subs]
  /\ links \subseteq Topics \X Subs
  /\ registered \in [Subs -> SUBSET Topics]
  /\ phase \in [Subs -> Phases]
  /\ fifo \in [Subs -> Seq(Event)]
  /\ done \in [Subs -> BOOLEAN]
  /\ numQueued \in [Subs -> Nat]
  /\ numProcessed \in [Subs -> Nat]
  /\ batch \in [Subs -> Seq(Event)]
  /\ workerAt \in [Subs -> WorkerPoints]
  /\ tracked \subseteq Addrs
  /\ handled \in [Subs -> Seq(Event)]
  /\ owed \in [Subs -> Seq(Event)]

Init ==
  /\ nextId = 0
  /\ inHand = [t \in Threads |-> NoEvent]
  /\ todo = [t \in Threads |-> {}]
  /\ links = {}
  /\ registered = [s \in Subs |-> {}]
  /\ phase = [s \in Subs |-> "none"]
  /\ fifo = [s \in Subs |-> <<>>]
  /\ done = [s \in Subs |-> FALSE]
  /\ numQueued = [s \in Subs |-> 0]
  /\ numProcessed = [s \in Subs |-> 0]
  /\ batch = [s \in Subs |-> <<>>]
  /\ workerAt = [s \in Subs |-> "none"]
  /\ tracked = {}
  /\ trackersMutex = Free
  /\ handled = [s \in Subs |-> <<>>]
  /\ owed = [s \in Subs |-> <<>>]

-----------------------------------------------------------------------------
(* Locks and lifetimes, read off the state.                                *)

EventType(e) == TypeOf[e.topic]

\* PublishGenericEvent holds the mutex of the handler of its event's type.
TypeLocked(ty) == \E t \in Threads : inHand[t] # NoEvent /\ EventType(inHand[t]) = ty

\* CleanupSubscriberByID holds the mutex of the all-types singleton while it
\* goes from type to type.
RegistryLocked == \E s \in Subs : phase[s] = "cleaning"

\* The object exists: from its construction to the end of its destructor.
Exists(s) == phase[s] \notin {"none", "gone"}

FullyLinked(s) == \A tid \in TopicsOf[s] : <<tid, s>> \in links

LinksOfType(s, ty) == {l \in links : l[2] = s /\ TypeOf[l[1]] = ty}

\* A thread of the user emits at will, a worker only from inside OnEvent.
MayEmit(t, tid) ==
  \/ t \in Emitters
  \/ /\ t \in Subs
     /\ workerAt[t] = "event"
     /\ tid \in EmitsOf[t]

\* Faulty: only the closures in the queue hold a Borrowed.
Borrowed_QueueOnly(s) == fifo[s] # <<>>

\* current::Owned / current::Borrowed: every closure in the queue, and every
\* closure of the vector the worker goes through, holds a Borrowed to s.  The
\* vector lives until OnBatchDone has returned.
Borrowed(s) == fifo[s] # <<>> \/ workerAt[s] \in {"batch", "event"}

\* All that was ever put into the queue of s, in order: the events handled, the
\* ones swapped out by the worker, the ones still queued.
Pipeline(s) == (handled[s] \o batch[s]) \o fifo[s]

-----------------------------------------------------------------------------
(* Faulty variants of the actions below: what the properties guard against. *)

\* PublishGenericEvent without its lock.
PublishBegin_Unlocked(t, tid) ==
  /\ nextId < MaxEvents
  /\ inHand[t] = NoEvent
  /\ MayEmit(t, tid)
  /\ inHand' = [inHand EXCEPT ![t] = [id |-> nextId, topic |-> tid, by |-> t]]
  /\ todo' = [todo EXCEPT ![t] = {s \in Subs : <<tid, s>> \in links}]
  /\ nextId' = nextId + 1
  /\ UNCHANGED <<scopeVars, queueVars, workerVars, trackersMutex, owed>>

\* The event is moved into the first link, and the next ones get a null.
Deliver_Moved(t, s) ==
  /\ inHand[t] # NoEvent
  /\ s \in todo[t]
  /\ todo' = [todo EXCEPT ![t] = @ \ {s}]
  /\ LET first == \A r \in Subs : <<inHand[t].topic, r>> \in links => r \in todo[t]
     IN  fifo' = [fifo EXCEPT ![s] = Append(@, IF first THEN inHand[t] ELSE NoEvent)]
  /\ numQueued' = [numQueued EXCEPT ![s] = @ + 1]
  /\ UNCHANGED <<nextId, inHand, scopeVars, done, numProcessed, workerVars,
                 trackersMutex, owed>>

\* The tracker is removed without trackers_mutex.
RemoveTracker_Unlocked(s) ==
  /\ phase[s] = "untrack"
  /\ tracked' = tracked \ {AddrOf[s]}
  /\ phase' = [phase EXCEPT ![s] = "unlink"]
  /\ UNCHANGED <<pubVars, links, registered, queueVars, workerVars, trackersMutex, owed>>

\* The links are erased without the lock of the handler.
CleanupType_Unlocked(s, ty) ==
  /\ phase[s] = "cleaning"
  /\ ty \in {TypeOf[tid] : tid \in registered[s]}
  /\ LinksOfType(s, ty) # {}
  /\ links' = links \ LinksOfType(s, ty)
  /\ UNCHANGED <<pubVars, registered, phase, tracked, queueVars, workerVars,
                 trackersMutex, owed>>

\* m2_.erase(tid) where m2_[tid].erase(sid) is meant.
CleanupType_WholeTopic(s, ty) ==
  /\ phase[s] = "cleaning"
  /\ ty \in {TypeOf[tid] : tid \in registered[s]}
  /\ LinksOfType(s, ty) # {}
  /\ ~ TypeLocked(ty)
  /\ links' = {l \in links : <<l[1], s>> \notin LinksOfType(s, ty)}
  /\ UNCHANGED <<pubVars, registered, phase, tracked, queueVars, workerVars,
                 trackersMutex, owed>>

\* thread.detach().
Join_Detached(s) ==
  /\ phase[s] = "join"
  /\ phase' = [phase EXCEPT ![s] = "gone"]
  /\ UNCHANGED <<pubVars, links, registered, tracked, queueVars, workerVars,
                 trackersMutex, owed>>

\* An event is not counted.
EventReturns_Uncounted(s) ==
  /\ workerAt[s] = "event"
  /\ inHand[s] = NoEvent
  /\ workerAt' = [workerAt EXCEPT ![s] = "batch"]
  /\ UNCHANGED <<pubVars, scopeVars, queueVars, batch, handled, trackersMutex, owed>>

\* The try block is around the loop and not inside it.
EventThrows_EndsBatch(s) ==
  /\ s \in Throwing
  /\ workerAt[s] = "event"
  /\ inHand[s] = NoEvent
  /\ workerAt' = [workerAt EXCEPT ![s] = "batch"]
  /\ batch' = [batch EXCEPT ![s] = <<>>]
  /\ UNCHANGED <<pubVars, scopeVars, queueVars, handled, trackersMutex, owed>>

-----------------------------------------------------------------------------
(* Emitting: C5T_EMIT from a thread of the user or from inside an OnEvent. *)

\* The lock is taken and the loop over m2_[tid] begins.
PublishBegin(t, tid) ==
  /\ nextId < MaxEvents
  /\ inHand[t] = NoEvent
  /\ MayEmit(t, tid)
  /\ ~ TypeLocked(TypeOf[tid])
  /\ inHand' = [inHand EXCEPT ![t] = [id |-> nextId, topic |-> tid, by |-> t]]
  /\ todo' = [todo EXCEPT ![t] = {s \in Subs : <<tid, s>> \in links}]
  /\ nextId' = nextId + 1
  /\ UNCHANGED <<scopeVars, queueVars, workerVars, trackersMutex, owed>>

\* One call of the linked lambda: EnqueueEvent borrows the scope, pushes the
\* closure and counts it, whatever the scope's owner is doing.
Deliver(t, s) ==
  /\ inHand[t] # NoEvent
  /\ s \in todo[t]
  /\ todo' = [todo EXCEPT ![t] = @ \ {s}]
  /\ fifo' = [fifo EXCEPT ![s] = Append(@, inHand[t])]
  /\ numQueued' = [numQueued EXCEPT ![s] = @ + 1]
  /\ UNCHANGED <<nextId, inHand, scopeVars, done, numProcessed, workerVars,
                 trackersMutex, owed>>

PublishEnd(t) ==
  /\ inHand[t] # NoEvent
  /\ todo[t] = {}
  /\ inHand' = [inHand EXCEPT ![t] = NoEvent]
  /\ UNCHANGED <<nextId, todo, scopeVars, queueVars, workerVars, trackersMutex, owed>>

-----------------------------------------------------------------------------
(* Subscribing: C5T_SUBSCRIBE constructs the scope, then links each topic. *)

\* The constructor of OfExtendedScope starts the worker thread.  An address is
\* reused only after the object that lived there is gone.
Construct(s) ==
  /\ phase[s] = "none"
  /\ \A r \in Subs : AddrOf[r] = AddrOf[s] => ~ Exists(r)
  /\ phase' = [phase EXCEPT ![s] = "built"]
  /\ workerAt' = [workerAt EXCEPT ![s] = "waiting"]
  /\ UNCHANGED <<pubVars, links, registered, tracked, queueVars, batch, handled,
                 trackersMutex, owed>>

AddTracker(s) ==
  /\ phase[s] = "built"
  /\ trackersMutex = Free
  /\ tracked' = tracked \cup {AddrOf[s]}
  /\ phase' = [phase EXCEPT ![s] = "open"]
  /\ UNCHANGED <<pubVars, links, registered, queueVars, workerVars, trackersMutex, owed>>

\* AddGenericLink first registers the type for the subscription ...
RegisterType(s, tid) ==
  /\ phase[s] = "open"
  /\ tid \in TopicsOf[s] \ registered[s]
  /\ \A other \in registered[s] : <<other, s>> \in links
  /\ ~ RegistryLocked
  /\ registered' = [registered EXCEPT ![s] = @ \cup {tid}]
  /\ UNCHANGED <<pubVars, links, phase, tracked, queueVars, workerVars,
                 trackersMutex, owed>>

\* ... and then stores the link under the mutex of the handler.
AddLink(s, tid) ==
  /\ phase[s] = "open"
  /\ tid \in registered[s]
  /\ <<tid, s>> \notin links
  /\ ~ TypeLocked(TypeOf[tid])
  /\ links' = links \cup {<<tid, s>>}
  /\ UNCHANGED <<pubVars, registered, phase, tracked, queueVars, workerVars,
                 trackersMutex, owed>>

-----------------------------------------------------------------------------
(* Unsubscribing: the destructor of the scope, from ~Owned on.             *)

\* Subscribing has returned and the owner lets the scope go.  ~Owned waits for
\* the borrowers while the subscription is still linked.
DestroyBegin(s) ==
  /\ phase[s] = "open"
  /\ FullyLinked(s)
  /\ phase' = [phase EXCEPT ![s] = "draining"]
  /\ owed' = [owed EXCEPT ![s] = Pipeline(s)]
  /\ UNCHANGED <<pubVars, links, registered, tracked, queueVars, workerVars,
                 trackersMutex>>

NoBorrowersLeft(s) ==
  /\ phase[s] = "draining"
  /\ ~ Borrowed(s)
  /\ phase' = [phase EXCEPT ![s] = "untrack"]
  /\ UNCHANGED <<pubVars, links, registered, tracked, queueVars, workerVars,
                 trackersMutex, owed>>

RemoveTracker(s) ==
  /\ phase[s] = "untrack"
  /\ trackersMutex = Free
  /\ tracked' = tracked \ {AddrOf[s]}
  /\ phase' = [phase EXCEPT ![s] = "unlink"]
  /\ UNCHANGED <<pubVars, links, registered, queueVars, workerVars, trackersMutex, owed>>

\* CleanupSubscriberByID of the all-types singleton takes its own mutex, calls
\* the handler of each registered type in turn, and releases the mutex.
CleanupBegin(s) ==
  /\ phase[s] = "unlink"
  /\ ~ RegistryLocked
  /\ phase' = [phase EXCEPT ![s] = "cleaning"]
  /\ UNCHANGED <<pubVars, links, registered, tracked, queueVars, workerVars,
                 trackersMutex, owed>>

CleanupType(s, ty) ==
  /\ phase[s] = "cleaning"
  /\ ty \in {TypeOf[tid] : tid \in registered[s]}
  /\ LinksOfType(s, ty) # {}
  /\ ~ TypeLocked(ty)
  /\ links' = links \ LinksOfType(s, ty)
  /\ UNCHANGED <<pubVars, registered, phase, tracked, queueVars, workerVars,
                 trackersMutex, owed>>

CleanupEnd(s) ==
  /\ phase[s] = "cleaning"
  /\ \A tid \in registered[s] : LinksOfType(s, TypeOf[tid]) = {}
  /\ phase' = [phase EXCEPT ![s] = "stop"]
  /\ UNCHANGED <<pubVars, links, registered, tracked, queueVars, workerVars,
                 trackersMutex, owed>>

SignalDone(s) ==
  /\ phase[s] = "stop"
  /\ done' = [done EXCEPT ![s] = TRUE]
  /\ phase' = [phase EXCEPT ![s] = "join"]
  /\ UNCHANGED <<pubVars, links, registered, tracked, fifo, numQueued, numProcessed,
                 workerVars, trackersMutex, owed>>

\* thread.join(), after which the queue and the worker are destroyed.  What the
\* queue held stays in `fifo` as a record of the events that were dropped.
Join(s) ==
  /\ phase[s] = "join"
  /\ workerAt[s] = "exited"
  /\ phase' = [phase EXCEPT ![s] = "gone"]
  /\ UNCHANGED <<pubVars, links, registered, tracked, queueVars, workerVars,
                 trackersMutex, owed>>

-----------------------------------------------------------------------------
(* The worker: OfExtendedScope::Thread().                                  *)

\* The queue is swapped out as a whole, unless the owner has set `done`.
TakeBatch(s) ==
  /\ workerAt[s] = "waiting"
  /\ ~ done[s]
  /\ fifo[s] # <<>>
  /\ batch' = [batch EXCEPT ![s] = fifo[s]]
  /\ fifo' = [fifo EXCEPT ![s] = <<>>]
  /\ workerAt' = [workerAt EXCEPT ![s] = "batch"]
  /\ UNCHANGED <<pubVars, scopeVars, done, numQueued, numProcessed, handled,
                 trackersMutex, owed>>

RunEvent(s) ==
  /\ workerAt[s] = "batch"
  /\ batch[s] # <<>>
  /\ handled' = [handled EXCEPT ![s] = Append(@, Head(batch[s]))]
  /\ batch' = [batch EXCEPT ![s] = Tail(@)]
  /\ workerAt' = [workerAt EXCEPT ![s] = "event"]
  /\ UNCHANGED <<pubVars, scopeVars, queueVars, trackersMutex, owed>>

\* OnEvent returns; only then is the event counted.
EventReturns(s) ==
  /\ workerAt[s] = "event"
  /\ inHand[s] = NoEvent
  /\ numProcessed' = [numProcessed EXCEPT ![s] = @ + 1]
  /\ workerAt' = [workerAt EXCEPT ![s] = "batch"]
  /\ UNCHANGED <<pubVars, scopeVars, fifo, done, numQueued, batch, handled,
                 trackersMutex, owed>>

\* OnEvent throws: the exception is swallowed and the event is not counted.
EventThrows(s) ==
  /\ s \in Throwing
  /\ workerAt[s] = "event"
  /\ inHand[s] = NoEvent
  /\ workerAt' = [workerAt EXCEPT ![s] = "batch"]
  /\ UNCHANGED <<pubVars, scopeVars, queueVars, batch, handled, trackersMutex, owed>>

\* OnBatchDone returns and the vector of closures is destroyed.
BatchDone(s) ==
  /\ workerAt[s] = "batch"
  /\ batch[s] = <<>>
  /\ workerAt' = [workerAt EXCEPT ![s] = "waiting"]
  /\ UNCHANGED <<pubVars, scopeVars, queueVars, batch, handled, trackersMutex, owed>>

\* OnShutdown is called and the thread ends, even if the queue is not empty.
Shutdown(s) ==
  /\ workerAt[s] = "waiting"
  /\ done[s]
  /\ workerAt' = [workerAt EXCEPT ![s] = "exited"]
  /\ UNCHANGED <<pubVars, scopeVars, queueVars, batch, handled, trackersMutex, owed>>

-----------------------------------------------------------------------------
Publishing(t) == (\E s \in Subs : Deliver(t, s)) \/ PublishEnd(t)

Subscribing(s) ==
  \/ AddTracker(s)
  \/ \E tid \in Topics : RegisterType(s, tid) \/ AddLink(s, tid)

Destroying(s) ==
  \/ NoBorrowersLeft(s)
  \/ RemoveTracker(s)
  \/ CleanupBegin(s)
  \/ \E ty \in Types : CleanupType(s, ty)
  \/ CleanupEnd(s)
  \/ SignalDone(s)
  \/ Join(s)

Working(s) ==
  \/ TakeBatch(s)
  \/ RunEvent(s)
  \/ EventReturns(s)
  \/ EventThrows(s)
  \/ BatchDone(s)
  \/ Shutdown(s)

\* What the users of the library decide to do.
Using ==
  \/ \E t \in Threads, tid \in Topics : PublishBegin(t, tid)
  \/ \E s \in Subs : Construct(s) \/ DestroyBegin(s)

Acting ==
  \/ Using
  \/ \E t \in Threads : Publishing(t)
  \/ \E s \in Subs : Subscribing(s) \/ Destroying(s) \/ Working(s)

\* Nothing is under way: no event in hand, in a queue or in a worker, and no
\* scope half made or half destroyed.  The program may rest here for ever.
AtRest ==
  /\ \A t \in Threads : inHand[t] = NoEvent
  /\ \A s \in Subs :
       \/ phase[s] \in {"none", "gone"}
       \/ phase[s] = "open" /\ FullyLinked(s) /\ ~ Borrowed(s)

Rest == AtRest /\ UNCHANGED vars

Next == Acting \/ Rest

Spec == Init /\ [][Next]_vars

\* The threads of the library keep running and every OnEvent returns or throws;
\* nothing is assumed about what the users start.  As the events are finitely many,
\* it is enough that somebody goes on for as long as anybody can.
FairSpec ==
  /\ Spec
  /\ WF_vars(\/ \E t \in Threads : Publishing(t)
             \/ \E s \in Subs : Subscribing(s) \/ Destroying(s) \/ Working(s))

-----------------------------------------------------------------------------
(* Properties.                                                             *)

Related(e, f) == EventType(e) = EventType(f) \/ e.by = f.by

Ordered(q) ==
  \A i, j \in 1..Len(q) : i < j /\ Related(q[i], q[j]) => q[i].id < q[j].id

\* Every subscription gets the events of one type, and the events of one
\* emitter, in the one order in which they were published, and none of them
\* twice: although PublishGenericEvent calls the subscriptions one by one, its
\* lock makes all of them agree on the order, and the worker keeps it.
CausalOrder == \A s \in Subs : Ordered(Pipeline(s))

IsPrefixOf(p, q) == Len(p) <= Len(q) /\ \A i \in 1..Len(p) : q[i] = p[i]

\* Once the destructor is past ~Owned's wait, OnEvent has run, in order, for all
\* that was queued when the destruction began: letting a scope go loses nothing
\* that had reached it.
DrainedFirst ==
  \A s \in Subs :
    phase[s] \in {"untrack", "unlink", "cleaning", "stop", "join", "gone"} =>
      IsPrefixOf(owed[s], handled[s])

\* The lambda stored by AddGenericLink captures the scope by reference: whoever
\* may still call it, now or at a later publication, finds the scope alive and
\* its queue accepting.
TargetsAlive ==
  \A s \in Subs :
    (\E t \in Threads : s \in todo[t]) \/ (\E tid \in Topics : <<tid, s>> \in links) =>
      phase[s] \in {"open", "draining", "untrack", "unlink", "cleaning"}

\* After the destructor has returned nothing touches the queue or the worker:
\* no publication that was under way enqueues into it, no OnEvent runs.
SilentAfterGone ==
  [][\A s \in Subs : phase[s] = "gone" =>
       /\ handled'[s] = handled[s]
       /\ numQueued'[s] = numQueued[s]
       /\ phase'[s] = "gone"]_vars

\* The engine implements TopicBroadcast: its locks make a publication, which is
\* one call per subscription, look like one step, and ~Owned's wait makes a
\* subscription read what it was sent before it leaves.
RangeOf(q) == {q[i] : i \in 1..Len(q)}

OnItsWay(s) == {inHand[t] : t \in {u \in Threads : s \in todo[u]}}

Stage(s) ==
  IF phase[s] = "gone" THEN "closed"
  ELSE IF phase[s] \in {"none", "built", "open"} THEN "active"
  ELSE "quitting"

Broadcast == INSTANCE TopicBroadcast WITH
  members <- links,
  inbox <- [s \in Subs |-> RangeOf(Pipeline(s)) \cup OnItsWay(s)],
  read <- [s \in Subs |-> RangeOf(handled[s])],
  stage <- [s \in Subs |-> Stage(s)],
  owed <- [s \in Subs |-> RangeOf(owed[s])]

BroadcastSpec == Broadcast!BSpec

\* A link made and not retracted is honoured: an event published while s is
\* subscribed is handled in the end, or else s has been destroyed.
PublishedIsHandled ==
  \A s \in Subs, n \in 0..(MaxEvents - 1) :
    (\E e \in RangeOf(Pipeline(s)) \cup OnItsWay(s) : e.id = n)
      ~> ((\E e \in RangeOf(handled[s]) : e.id = n) \/ phase[s] = "gone")

-----------------------------------------------------------------------------
(* What makes the safety properties inductive.                             *)

Linkable == {"open", "draining", "untrack", "unlink", "cleaning"}

\* A subscription is called, or linked, only from after its tracker was added to
\* before CleanupSubscriberByID returns; whom a publication has yet to call is
\* linked, because the links of a type change under the same lock.
LinkInv ==
  /\ \A t \in Threads : \A s \in todo[t] :
       inHand[t] # NoEvent /\ <<inHand[t].topic, s>> \in links
  /\ \A s \in Subs, tid \in Topics : <<tid, s>> \in links =>
       tid \in registered[s] /\ phase[s] \in Linkable

GoneInv ==
  \A s \in Subs :
    /\ phase[s] = "none" => workerAt[s] = "none"
    /\ phase[s] = "gone" => workerAt[s] = "exited"

\* Only a worker that goes through a batch has one.
BatchInv == \A s \in Subs : workerAt[s] \notin {"batch", "event"} => batch[s] = <<>>

\* The events of a pipeline, and the one in hand, carry the numbers given so far.
NumberInv ==
  /\ \A t \in Threads : inHand[t] # NoEvent => inHand[t].id < nextId /\ inHand[t].by = t
  /\ \A s \in Subs : \A i \in 1..Len(Pipeline(s)) : Pipeline(s)[i].id < nextId

\* Two events in hand are of different types: each has the lock of its own.
LockInv ==
  \A t, u \in Threads : t # u /\ inHand[t] # NoEvent /\ inHand[u] # NoEvent =>
    EventType(inHand[t]) # EventType(inHand[u])

\* Whom a publication has yet to call has only older events, among those that
\* the event in hand must not overtake.
PendingInv ==
  \A t \in Threads : \A s \in todo[t] : \A i \in 1..Len(Pipeline(s)) :
    Related(Pipeline(s)[i], inHand[t]) => Pipeline(s)[i].id < inHand[t].id

OrderInv == NumberInv /\ LockInv /\ PendingInv /\ CausalOrder

\* What a subscription is owed stays at the head of its pipeline until it is
\* handled.
DrainInv ==
  /\ \A s \in Subs : phase[s] = "draining" => IsPrefixOf(owed[s], Pipeline(s))
  /\ DrainedFirst
=============================================================================
