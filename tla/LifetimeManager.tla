--------------------------- MODULE LifetimeManager ---------------------------
(***************************************************************************)
(* The lifetime manager of lib_c5t_lifetime_manager.{h,cc}: the threads and *)
(* the instances it keeps track of, the subscriptions to the termination   *)
(* event, and the way to terminate the program, which is to signal, to wait *)
(* for what is tracked, to join the threads, and to abort if that takes too *)
(* long.                                                                   *)
(*                                                                         *)
(* The callbacks of a WaitableAtomic are called one by one by the thread   *)
(* that has changed it; a scope that is let go is not called any more.     *)
(* The destructor of Owned<OfExtendedLifetime> waits for its Borrowed-s.   *)
(***************************************************************************)
EXTENDS Naturals

CONSTANTS
  Threads,    \* C5T_LIFETIME_MANAGER_TRACKED_THREAD-s
  Instances,  \* C5T_LIFETIME_MANAGER_TRACKED_INSTANCE-s, on threads of their own
  Listeners,  \* subscriptions to the termination event
  Owner,      \* the thread on the stack of which a subscription's scope lives
  Main,       \* the thread that runs main()
  Exiters     \* the threads that call C5T_LIFETIME_MANAGER_EXIT, and Main

Tasks == Threads \cup Instances
Nobody == "nobody"

ASSUME LifetimeAssumption ==
  /\ Threads \cap Instances = {}
  /\ Main \in Exiters
  /\ Exiters \cap Tasks = {} /\ Nobody \notin Exiters
  /\ Owner \in [Listeners -> Threads \cup {Main}]

VARIABLES
  terminating,  \* termination_initiated_
  alive,        \* tracking_.still_alive
  toJoin,       \* threads_to_join_
  spawned,      \* how far the code that starts each task is
  thread,       \* how far the thread of each task is
  listener,     \* how far each subscription is
  called,       \* the flag that the copies of a subscription's lambda share
  held,         \* registered copies of the lambdas that hold their Borrowed
  calls,        \* how many times each user's lambda was called
  exiting,      \* how far each thread is in Exit, or in the destructor
  pending,      \* the callbacks it has still to call
  first,        \* the one that has initiated the termination
  joining,      \* the threads moved out of threads_to_join_ to be joined
  outcome       \* how the process has ended, or "running"

taskVars == <<alive, toJoin, spawned, thread>>
listenerVars == <<listener, called, held, calls>>
exitVars == <<terminating, exiting, pending, first, joining>>
vars == <<taskVars, listenerVars, exitVars, outcome>>

TasksOK ==
  /\ toJoin \subseteq Tasks
  /\ spawned \in [Tasks -> {"no", "created", "emplaced"}]
  /\ thread \in [Tasks -> {"no", "started", "running", "ended", "done"}]
  \* What still_alive is for: the tasks between TrackingAdd and TrackingRemove.
  /\ alive \subseteq Tasks
  /\ \A t \in Tasks : t \in alive <=> thread[t] \in {"running", "ended"}
  /\ \A t \in Tasks : spawned[t] = "no" => thread[t] = "no"

ListenersOK ==
  /\ listener \in [Listeners -> {"no", "registered", "scoped", "gone"}]
  /\ called \in [Listeners -> BOOLEAN]
  /\ held \subseteq Listeners
  /\ calls \in [Listeners -> Nat]

ExitOK ==
  /\ terminating \in BOOLEAN
  /\ exiting \in [Exiters -> {"no", "notifying", "draining", "joining", "destroying", "ignored"}]
  /\ pending \in [Exiters -> SUBSET Listeners]
  /\ first \in Exiters \cup {Nobody}
  /\ joining \subseteq Tasks

LifetimeTypeOK ==
  /\ TasksOK /\ ListenersOK /\ ExitOK
  /\ outcome \in {"running", "exited", "aborted", "terminated"}

Init ==
  /\ terminating = FALSE
  /\ alive = {} /\ toJoin = {} /\ joining = {}
  /\ spawned = [t \in Tasks |-> "no"]
  /\ thread = [t \in Tasks |-> "no"]
  /\ listener = [l \in Listeners |-> "no"]
  /\ called = [l \in Listeners |-> FALSE]
  /\ held = {}
  /\ calls = [l \in Listeners |-> 0]
  /\ exiting = [x \in Exiters |-> "no"]
  /\ pending = [x \in Exiters |-> {}]
  /\ first = Nobody
  /\ outcome = "running"

Running == outcome = "running"

Registered == {l \in Listeners : listener[l] \in {"registered", "scoped"}}

\* A subscription's owner can go on: its body runs, or main() does.
OwnerRuns(l) == IF Owner[l] = Main THEN exiting[Main] \in {"no", "ignored"}
                ELSE thread[Owner[l]] = "running"

-----------------------------------------------------------------------------
(* Faulty variants of the actions below: what the properties guard against. *)

\* The user's lambda is called without a look at the flag.
Signal_Unguarded(l) ==
  /\ called' = [called EXCEPT ![l] = TRUE]
  /\ calls' = [calls EXCEPT ![l] = @ + 1]

\* The task is no longer tracked once its body has returned, and before what
\* the thread owns is destroyed.
BodyReturns_Untracks(t) ==
  /\ thread[t] = "running"
  /\ t \in Instances => terminating
  /\ \A l \in Listeners : Owner[l] = t => listener[l] \in {"no", "gone"}
  /\ thread' = [thread EXCEPT ![t] = "ended"]
  /\ alive' = alive \ {t}
  /\ UNCHANGED <<toJoin, spawned>>

\* The subscriber does not check whether the signal has been given already.
Subscribed_Unchecked(l) ==
  /\ listener[l] = "registered"
  /\ listener' = [listener EXCEPT ![l] = "scoped"]
  /\ UNCHANGED <<called, held, calls>>

\* The subscriber's own copy is called whether or not it is time.
Subscribed_Eager(l) ==
  /\ listener[l] = "registered"
  /\ listener' = [listener EXCEPT ![l] = "scoped"]
  /\ called' = [called EXCEPT ![l] = TRUE]
  /\ calls' = [calls EXCEPT ![l] = IF called[l] THEN @ ELSE @ + 1]
  /\ UNCHANGED held

\* The registered copy keeps its Borrowed when it is called.
Notify_Holding(x, l) ==
  /\ exiting[x] = "notifying"
  /\ l \in pending[x]
  /\ pending' = [pending EXCEPT ![x] = @ \ {l}]
  /\ called' = [called EXCEPT ![l] = @ \/ l \in Registered]
  /\ calls' = [calls EXCEPT ![l] = IF l \in Registered /\ ~called[l] THEN @ + 1 ELSE @]
  /\ UNCHANGED <<terminating, exiting, first, joining, listener, held>>

\* Threads that are not joined in time are left behind.
GraceOver_Detaches(x) ==
  \/ exiting[x] = "draining" /\ alive # {} /\ outcome' = "aborted" /\ UNCHANGED exitVars
  \/ /\ exiting[x] = "joining"
     /\ \E t \in joining : thread[t] # "done"
     /\ exiting' = [exiting EXCEPT ![x] = "destroying"]
     /\ UNCHANGED <<terminating, pending, first, joining, outcome>>

-----------------------------------------------------------------------------
(* Tasks.                                                                  *)

\* The std::thread is constructed, and runs from now on.
Spawn(t) ==
  /\ spawned[t] = "no"
  /\ spawned' = [spawned EXCEPT ![t] = "created"]
  /\ thread' = [thread EXCEPT ![t] = "started"]
  /\ UNCHANGED <<alive, toJoin, outcome>>

\* When terminating, the thread is not moved out of the argument, and the
\* destructor of a joinable thread is std::terminate.
EmplaceThreadImpl(t) ==
  /\ spawned[t] = "created"
  /\ IF terminating
     THEN /\ outcome' = "terminated"
          /\ UNCHANGED <<toJoin, spawned>>
     ELSE /\ toJoin' = toJoin \cup {t}
          /\ spawned' = [spawned EXCEPT ![t] = "emplaced"]
          /\ UNCHANGED outcome
  /\ UNCHANGED <<alive, thread>>

\* On the thread of the task, an instance being constructed by then.
TrackingAdd(t) ==
  /\ thread[t] = "started"
  /\ alive' = alive \cup {t}
  /\ thread' = [thread EXCEPT ![t] = "running"]
  /\ UNCHANGED <<toJoin, spawned>>

\* The body returns, with no scope left on its stack.  The thread of an instance
\* waits until it is time to die, then destroys it.
BodyReturns(t) ==
  /\ thread[t] = "running"
  /\ t \in Instances => terminating
  /\ \A l \in Listeners : Owner[l] = t => listener[l] \in {"no", "gone"}
  /\ thread' = [thread EXCEPT ![t] = "ended"]
  /\ UNCHANGED <<alive, toJoin, spawned>>

TrackingRemove(t) ==
  /\ thread[t] = "ended"
  /\ alive' = alive \ {t}
  /\ thread' = [thread EXCEPT ![t] = "done"]
  /\ UNCHANGED <<toJoin, spawned>>

-----------------------------------------------------------------------------
(* The termination event.                                                  *)

\* The lambda: only the first of its copies to be called goes on to the user's.
Signal(l) ==
  /\ called' = [called EXCEPT ![l] = TRUE]
  /\ calls' = [calls EXCEPT ![l] = IF called[l] THEN @ ELSE @ + 1]

\* SubscribeToTerminationEvent, up to Subscribe: one copy is registered, and the
\* other one stays with the caller.
Subscribe(l) ==
  /\ OwnerRuns(l)
  /\ listener[l] = "no"
  /\ listener' = [listener EXCEPT ![l] = "registered"]
  /\ held' = held \cup {l}
  /\ UNCHANGED <<called, calls>>

\* ... and then: the caller's copy is called if the signal may have been missed.
\* It is this copy that lets its Borrowed go, not the registered one.
Subscribed(l) ==
  /\ listener[l] = "registered"
  /\ listener' = [listener EXCEPT ![l] = "scoped"]
  /\ IF terminating THEN Signal(l) ELSE UNCHANGED <<called, calls>>
  /\ UNCHANGED held

\* The owner lets the scope go.
Unsubscribe(l) ==
  /\ OwnerRuns(l)
  /\ listener[l] = "scoped"
  /\ listener' = [listener EXCEPT ![l] = "gone"]
  /\ held' = held \ {l}
  /\ UNCHANGED <<called, calls>>

\* The registered copy is called by the thread that exits, unless its scope is
\* gone.  A copy that goes on to the user's lambda lets its Borrowed go first.
Notify(x, l) ==
  /\ exiting[x] = "notifying"
  /\ l \in pending[x]
  /\ pending' = [pending EXCEPT ![x] = @ \ {l}]
  /\ IF l \in Registered
     THEN /\ Signal(l)
          /\ held' = IF called[l] THEN held ELSE held \ {l}
     ELSE UNCHANGED <<called, calls, held>>
  /\ UNCHANGED <<terminating, exiting, first, joining, listener>>

-----------------------------------------------------------------------------
(* Termination.                                                            *)

\* Exit, and the destructor when it comes first, up to the notifications.
Initiate(x) ==
  /\ \A l \in Listeners : Owner[l] = x => listener[l] # "registered"
  /\ terminating' = TRUE
  /\ first' = IF terminating THEN first ELSE x
  /\ pending' = [pending EXCEPT ![x] = Registered]
  /\ exiting' = [exiting EXCEPT ![x] = "notifying"]
  /\ UNCHANGED joining

Exit(x) ==
  /\ exiting[x] = "no"
  /\ Initiate(x)

\* main() returns: the singleton is destroyed, organically unless Exit was called.
\* After an Exit the destructor notifies once more, of which nothing comes: who was
\* called has `called` set.
MainReturns ==
  /\ exiting[Main] \in {"no", "ignored"}
  /\ \A l \in Listeners : Owner[l] = Main => listener[l] \in {"no", "gone"}
  /\ IF terminating
     THEN /\ exiting' = [exiting EXCEPT ![Main] = "destroying"]
          /\ UNCHANGED <<terminating, pending, first, joining>>
     ELSE Initiate(Main)

\* A consecutive call is ignored; the first one goes on to DoExit.
Initiated(x) ==
  /\ exiting[x] = "notifying" /\ pending[x] = {}
  /\ exiting' = [exiting EXCEPT ![x] = IF first = x THEN "draining" ELSE "ignored"]
  /\ UNCHANGED <<terminating, pending, first, joining>>

\* DoExit: nothing tracked is left.
Drained(x) ==
  /\ exiting[x] = "draining" /\ alive = {}
  /\ exiting' = [exiting EXCEPT ![x] = "joining"]
  /\ joining' = toJoin
  /\ toJoin' = {}
  /\ UNCHANGED <<terminating, pending, first, alive, spawned, thread>>

\* ... all the threads are joined: ::exit, and the destructor, which finds that
\* the termination has been initiated.
Joined(x) ==
  /\ exiting[x] = "joining"
  /\ \A t \in joining : thread[t] = "done"
  /\ exiting' = [exiting EXCEPT ![x] = "destroying"]
  /\ joining' = {}
  /\ UNCHANGED <<terminating, pending, first>>

\* ... the grace period of either wait is over.
GraceOver(x) ==
  /\ \/ exiting[x] = "draining" /\ alive # {}
     \/ exiting[x] = "joining" /\ \E t \in joining : thread[t] # "done"
  /\ outcome' = "aborted"
  /\ UNCHANGED exitVars

\* The members are destroyed once nothing borrows them, and the process is over.
Destroyed(x) ==
  /\ exiting[x] = "destroying"
  /\ held = {} /\ \A l \in Listeners : listener[l] # "registered"
  /\ outcome' = IF toJoin = {} THEN "exited" ELSE "terminated"
  /\ UNCHANGED exitVars

-----------------------------------------------------------------------------
Starting(t) ==
  /\ Running
  /\ Spawn(t) \/ EmplaceThreadImpl(t)
  /\ UNCHANGED <<listenerVars, exitVars>>

Working(t) ==
  /\ Running
  /\ TrackingAdd(t) \/ BodyReturns(t) \/ TrackingRemove(t)
  /\ UNCHANGED <<listenerVars, exitVars, outcome>>

Listening(l) ==
  /\ Running
  /\ Subscribe(l) \/ Subscribed(l) \/ Unsubscribe(l)
  /\ UNCHANGED <<taskVars, exitVars, outcome>>

Notifying(x) ==
  /\ Running
  /\ \E l \in Listeners : Notify(x, l)
  /\ UNCHANGED <<taskVars, outcome>>

Initiating(x) ==
  /\ Running
  /\ Exit(x) \/ (x = Main /\ MainReturns)
  /\ UNCHANGED <<taskVars, listenerVars, outcome>>

Exiting(x) ==
  /\ Running
  /\ \/ Initiated(x) /\ UNCHANGED <<taskVars, outcome>>
     \/ Drained(x) /\ UNCHANGED outcome
     \/ Joined(x) /\ UNCHANGED <<taskVars, outcome>>
     \/ GraceOver(x) /\ UNCHANGED taskVars
     \/ Destroyed(x) /\ UNCHANGED taskVars
  /\ UNCHANGED listenerVars

\* The process is over.
Over == outcome # "running" /\ UNCHANGED vars

Next ==
  \/ \E t \in Tasks : Starting(t) \/ Working(t)
  \/ \E l \in Listeners : Listening(l)
  \/ \E x \in Exiters : Initiating(x) \/ Notifying(x) \/ Exiting(x)
  \/ Over

Spec == Init /\ [][Next]_vars

\* The threads are scheduled.  A body is only bound to let its scope go once it
\* was called, and to return once it is time to die.  Nobody has to start a task,
\* to subscribe or to exit, and the grace period is long enough to never be over.
FairSpec ==
  /\ Spec
  /\ \A t \in Tasks :
       /\ WF_vars(Starting(t) /\ spawned[t] # "no")
       /\ WF_vars(Working(t) /\ (terminating \/ thread[t] # "running"))
  /\ \A l \in Listeners :
       WF_vars(Listening(l) /\ (listener[l] = "registered" \/ (listener[l] = "scoped" /\ calls[l] > 0)))
  /\ \A x \in Exiters :
       /\ WF_vars(Notifying(x))
       /\ WF_vars(Exiting(x) /\ outcome' # "aborted")

-----------------------------------------------------------------------------
(* Properties.                                                             *)

\* When the thread that has initiated the termination gets to the end of it, the
\* body of every thread that the manager was given has returned, and every
\* instance is destroyed: a thread that is started while the manager looks at what
\* is tracked is either waited for or was not given to it.
NobodyLeftBehind ==
  first # Nobody /\ exiting[first] = "destroying" =>
    \A t \in Tasks : spawned[t] = "emplaced" => thread[t] = "done"

\* The lambda is called once and only once: by the caller or by the thread that
\* exits, however the two race, and however many threads exit.
OnceAndOnlyOnce == \A l \in Listeners : calls[l] <= 1

\* ... and only if it is time to terminate.
OnlyToTerminate == [][\A l \in Listeners : calls'[l] > calls[l] => terminating]_vars

\* The termination signal is not lost on a subscription, made before or after.
SignalIsNotLost ==
  \A l \in Listeners :
    terminating /\ l \in Registered
      ~> (calls[l] = 1 \/ listener[l] = "gone" \/ ~Running)

\* If what is tracked cooperates, the termination ends, with no need to abort.
ExitEnds == terminating ~> ~Running

\* A thread that is started when the program is terminating does it no harm.
LateThreadIsJustNotStarted == outcome # "terminated"
=============================================================================
