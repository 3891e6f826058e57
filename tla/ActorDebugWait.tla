--------------------------- MODULE ActorDebugWait ---------------------------
(***************************************************************************)
(* DebugWaitForAllTrackedWorkersToComplete of lib_c5t_actor_model.cc, on   *)
(* top of the engine of ActorModel.                                        *)
(*                                                                         *)
(* A waiter takes trackers_mutex and reads num_queued of every tracked     *)
(* worker; then, one worker at a time, it takes trackers_mutex again and,  *)
(* if the worker is still tracked, waits WITH the mutex held until the     *)
(* worker has processed that many events.                                  *)
(***************************************************************************)
EXTENDS ActorModel

CONSTANTS
  Waiters,   \* threads that call C5T_ACTORS_DEBUG_WAIT_FOR_ALL_EVENTS_TO_PROPAGATE
  NoAddr     \* "this waiter is not waiting on a worker"

ASSUME WaitersAssumption == NoAddr \notin Addrs /\ Waiters \cap (Threads \cup {Free}) = {}

VARIABLES
  waitAt,     \* where a waiter is: "idle", "reading", "waiting" or "returned"
  epochs,     \* epochs[w]: the addresses to wait for and their num_queued
  waitingOn,  \* the address w waits on, holding trackers_mutex, or NoAddr
  called      \* ghost: what was queued in every subscription at the call

waitVars == <<waitAt, epochs, waitingOn, called>>
dvars == <<vars, waitVars>>

WaitTypeOK ==
  /\ TypeOK
  /\ trackersMutex \in Waiters \cup {Free}
  /\ waitAt \in [Waiters -> {"idle", "reading", "waiting", "returned"}]
  /\ DOMAIN epochs = Waiters
  /\ \A w \in Waiters : DOMAIN epochs[w] \subseteq Addrs /\ epochs[w] \in [DOMAIN epochs[w] -> Nat]
  /\ waitingOn \in [Waiters -> Addrs \cup {NoAddr}]
  /\ called \in [Waiters -> [Subs -> Seq(Event)]]

DInit ==
  /\ Init
  /\ waitAt = [w \in Waiters |-> "idle"]
  /\ epochs = [w \in Waiters |-> <<>>]
  /\ waitingOn = [w \in Waiters |-> NoAddr]
  /\ called = [w \in Waiters |-> [s \in Subs |-> <<>>]]

\* The scope that lives at an address.
At(x) == CHOOSE s \in Subs : AddrOf[s] = x /\ Exists(s)

Without(f, x) == [y \in DOMAIN f \ {x} |-> f[y]]

-----------------------------------------------------------------------------
(* Faulty variants of the actions below: what the properties guard against. *)

\* The worker is asked for the wrong counter.
DebugRead_Processed(w, x) ==
  /\ waitAt[w] = "reading"
  /\ x \in tracked \ DOMAIN epochs[w]
  /\ epochs' = [epochs EXCEPT ![w] =
       [y \in DOMAIN @ \cup {x} |-> IF y = x THEN numProcessed[At(x)] ELSE @[y]]]
  /\ UNCHANGED <<vars, waitAt, waitingOn, called>>

\* The predicate of the wait is strict.
DebugWaited_Strict(w) ==
  /\ waitingOn[w] # NoAddr
  /\ LET s == At(waitingOn[w])
     IN  done[s] \/ numProcessed[s] > epochs[w][waitingOn[w]]
  /\ trackersMutex' = Free
  /\ epochs' = [epochs EXCEPT ![w] = Without(@, waitingOn[w])]
  /\ waitingOn' = [waitingOn EXCEPT ![w] = NoAddr]
  /\ UNCHANGED <<pubVars, scopeVars, queueVars, workerVars, owed, waitAt, called>>

-----------------------------------------------------------------------------
(* The call.                                                               *)

DebugBegin(w) ==
  /\ waitAt[w] = "idle"
  /\ trackersMutex = Free
  /\ trackersMutex' = w
  /\ waitAt' = [waitAt EXCEPT ![w] = "reading"]
  /\ called' = [called EXCEPT ![w] =
       [s \in Subs |-> IF phase[s] \in {"open", "draining"} THEN Pipeline(s) ELSE <<>>]]
  /\ UNCHANGED <<pubVars, scopeVars, queueVars, workerVars, owed, epochs, waitingOn>>

\* One turn of the first loop.
DebugRead(w, x) ==
  /\ waitAt[w] = "reading"
  /\ x \in tracked \ DOMAIN epochs[w]
  /\ epochs' = [epochs EXCEPT ![w] =
       [y \in DOMAIN @ \cup {x} |-> IF y = x THEN numQueued[At(x)] ELSE @[y]]]
  /\ UNCHANGED <<vars, waitAt, waitingOn, called>>

DebugReadEnd(w) ==
  /\ waitAt[w] = "reading"
  /\ tracked \subseteq DOMAIN epochs[w]
  /\ trackersMutex' = Free
  /\ waitAt' = [waitAt EXCEPT ![w] = "waiting"]
  /\ UNCHANGED <<pubVars, scopeVars, queueVars, workerVars, owed, epochs, waitingOn, called>>

\* One turn of the second loop, up to the wait: a worker no longer tracked is
\* passed over, any other is waited for.
DebugPassOver(w, x) ==
  /\ waitAt[w] = "waiting"
  /\ waitingOn[w] = NoAddr
  /\ trackersMutex = Free
  /\ x \in DOMAIN epochs[w] \ tracked
  /\ epochs' = [epochs EXCEPT ![w] = Without(@, x)]
  /\ UNCHANGED <<vars, waitAt, waitingOn, called>>

DebugWaitOn(w, x) ==
  /\ waitAt[w] = "waiting"
  /\ waitingOn[w] = NoAddr
  /\ trackersMutex = Free
  /\ x \in DOMAIN epochs[w] \cap tracked
  /\ trackersMutex' = w
  /\ waitingOn' = [waitingOn EXCEPT ![w] = x]
  /\ UNCHANGED <<pubVars, scopeVars, queueVars, workerVars, owed, waitAt, epochs, called>>

\* WaitUntilNumProcessedIsAtLeast returns.
DebugWaited(w) ==
  /\ waitingOn[w] # NoAddr
  /\ LET s == At(waitingOn[w])
     IN  done[s] \/ numProcessed[s] >= epochs[w][waitingOn[w]]
  /\ trackersMutex' = Free
  /\ epochs' = [epochs EXCEPT ![w] = Without(@, waitingOn[w])]
  /\ waitingOn' = [waitingOn EXCEPT ![w] = NoAddr]
  /\ UNCHANGED <<pubVars, scopeVars, queueVars, workerVars, owed, waitAt, called>>

DebugReturn(w) ==
  /\ waitAt[w] = "waiting"
  /\ waitingOn[w] = NoAddr
  /\ DOMAIN epochs[w] = {}
  /\ waitAt' = [waitAt EXCEPT ![w] = "returned"]
  /\ UNCHANGED <<vars, epochs, waitingOn, called>>

Waiting(w) ==
  \/ \E x \in Addrs : DebugRead(w, x) \/ DebugPassOver(w, x) \/ DebugWaitOn(w, x)
  \/ DebugReadEnd(w)
  \/ DebugWaited(w)
  \/ DebugReturn(w)

NobodyWaits == \A w \in Waiters : waitAt[w] \in {"idle", "returned"}

DNext ==
  \/ Acting /\ UNCHANGED waitVars
  \/ \E w \in Waiters : DebugBegin(w) \/ Waiting(w)
  \/ AtRest /\ NobodyWaits /\ UNCHANGED dvars

DSpec == DInit /\ [][DNext]_dvars

\* As in ActorModel, and the waiters keep running.  Nothing is assumed of the
\* order in which trackers_mutex is handed out.
FairDSpec ==
  /\ DSpec
  /\ \A t \in Threads : WF_dvars(Publishing(t) /\ UNCHANGED waitVars)
  /\ \A s \in Subs :
       /\ WF_dvars(Subscribing(s) /\ UNCHANGED waitVars)
       /\ WF_dvars(Destroying(s) /\ UNCHANGED waitVars)
       /\ WF_dvars(Working(s) /\ UNCHANGED waitVars)
  /\ \A w \in Waiters : WF_dvars(Waiting(w))

-----------------------------------------------------------------------------
(* Properties.                                                             *)

\* What OnEvent has returned from.
Finished(s) == IF workerAt[s] = "event" THEN SubSeq(handled[s], 1, Len(handled[s]) - 1)
               ELSE handled[s]

\* When the wait returns, OnEvent has returned for everything that was queued
\* at the call in any subscription not yet past ~Owned's wait, including those
\* destroyed in the meantime.
WaitCovers ==
  \A w \in Waiters : waitAt[w] = "returned" =>
    \A s \in Subs : IsPrefixOf(called[w][s], Finished(s))

\* A waiter reads counters, and waits, only on a worker that is alive and is not
\* past the removal of its tracker.
WaitsOnTheLiving ==
  \A w \in Waiters :
    LET touched == IF waitAt[w] = "reading" THEN tracked
                   ELSE {waitingOn[w]} \ {NoAddr}
    IN  \A x \in touched : \E s \in Subs :
          AddrOf[s] = x /\ phase[s] \in {"open", "draining", "untrack"}

\* The wait returns: every tracked worker gets to the number of events that it
\* had been sent ("add some DEBUG WAIT FOR ALL QUEUES TO COMPLETE!").
WaitReturns == \A w \in Waiters : (waitAt[w] # "idle") ~> (waitAt[w] = "returned")

\* Destroying a scope ends, whatever is being published, cleaned up or waited for
\* meanwhile (the publications of a behaviour being finitely many): the locks that
\* the destructor takes one inside the other never block each other for ever, and
\* a waiter never holds trackers_mutex for a worker that needs it.
DestructionEndsDespiteWaiters == \A s \in Subs : (phase[s] = "draining") ~> (phase[s] = "gone")

-----------------------------------------------------------------------------
(* What makes the safety properties inductive.                             *)

Trackable == {"open", "draining", "untrack"}

\* An address is that of at most one living scope, and it is tracked exactly
\* while the scope that lives there is between AddTracker and RemoveTracker.
AddrInv ==
  /\ \A r, s \in Subs : AddrOf[r] = AddrOf[s] /\ Exists(r) /\ Exists(s) => r = s
  /\ tracked = {AddrOf[s] : s \in {r \in Subs : phase[r] \in Trackable}}

\* The counters that the waiters read: num_queued counts all that was ever
\* queued, num_processed at most what OnEvent has returned from.
CountInv ==
  \A s \in Subs :
    /\ numQueued[s] = Len(Pipeline(s))
    /\ numProcessed[s] <= Len(handled[s])
    /\ workerAt[s] = "event" => numProcessed[s] < Len(handled[s])
    /\ done[s] => phase[s] \in {"join", "gone"}

\* trackers_mutex is held by the waiter that reads the counters or waits, and a
\* worker that is waited for stays tracked and stays in the waiter's list.
HolderInv ==
  \A w \in Waiters :
    /\ (trackersMutex = w) <=> (waitAt[w] = "reading" \/ waitingOn[w] # NoAddr)
    /\ waitingOn[w] # NoAddr =>
         waitAt[w] = "waiting" /\ waitingOn[w] \in tracked /\ waitingOn[w] \in DOMAIN epochs[w]

\* What OnEvent has returned from covers the call, or else the subscription is
\* still tracked, and the waiter will yet read its counter or wait for a number
\* that is high enough.
YetToWait(w, s) ==
  /\ phase[s] \in {"open", "draining"}
  /\ waitAt[w] \in {"reading", "waiting"}
  /\ waitAt[w] = "waiting" => AddrOf[s] \in DOMAIN epochs[w]
  /\ AddrOf[s] \in DOMAIN epochs[w] => Len(called[w][s]) <= epochs[w][AddrOf[s]]

CoverInv ==
  \A w \in Waiters :
    /\ waitAt[w] = "idle" => DOMAIN epochs[w] = {}
    /\ \A s \in Subs :
         /\ IsPrefixOf(called[w][s], Pipeline(s))
         /\ Len(called[w][s]) <= Len(Finished(s)) \/ YetToWait(w, s)
=============================================================================
