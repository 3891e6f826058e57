---------------------------- MODULE TrackedPopen2 ----------------------------
(***************************************************************************)
(* C5T_LIFETIME_MANAGER_TRACKED_POPEN2 of lib_c5t_lifetime_manager.h: a     *)
(* call of C5T_POPEN2 that the lifetime manager knows of, whose user's code *)
(* runs within a subscription to the termination, which kills the child.    *)
(* The one thread of Others is the one that terminates the program.         *)
(***************************************************************************)
EXTENDS Popen2

VARIABLES
  tracked,      \* "no", "yes" or, when the call is over, "removed"
  terminating,  \* termination_initiated_
  scope,        \* the subscription around the user's code: "none", "on" or "off"
  notice        \* the callback: not "due" yet, due, or "called"

trackedVars == <<tracked, terminating, scope, notice>>
allVars == <<vars, trackedVars>>

TrackedTypeOK ==
  /\ Popen2TypeOK
  /\ tracked \in {"no", "yes", "removed"} /\ terminating \in BOOLEAN
  /\ scope \in {"none", "on", "off"} /\ (scope = "on" => user \in {"running", "writing"})
  /\ (user = "done" => scope = "off")
  /\ notice \in {"no", "due", "called"} /\ (notice # "no" => terminating)

TrackedInit == Init /\ tracked = "no" /\ terminating = FALSE /\ scope = "none" /\ notice = "no"

TrackingAdd ==
  /\ tracked = "no"
  /\ tracked' = "yes"
  /\ UNCHANGED <<vars, terminating, scope, notice>>

TrackingRemove ==
  /\ tracked = "yes" /\ parent = "returned"
  /\ tracked' = "removed"
  /\ UNCHANGED <<vars, terminating, scope, notice>>

\* A plausible bug: a termination that has begun already is not noticed.
Subscribe_Unchecked ==
  /\ scope = "none" /\ user = "running"
  /\ scope' = "on"
  /\ UNCHANGED <<vars, tracked, terminating, notice>>

\* Before the user's code: who subscribes late is called back at once, by the
\* manager and on the same thread.
Subscribe ==
  /\ scope = "none" /\ user = "running"
  /\ scope' = "on" /\ notice' = (IF terminating THEN "called" ELSE notice)
  /\ IF terminating /\ ~done THEN CheckDone(User) ELSE UNCHANGED vars
  /\ UNCHANGED <<tracked, terminating>>

Initiate ==
  /\ ~terminating
  /\ terminating' = TRUE /\ notice' = (IF scope = "on" THEN "due" ELSE notice)
  /\ UNCHANGED <<vars, tracked, scope>>

\* popen2_done is not set yet: the scope is gone before it is.
Callback ==
  /\ notice = "due" /\ scope = "on"
  /\ notice' = "called"
  /\ IF done THEN UNCHANGED vars ELSE \E k \in Others : CheckDone(k)
  /\ UNCHANGED <<tracked, terminating, scope>>

\* The user's code is over, and with it the subscription.
Unsubscribe ==
  /\ scope = "on" /\ UserCodeReturns
  /\ scope' = "off"
  /\ UNCHANGED <<tracked, terminating, notice>>

\* What the call does by itself is not changed by its being tracked.
Inside ==
  /\ \/ tracked = "yes" /\ Calling
     \/ scope = "on" /\ (Write \/ CheckDone(User))
     \/ Writing \/ Killing \/ (\E s \in Streams : Reading(s))
     \/ ChildWorks \/ ChildEnds
  /\ UNCHANGED trackedVars

TrackedOver == (tracked = "removed" \/ crashed) /\ UNCHANGED allVars

TrackedNext ==
  \/ ~crashed /\ (TrackingAdd \/ TrackingRemove \/ Subscribe \/ Unsubscribe \/ Initiate \/ Callback)
  \/ ~crashed /\ Inside
  \/ TrackedOver

TrackedSpec == TrackedInit /\ [][TrackedNext]_allVars

Tracking == TrackingAdd \/ (tracked = "yes" /\ Calling /\ UNCHANGED trackedVars) \/ TrackingRemove

\* The program's threads and the manager go on, and the child works for as long as it
\* runs.  Neither has the child to end, nor the user's code to write or to return.
\* As all there is to do is bounded, it is enough that somebody goes on.
FairTrackedSpec ==
  /\ TrackedSpec
  /\ WF_allVars(~crashed /\
       \/ Tracking \/ Subscribe \/ Callback
       \/ /\ Writing \/ Killing \/ (\E s \in Streams : Reading(s)) \/ ChildWorks
          /\ UNCHANGED trackedVars)

-----------------------------------------------------------------------------

\* Once the program is terminating, the child is sent SIGTERM, or has ended, or the
\* user's code, in whose scope the subscription lives, has returned.  (The default
\* user's code returns at once: its child is never told.)
TermReachesTheChild ==
  (terminating /\ user \in {"running", "writing"}) ~>
    ((\E k \in Killers : sent[k] > 0) \/ done \/ scope = "off" \/ crashed)

\* Once the child has ended and the user's code has returned, the exit need not wait
\* for this call any more.
TrackingEnds == (child \in {"ended", "reaped"} /\ user = "done") ~> tracked = "removed"
=============================================================================
