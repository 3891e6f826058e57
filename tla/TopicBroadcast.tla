--------------------------- MODULE TopicBroadcast ---------------------------
(***************************************************************************)
(* What the publish/subscribe engine promises, without its locks, queues   *)
(* and threads: an event is published in one step to everybody who is      *)
(* subscribed to its topic at that moment, it is read at most once by each *)
(* of them, the events of one type are read in the order in which they     *)
(* were published, and so are the events of one emitter.                   *)
(*                                                                         *)
(* A subscription that quits still reads all that it was sent, except for  *)
(* the newest event of a type, which may be still on its way to it; it     *)
(* leaves its topics when that is done, and then is closed for good.       *)
(***************************************************************************)
EXTENDS Naturals

CONSTANTS Threads, Subs, Topics, Types, TypeOf

VARIABLES
  nextId,   \* the number of the next event
  members,  \* the pairs <<topic, subscription>>
  inbox,    \* the events that were published to a subscription
  read,     \* the ones among them that it has read
  stage,    \* "active", "quitting" or "closed"
  owed      \* the events a quitting subscription must read before it leaves

bvars == <<nextId, members, inbox, read, stage, owed>>

BInit ==
  /\ nextId = 0
  /\ members = {}
  /\ inbox = [s \in Subs |-> {}]
  /\ read = [s \in Subs |-> {}]
  /\ stage = [s \in Subs |-> "active"]
  /\ owed = [s \in Subs |-> {}]

SameType(e, f) == TypeOf[e.topic] = TypeOf[f.topic]

\* e must be read before f.
Precedes(e, f) == e.id < f.id /\ (SameType(e, f) \/ e.by = f.by)

BPublish(t, tid) ==
  LET e == [id |-> nextId, topic |-> tid, by |-> t] IN
  /\ nextId' = nextId + 1
  /\ inbox' = [s \in Subs |-> IF <<tid, s>> \in members THEN inbox[s] \cup {e} ELSE inbox[s]]
  /\ UNCHANGED <<members, read, stage, owed>>

BRead(s, e) ==
  /\ stage[s] # "closed"
  /\ e \in inbox[s] \ read[s]
  /\ \A f \in inbox[s] : Precedes(f, e) => f \in read[s]
  /\ read' = [read EXCEPT ![s] = @ \cup {e}]
  /\ UNCHANGED <<nextId, members, inbox, stage, owed>>

BSubscribe(s, tid) ==
  /\ stage[s] = "active"
  /\ members' = members \cup {<<tid, s>>}
  /\ UNCHANGED <<nextId, inbox, read, stage, owed>>

\* What may be still on its way is the newest event of its type.
BQuit(s) ==
  /\ stage[s] = "active"
  /\ stage' = [stage EXCEPT ![s] = "quitting"]
  /\ \E due \in SUBSET inbox[s] :
       /\ \A e \in inbox[s] \ due : \A f \in inbox[s] : SameType(e, f) => f.id <= e.id
       /\ owed' = [owed EXCEPT ![s] = due]
  /\ UNCHANGED <<nextId, members, inbox, read>>

BLeave(s, ty) ==
  /\ stage[s] = "quitting"
  /\ owed[s] \subseteq read[s]
  /\ members' = {m \in members : ~ (m[2] = s /\ TypeOf[m[1]] = ty)}
  /\ UNCHANGED <<nextId, inbox, read, stage, owed>>

BClose(s) ==
  /\ stage[s] = "quitting"
  /\ \A m \in members : m[2] # s
  /\ stage' = [stage EXCEPT ![s] = "closed"]
  /\ UNCHANGED <<nextId, members, inbox, read, owed>>

BNext ==
  \/ \E t \in Threads, tid \in Topics : BPublish(t, tid)
  \/ \E s \in Subs :
       \/ \E e \in inbox[s] : BRead(s, e)
       \/ \E tid \in Topics : BSubscribe(s, tid)
       \/ BQuit(s)
       \/ \E ty \in Types : BLeave(s, ty)
       \/ BClose(s)

BSpec == BInit /\ [][BNext]_bvars
=============================================================================
