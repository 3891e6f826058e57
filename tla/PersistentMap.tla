---------------------------- MODULE PersistentMap ----------------------------
(***************************************************************************)
(* What the storage promises: a map from cells to values that outlives the *)
(* instances opened on it.  A cell is a key of a field in a directory; only *)
(* the cells of the open directory are read or written.                    *)
(*                                                                         *)
(* A failed write shows only later: the value is there until the instance  *)
(* goes, and then may be replaced by anything.  A crash may also damage the *)
(* one cell that was being written, and no other.                          *)
(***************************************************************************)
EXTENDS Naturals

CONSTANTS Dirs, Fields, Keys, Values, Null, NoDir

VARIABLES
  store,   \* the value of each cell, or Null
  open,    \* the directory in use, or NoDir
  shaky,   \* the cells the last write of which has failed
  faults,  \* how many writes have failed
  result   \* what the last read returned

mvars == <<store, open, shaky, faults, result>>

Cells == Dirs \X Fields \X Keys
MaybeValues == Values \cup {Null}

MInit ==
  /\ store \in [Cells -> MaybeValues]
  /\ open = NoDir
  /\ shaky = {}
  /\ faults = 0
  /\ result = Null

MOpen(d) ==
  /\ open = NoDir
  /\ open' = d
  /\ UNCHANGED <<store, shaky, faults, result>>

MRead(c) ==
  /\ c[1] = open
  /\ result' = store[c]
  /\ UNCHANGED <<store, open, shaky, faults>>

MWrite(c, v) ==
  /\ c[1] = open
  /\ store' = [store EXCEPT ![c] = v]
  /\ \/ shaky' = shaky \ {c} /\ faults' = faults
     \/ shaky' \in {shaky \ {c}, shaky \cup {c}} /\ faults' = faults + 1
     \/ v = store[c] /\ UNCHANGED <<shaky, faults>>
  /\ UNCHANGED <<open, result>>

\* The cells of `lost` take any value; the other ones keep theirs.
MGo(lost) ==
  /\ open # NoDir
  /\ open' = NoDir
  /\ store' \in [Cells -> MaybeValues]
  /\ \A c \in Cells \ lost : store'[c] = store[c]
  /\ shaky' = {}
  /\ UNCHANGED <<faults, result>>

MCrashWriting(c, v) ==
  /\ c[1] = open
  /\ MGo(shaky \cup {c})
  /\ c \notin shaky => store'[c] \in {store[c], v, Null}

MNext ==
  \/ \E d \in Dirs : MOpen(d)
  \/ \E c \in Cells : MRead(c)
  \/ \E c \in Cells, v \in MaybeValues : MWrite(c, v) \/ MCrashWriting(c, v)
  \/ MGo(shaky)

MSpec == MInit /\ [][MNext]_mvars
=============================================================================
