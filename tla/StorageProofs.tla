---------------------------- MODULE StorageProofs ----------------------------
(***************************************************************************)
(* Proofs about Storage: its caches and files are well-formed, a cache     *)
(* disagrees with its file only after a failed write, and the storage      *)
(* implements PersistentMap, for every set of directories, fields, keys    *)
(* and values.                                                             *)
(***************************************************************************)
EXTENDS Storage, TLAPS

-----------------------------------------------------------------------------
(* Type correctness.                                                       *)

\* What the accessor sees after its constructor and after a look-up is a cache.
LEMMA CacheType ==
  ASSUME StorageTypeOK, NEW f \in Fields, NEW k \in Keys, instance \in Dirs
  PROVE  /\ Fresh(f) \in [Keys -> Slot]
         /\ Looked(Fresh(f), f, k) \in [Keys -> Slot]
         /\ Looked(Fresh(f), f, k)[k].loaded
  <1>1. EmptySlot \in Slot
    BY DEF EmptySlot, Slot
  <1>2. Fresh(f) \in [Keys -> Slot]
    BY <1>1 DEF Fresh, StorageTypeOK
  <1>3. <<instance, f, k>> \in Cells
    BY DEF Cells
  <1>4. Decoded(disk[<<instance, f, k>>]) \in Values \cup {Null}
    BY DEF Decoded
  <1>5. [loaded |-> TRUE, value |-> Decoded(disk[<<instance, f, k>>])] \in Slot
    BY <1>4 DEF Slot
  <1> QED
    BY <1>2, <1>5 DEF Looked

LEMMA ErasedType ==
  ASSUME NEW cache \in [Keys -> Slot], NEW k \in Keys
  PROVE  [cache EXCEPT ![k].value = Null] \in [Keys -> Slot]
  <1>1. cache[k] \in Slot
    OBVIOUS
  <1>2. [cache[k] EXCEPT !.value = Null] \in Slot
    BY <1>1 DEF Slot
  <1> QED
    BY <1>2

\* A write, whether it succeeds or fails, leaves files that are files.
LEMMA WriteType ==
  ASSUME StorageTypeOK, NEW f \in Fields, NEW k \in Keys, instance \in Dirs,
         NEW file \in Files, WriteFile(f, k, file)
  PROVE  disk' \in [Cells -> Files] /\ faults' \in Nat
  <1> DEFINE c == <<instance, f, k>>
  <1>1. c \in Cells
    BY DEF Cells
  <1>2. \A left \in Files : [disk EXCEPT ![c] = left] \in [Cells -> Files]
    BY DEF StorageTypeOK
  <1>3. disk[c] \in Files /\ Torn \in Files
    BY <1>1 DEF StorageTypeOK, Files
  <1> HIDE DEF c
  <1>4. \/ disk' = [disk EXCEPT ![c] = file] /\ faults' = faults
        \/ /\ \E left \in {disk[c], Torn} : disk' = [disk EXCEPT ![c] = left]
           /\ faults' = faults + 1
    BY DEF WriteFile, c
  <1> QED
    BY <1>2, <1>3, <1>4 DEF StorageTypeOK

LEMMA StorageTypeInit == Init => StorageTypeOK
  BY DEF Init, StorageTypeOK, NothingCached, EmptySlot, Slot, Files

LEMMA StorageTypeNext == StorageTypeOK /\ [Next]_vars => StorageTypeOK'
  <1> SUFFICES ASSUME StorageTypeOK, [Next]_vars
               PROVE  StorageTypeOK'
    OBVIOUS
  <1> USE StorageAssumption
  <1>1. ASSUME NEW d \in Dirs, Create(d)
        PROVE  StorageTypeOK'
    BY <1>1 DEF Create, StorageTypeOK
  <1>2. CASE Destroy
    BY <1>2 DEF Destroy, StorageTypeOK
  <1>3. NothingCached \in [Fields -> [Keys -> Slot]]
    BY DEF NothingCached, EmptySlot, Slot
  <1>4. CASE Crash
    BY <1>3, <1>4 DEF Crash, Restarted, StorageTypeOK
  <1>5. ASSUME NEW f \in Fields, NEW k \in Keys, NEW file \in Values \cup {Tombstone},
               CrashWriting(f, k, file)
        PROVE  StorageTypeOK'
    BY <1>3, <1>5 DEF CrashWriting, Restarted, StorageTypeOK, Files
  <1>6. ASSUME NEW f \in Fields, NEW k \in Keys, Get(f, k)
        PROVE  StorageTypeOK'
    <2>1. instance \in Dirs
      BY <1>6 DEF Get, Use, StorageTypeOK
    <2> QED
      BY <1>6, <2>1, CacheType DEF Get, Use, StorageTypeOK, Slot
  <1>7. ASSUME NEW f \in Fields, NEW k \in Keys, NEW v \in Values, Set(f, k, v)
        PROVE  StorageTypeOK'
    <2>1. instance \in Dirs
      BY <1>7 DEF Set, Use, StorageTypeOK
    <2>2. [loaded |-> TRUE, value |-> v] \in Slot
      BY DEF Slot
    <2>3. disk' \in [Cells -> Files] /\ faults' \in Nat
      BY <1>7, <2>1, WriteType DEF Set, Files
    <2> QED
      BY <1>7, <2>1, <2>2, <2>3, CacheType DEF Set, Use, StorageTypeOK
  <1>8. ASSUME NEW f \in Fields, NEW k \in Keys, Del(f, k)
        PROVE  StorageTypeOK'
    <2>1. instance \in Dirs
      BY <1>8 DEF Del, Use, StorageTypeOK
    <2> DEFINE cache == Looked(Fresh(f), f, k)
    <2>2. cache \in [Keys -> Slot] /\ [cache EXCEPT ![k].value = Null] \in [Keys -> Slot]
      BY <2>1, CacheType, ErasedType
    <2>3. disk' \in [Cells -> Files] /\ faults' \in Nat
      BY <1>8, <2>1, WriteType DEF Del, Files, StorageTypeOK
    <2>4. contents' \in [Fields -> [Keys -> Slot]]
      BY <1>8, <2>2 DEF Del, StorageTypeOK
    <2> QED
      BY <1>8, <2>3, <2>4 DEF Del, Use, StorageTypeOK
  <1>9. CASE UNCHANGED vars
    BY <1>9 DEF vars, StorageTypeOK
  <1> QED
    BY <1>1, <1>2, <1>4, <1>5, <1>6, <1>7, <1>8, <1>9 DEF Next

\* Every reachable state is well-typed: a cache never holds a tombstone or the
\* text of a damaged file.
THEOREM StorageTypeInvariant == Spec => []StorageTypeOK
  BY StorageTypeInit, StorageTypeNext, PTL DEF Spec
-----------------------------------------------------------------------------
(* The refinement: what every step does to the view of the cells and to    *)
(* the set of the shaky ones.                                              *)

\* The abstract state, named.
Store == [c \in Cells |-> View(c)]

\* The cell of the open directory that an accessor works on.
LEMMA CellOf ==
  ASSUME NEW f \in Fields, NEW k \in Keys, instance \in Dirs
  PROVE  /\ <<instance, f, k>> \in Cells
         /\ \A c \in Cells : c[1] = instance /\ c[2] = f /\ c[3] = k => c = <<instance, f, k>>
         /\ \A c \in Cells : c[1] \in Dirs /\ c[2] \in Fields /\ c[3] \in Keys
  BY DEF Cells

LEMMA StoreType == StorageTypeOK => Store \in [Cells -> Values \cup {Null}]
  <1> SUFFICES ASSUME StorageTypeOK, NEW c \in Cells
               PROVE  View(c) \in Values \cup {Null}
    BY DEF Store
  <1>1. Decoded(disk[c]) \in Values \cup {Null}
    BY DEF Decoded
  <1>2. c[2] \in Fields /\ c[3] \in Keys
    BY DEF Cells
  <1>3. Slots(c).value \in Values \cup {Null}
    BY <1>2 DEF StorageTypeOK, Slots, Slot
  <1> QED
    BY <1>1, <1>3 DEF View

\* With no instance open, or before the first use of a field, the files speak.
LEMMA NothingCachedYet ==
  ASSUME NEW c \in Cells, instance = NoDir \/ initialized = {}
  PROVE  ~Cached(c)
  BY StorageAssumption DEF Cached, Cells

\* When the instance goes, the cells that agree with their files keep their
\* values, whatever happens to the files of the cells in `damaged`.
LEMMA InstanceGoes ==
  ASSUME StorageTypeOK, NEW damaged \in SUBSET Cells,
         instance # NoDir, instance' = NoDir, StorageTypeOK',
         \A c \in Cells \ damaged : disk'[c] = disk[c],
         UNCHANGED <<faults, result>>
  PROVE  /\ Map!MGo(Shaky \cup damaged)
         /\ \A c \in Cells : Store'[c] = Decoded(disk'[c])
  <1>1. \A c \in Cells : ~Cached(c)'
    BY StorageAssumption DEF Cached, Cells
  <1>2. \A c \in Cells : Store'[c] = Decoded(disk'[c])
    BY <1>1 DEF Store, View
  <1>3. \A c \in Cells \ (Shaky \cup damaged) : Store'[c] = Store[c]
    BY <1>2 DEF Store, View, Shaky
  <1>4. Shaky' = {}
    BY <1>1 DEF Shaky
  <1>5. Store' \in [Cells -> Values \cup {Null}]
    <2>1. (StorageTypeOK => Store \in [Cells -> Values \cup {Null}])'
      BY StoreType, PTL
    <2> QED
      BY <2>1
  <1> QED
    BY <1>2, <1>3, <1>4, <1>5 DEF Map!MGo, Map!Cells, Map!MaybeValues, Cells, Store

\* A write through the cache: the cells other than the one written keep their
\* values, and their agreement with their files.
LEMMA OtherCellsKept ==
  ASSUME StorageTypeOK, NEW f \in Fields, NEW k \in Keys, Use(f),
         UNCHANGED instance,
         NEW slot \in Slot, slot.loaded,
         NEW cache \in [Keys -> Slot],
         \A j \in Keys \ {k} : cache[j] = Fresh(f)[j],
         contents' = [contents EXCEPT ![f] = cache],
         cache[k] = slot,
         \A c \in Cells \ {<<instance, f, k>>} : disk'[c] = disk[c]
  PROVE  /\ \A c \in Cells \ {<<instance, f, k>>} :
              Store'[c] = Store[c] /\ (c \in Shaky' <=> c \in Shaky)
         /\ Store'[<<instance, f, k>>] = slot.value
         /\ <<instance, f, k>> \in Shaky' <=> slot.value # Decoded(disk'[<<instance, f, k>>])
  <1>1. instance \in Dirs
    BY DEF Use, StorageTypeOK
  <1>2. ASSUME NEW c \in Cells, c # <<instance, f, k>>
        PROVE  Store'[c] = Store[c] /\ (c \in Shaky' <=> c \in Shaky)
    <2>1. Decoded(disk'[c]) = Decoded(disk[c])
      BY <1>2
    <2>2. CASE c[1] # instance
      <3>1. ~Cached(c) /\ ~Cached(c)'
        BY <2>2 DEF Cached
      <3> QED
        BY <2>1, <3>1 DEF Store, Shaky, View
    <2>3. CASE c[1] = instance /\ c[2] # f
      <3>1. Slots(c)' = Slots(c)
        BY <2>3 DEF Slots, StorageTypeOK, Cells
      <3>2. Cached(c)' <=> Cached(c)
        BY <2>3, <3>1 DEF Cached, Use
      <3> QED
        BY <2>1, <3>1, <3>2 DEF Store, Shaky, View
    <2>4. CASE c[1] = instance /\ c[2] = f
      <3>1. c[3] \in Keys \ {k}
        BY <1>1, <1>2, <2>4, CellOf
      <3>2. Slots(c)' = Fresh(f)[c[3]]
        BY <2>4, <3>1 DEF Slots, StorageTypeOK
      <3>3. Cached(c)' <=> Cached(c)
        BY <2>4, <3>1, <3>2 DEF Cached, Use, Fresh, Slots, EmptySlot
      <3>4. Cached(c) => Slots(c)' = Slots(c)
        BY <2>4, <3>1, <3>2 DEF Cached, Fresh, Slots
      <3> QED
        BY <2>1, <3>3, <3>4 DEF Store, Shaky, View
    <2> QED
      BY <2>2, <2>3, <2>4
  <1>3. ASSUME NEW c \in Cells, c = <<instance, f, k>>
        PROVE  Cached(c)' /\ Slots(c)' = slot
    BY <1>3 DEF Cached, Slots, Use, StorageTypeOK
  <1>4. <<instance, f, k>> \in Cells
    BY <1>1, CellOf
  <1>5. /\ Store'[<<instance, f, k>>] = slot.value
        /\ <<instance, f, k>> \in Shaky' <=> slot.value # Decoded(disk'[<<instance, f, k>>])
    <2> DEFINE c == <<instance, f, k>>
    <2>1. Cached(c)' /\ Slots(c)' = slot /\ c \in Cells /\ c' = c
      BY <1>3, <1>4
    <2> HIDE DEF c
    <2>2. Store'[c] = slot.value /\ (c \in Shaky' <=> slot.value # Decoded(disk'[c]))
      BY <2>1 DEF Store, Shaky, View
    <2> QED
      BY <2>2 DEF c
  <1> QED
    BY <1>2, <1>5

\* ... is a write of the abstract map when the file is written too.
LEMMA WriteRefines ==
  ASSUME StorageTypeOK, NEW f \in Fields, NEW k \in Keys, Use(f),
         UNCHANGED <<instance, result>>,
         NEW slot \in Slot, slot.loaded,
         NEW cache \in [Keys -> Slot],
         \A j \in Keys \ {k} : cache[j] = Fresh(f)[j],
         contents' = [contents EXCEPT ![f] = cache],
         cache[k] = slot,
         NEW file \in Files, Decoded(file) = slot.value,
         WriteFile(f, k, file)
  PROVE  Map!MWrite(<<instance, f, k>>, slot.value)
  <1> DEFINE c == <<instance, f, k>>
             v == slot.value
  <1>1. instance \in Dirs /\ c \in Cells /\ c[1] = instance
    BY CellOf DEF Use, StorageTypeOK
  <1>2. v \in Values \cup {Null}
    BY DEF Slot
  <1>3. /\ \A b \in Cells \ {c} : disk'[b] = disk[b]
        /\ \/ disk'[c] = file /\ faults' = faults
           \/ faults' = faults + 1
    BY <1>1 DEF WriteFile, StorageTypeOK
  <1>4. /\ \A b \in Cells \ {c} : Store'[b] = Store[b] /\ (b \in Shaky' <=> b \in Shaky)
        /\ Store'[c] = v
        /\ c \in Shaky' <=> v # Decoded(disk'[c])
    BY <1>3, OtherCellsKept
  <1> HIDE DEF c, v
  <1>5. Store' = [Store EXCEPT ![c] = v]
    BY <1>4 DEF Store
  <1>6. \/ Shaky' = Shaky \ {c}
        \/ Shaky' = Shaky \cup {c} /\ c \in Cells
    BY <1>1, <1>4 DEF Shaky
  <1>7. disk'[c] = file => Shaky' = Shaky \ {c}
    BY <1>4, <1>6 DEF v
  <1>8. Map!MWrite(c, v)
    BY <1>1, <1>3, <1>5, <1>6, <1>7 DEF Map!MWrite, Store
  <1> QED
    BY <1>8 DEF c, v

\* A step that only moves the look-ups of the cell <<instance, f, k>> on.
LEMMA LookRefines ==
  ASSUME StorageTypeOK, NEW f \in Fields, NEW k \in Keys, Use(f),
         UNCHANGED <<instance, disk>>,
         contents' = [contents EXCEPT ![f] = Looked(Fresh(f), f, k)]
  PROVE  /\ Store' = Store /\ Shaky' = Shaky
         /\ Looked(Fresh(f), f, k)[k].value = Store[<<instance, f, k>>]
  <1> DEFINE c == <<instance, f, k>>
             cache == Looked(Fresh(f), f, k)
  <1>1. instance \in Dirs /\ c \in Cells /\ c[1] = instance /\ c[2] = f /\ c[3] = k
    BY CellOf DEF Use, StorageTypeOK
  <1>2. /\ Fresh(f) \in [Keys -> Slot] /\ cache \in [Keys -> Slot]
        /\ cache[k].loaded /\ cache[k] \in Slot
    BY <1>1, CacheType
  <1>3. \A j \in Keys \ {k} : cache[j] = Fresh(f)[j]
    BY <1>2 DEF Looked
  <1>4. /\ \A b \in Cells \ {c} : Store'[b] = Store[b] /\ (b \in Shaky' <=> b \in Shaky)
        /\ Store'[c] = cache[k].value
        /\ c \in Shaky' <=> cache[k].value # Decoded(disk'[c])
    <2> HIDE DEF cache
    <2>1. contents' = [contents EXCEPT ![f] = cache]
      BY DEF cache
    <2> QED
      BY <1>2, <1>3, <2>1, OtherCellsKept
  <1>5. CASE Cached(c)
    <2>1. cache[k] = Slots(c)
      BY <1>1, <1>5 DEF Cached, Slots, Fresh, Looked
    <2>2. Store[c] = Slots(c).value /\ (c \in Shaky <=> Slots(c).value # Decoded(disk[c]))
      BY <1>1, <1>5 DEF Store, View, Shaky
    <2> QED
      BY <1>4, <2>1, <2>2 DEF Store, Shaky
  <1>6. CASE ~Cached(c)
    <2>1. ~Fresh(f)[k].loaded
      BY <1>1, <1>6 DEF Cached, Slots, Fresh, EmptySlot
    <2>2. cache[k].value = Decoded(disk[c])
      BY <1>2, <2>1 DEF Looked
    <2>3. Store[c] = Decoded(disk[c]) /\ c \notin Shaky
      BY <1>1, <1>6 DEF Store, View, Shaky
    <2> QED
      BY <1>4, <2>2, <2>3 DEF Store, Shaky
  <1> QED
    BY <1>5, <1>6

-----------------------------------------------------------------------------
(* The theorems.                                                           *)

LEMMA MapInit == StorageTypeOK /\ Init => Map!MInit
  <1> SUFFICES ASSUME StorageTypeOK, Init
               PROVE  Map!MInit
    OBVIOUS
  <1>1. Store \in [Cells -> Values \cup {Null}]
    BY StoreType
  <1>2. Shaky = {}
    BY NothingCachedYet DEF Shaky, Init
  <1> QED
    BY <1>1, <1>2 DEF Map!MInit, Map!Cells, Map!MaybeValues, Cells, Store, Init

\* Every step of the storage is a step of the map, or leaves it alone.
LEMMA MapNext ==
  StorageTypeOK /\ StorageTypeOK' /\ [Next]_vars => [Map!MNext]_(Map!mvars)
  <1> SUFFICES ASSUME StorageTypeOK, StorageTypeOK', [Next]_vars
               PROVE  Map!MNext \/ (Store' = Store /\ Shaky' = Shaky /\ UNCHANGED <<instance, faults, result>>)
    BY DEF Map!mvars, Store
  <1>1. ASSUME NEW d \in Dirs, Create(d)
        PROVE  Map!MNext
    <2>1. \A c \in Cells : ~Cached(c) /\ ~Cached(c)'
      BY <1>1, StorageAssumption DEF Cached, Create, Cells
    <2>2. Store' = Store /\ Shaky' = Shaky
      BY <1>1, <2>1 DEF Create, Store, Shaky, View
    <2>3. Map!MOpen(d)
      BY <1>1, <2>2 DEF Create, Map!MOpen, Store
    <2> QED
      BY <2>3 DEF Map!MNext
  <1>2. CASE Destroy \/ Crash
    <2>1. Map!MGo(Shaky \cup {})
      BY <1>2, InstanceGoes DEF Destroy, Crash, Restarted
    <2>2. Map!MGo(Shaky)
      BY <2>1
    <2> QED
      BY <2>2 DEF Map!MNext
  <1>3. ASSUME NEW f \in Fields, NEW k \in Keys, NEW file \in Values \cup {Tombstone},
               CrashWriting(f, k, file)
        PROVE  Map!MNext
    <2> DEFINE c == <<instance, f, k>>
               v == Decoded(file)
    <2>1. c \in Cells /\ c[1] = instance
      BY <1>3, CellOf DEF CrashWriting, StorageTypeOK
    <2>2. v \in Values \cup {Null}
      BY DEF Decoded
    <2>3. /\ \A b \in Cells \ {c} : disk'[b] = disk[b]
          /\ disk'[c] \in {Torn, file}
      BY <1>3, <2>1 DEF CrashWriting, StorageTypeOK
    <2>4. /\ instance # NoDir /\ instance' = NoDir
          /\ UNCHANGED <<faults, result>>
      BY <1>3 DEF CrashWriting, Restarted
    <2>5. Decoded(disk'[c]) \in {v, Null}
      BY <2>3, StorageAssumption DEF Decoded
    <2> HIDE DEF c, v
    <2>6. /\ Map!MGo(Shaky \cup {c})
          /\ Store'[c] = Decoded(disk'[c])
      BY <2>1, <2>3, <2>4, InstanceGoes
    <2>7. Map!MCrashWriting(c, v)
      BY <2>1, <2>5, <2>6 DEF Map!MCrashWriting, Store
    <2> QED
      BY <2>1, <2>2, <2>7 DEF Map!MNext, Map!Cells, Map!MaybeValues, Cells
  <1>4. ASSUME NEW f \in Fields, NEW k \in Keys, Get(f, k)
        PROVE  Map!MNext
    <2> DEFINE c == <<instance, f, k>>
    <2>1. c \in Cells /\ c[1] = instance
      BY <1>4, CellOf DEF Get, Use, StorageTypeOK
    <2>2. /\ Store' = Store /\ Shaky' = Shaky
          /\ result' = Store[c]
      BY <1>4, LookRefines DEF Get
    <2> HIDE DEF c
    <2>3. Map!MRead(c)
      BY <1>4, <2>1, <2>2 DEF Map!MRead, Get, Store
    <2> QED
      BY <2>1, <2>3 DEF Map!MNext, Map!Cells, Cells
  <1>5. ASSUME NEW f \in Fields, NEW k \in Keys, NEW v \in Values, Set(f, k, v)
        PROVE  Map!MNext
    <2> DEFINE c == <<instance, f, k>>
               slot == [loaded |-> TRUE, value |-> v]
               cache == [Fresh(f) EXCEPT ![k] = slot]
    <2>1. instance \in Dirs /\ c \in Cells
      BY <1>5, CellOf DEF Set, Use, StorageTypeOK
    <2>2. slot \in Slot /\ slot.loaded /\ slot.value = v
      BY DEF Slot
    <2>3. Fresh(f) \in [Keys -> Slot]
      BY <2>1, CacheType
    <2> HIDE DEF slot
    <2>4. /\ cache \in [Keys -> Slot] /\ cache[k] = slot
          /\ \A j \in Keys \ {k} : cache[j] = Fresh(f)[j]
      BY <2>2, <2>3
    <2>5. v \in Files /\ Decoded(v) = v
      BY DEF Files, Decoded
    <2>6. contents' = [contents EXCEPT ![f] = cache]
      BY <1>5 DEF Set, slot
    <2> HIDE DEF cache
    <2>7. Map!MWrite(c, v)
      BY <1>5, <2>2, <2>4, <2>5, <2>6, WriteRefines DEF Set
    <2> QED
      BY <2>1, <2>7 DEF Map!MNext, Map!Cells, Map!MaybeValues, Cells
  <1>6. ASSUME NEW f \in Fields, NEW k \in Keys, Del(f, k)
        PROVE  Map!MNext
    <2> DEFINE c == <<instance, f, k>>
               looked == Looked(Fresh(f), f, k)
               slot == [looked[k] EXCEPT !.value = Null]
               cache == [looked EXCEPT ![k].value = Null]
    <2>1. instance \in Dirs /\ c \in Cells /\ c[1] = instance
      BY <1>6, CellOf DEF Del, Use, StorageTypeOK
    <2>2. CASE looked[k].value = Null
      <3>1. Store' = Store /\ Shaky' = Shaky /\ Store[c] = Null
        BY <1>6, <2>2, LookRefines DEF Del
      <3> HIDE DEF c, looked
      <3>2. Store' = [Store EXCEPT ![c] = Null]
        BY <3>1, <2>1 DEF Store
      <3>3. Map!MWrite(c, Null)
        BY <1>6, <2>1, <2>2, <3>1, <3>2 DEF Map!MWrite, Del, Store, looked
      <3> QED
        BY <2>1, <3>3 DEF Map!MNext, Map!Cells, Map!MaybeValues, Cells
    <2>3. CASE looked[k].value # Null
      <3>1. Fresh(f) \in [Keys -> Slot] /\ looked \in [Keys -> Slot] /\ looked[k].loaded
        BY <2>1, CacheType
      <3>2. \A j \in Keys \ {k} : looked[j] = Fresh(f)[j]
        BY <3>1 DEF Looked
      <3>3. contents' = [contents EXCEPT ![f] = cache]
        BY <1>6, <2>3 DEF Del
      <3>4. WriteFile(f, k, Tombstone)
        BY <1>6, <2>3 DEF Del
      <3> HIDE DEF looked
      <3>5. slot \in Slot /\ slot.loaded /\ slot.value = Null
        BY <3>1 DEF Slot
      <3>6. /\ cache \in [Keys -> Slot] /\ cache[k] = slot
            /\ \A j \in Keys \ {k} : cache[j] = Fresh(f)[j]
        BY <3>1, <3>2, <3>5
      <3>7. Tombstone \in Files /\ Decoded(Tombstone) = Null
        BY StorageAssumption DEF Files, Decoded
      <3> HIDE DEF slot, cache
      <3>8. Map!MWrite(c, Null)
        BY <1>6, <3>3, <3>4, <3>5, <3>6, <3>7, WriteRefines, ZenonT(60) DEF Del
      <3> QED
        BY <2>1, <3>8 DEF Map!MNext, Map!Cells, Map!MaybeValues, Cells
    <2> QED
      BY <2>2, <2>3
  <1>7. CASE UNCHANGED vars
    BY <1>7 DEF vars, Store, Shaky, View, Cached, Slots
  <1> QED
    BY <1>1, <1>2, <1>3, <1>4, <1>5, <1>6, <1>7 DEF Next

\* The storage implements the persistent map: with any number of fields, keys
\* and directories, the static caches are never taken for the files of another
\* instance, and only failed writes are lost when the instance goes.
THEOREM StorageIsPersistentMap == Spec => IsPersistentMap
  <1>1. Init => Map!MInit
    BY StorageTypeInit, MapInit
  <1> QED
    BY <1>1, MapNext, StorageTypeInvariant, PTL DEF Spec, IsPersistentMap, Map!MSpec

LEMMA WriteThroughInit == Init => WriteThrough
  BY NothingCachedYet DEF Init, WriteThrough, Shaky

LEMMA WriteThroughNext ==
  StorageTypeOK /\ StorageTypeOK' /\ WriteThrough /\ [Next]_vars => WriteThrough'
  <1> SUFFICES ASSUME StorageTypeOK, StorageTypeOK', WriteThrough, [Next]_vars, faults' = 0
               PROVE  Shaky' = {}
    BY DEF WriteThrough
  <1>1. faults \in Nat
    BY DEF StorageTypeOK
  <1>2. [Map!MNext]_(Map!mvars)
    BY MapNext
  <1>3. ASSUME NEW c, NEW v, Map!MWrite(c, v)
        PROVE  Shaky' = {}
    BY <1>1, <1>3 DEF Map!MWrite, WriteThrough
  <1> QED
    BY <1>2, <1>3 DEF Map!MNext, Map!mvars, Map!MOpen, Map!MRead, Map!MGo, Map!MCrashWriting,
                      WriteThrough

\* The caches and the files agree until a write fails.
THEOREM CachesWriteThrough == Spec => []WriteThrough
  BY StorageTypeInvariant, WriteThroughInit, WriteThroughNext, PTL DEF Spec
=============================================================================
