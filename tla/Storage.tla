------------------------------- MODULE Storage -------------------------------
(***************************************************************************)
(* The key-value storage of lib_c5t_storage.{h,cc}: every field keeps a    *)
(* cache of its keys, which is filled on demand from one file per key and  *)
(* written through.  The caches are static and outlive the instances of    *)
(* the storage, which come and go, on one directory or another.            *)
(*                                                                         *)
(* The code is not thread-safe and says so, hence every call is one step.  *)
(* A call of an accessor stands for C5T_STORAGE(field) and the call on the *)
(* accessor it returns.                                                    *)
(***************************************************************************)
EXTENDS Naturals

CONSTANTS
  Dirs,      \* paths a storage may be created at
  Fields,    \* the fields defined with C5T_STORAGE_DEFINE_FIELD
  Keys,
  Values,
  Null,      \* no value: a null unique_ptr
  NoDir,     \* no active instance
  NoFile, Tombstone, Torn,  \* contents of a file that are not a value
  MaxFaults  \* bound: failed writes in a behaviour

Cells == Dirs \X Fields \X Keys
Files == Values \cup {NoFile, Tombstone, Torn}
Slot == [loaded : BOOLEAN, value : Values \cup {Null}]
EmptySlot == [loaded |-> FALSE, value |-> Null]

ASSUME StorageAssumption ==
  /\ {Null, NoFile, Tombstone, Torn} \cap Values = {}
  /\ NoFile # Tombstone /\ NoFile # Torn /\ Tombstone # Torn
  /\ NoDir \notin Dirs
  /\ MaxFaults \in Nat

VARIABLES
  disk,         \* the file of each cell
  instance,     \* C5T_Storage_Fields_Singleton::pimpl, as its path
  initialized,  \* initialized_ of the instance: the fields already used
  contents,     \* contents_ of the fields: { loaded, value } per key
  faults,       \* writes that failed
  result        \* what the last Get returned

vars == <<disk, instance, initialized, contents, faults, result>>

StorageTypeOK ==
  /\ disk \in [Cells -> Files]
  /\ instance \in Dirs \cup {NoDir}
  /\ initialized \subseteq Fields
  /\ contents \in [Fields -> [Keys -> Slot]]
  /\ faults \in Nat
  /\ result \in Values \cup {Null}

NothingCached == [f \in Fields |-> [k \in Keys |-> EmptySlot]]

Init ==
  /\ disk \in [Cells -> {NoFile}]
  /\ instance = NoDir
  /\ initialized = {}
  /\ contents = NothingCached
  /\ faults = 0
  /\ result = Null

\* The tombstone is handed over as if it were a value.
Decoded_NoTombstone(file) == IF file \in {NoFile, Torn} THEN Null ELSE file

\* DoLoad and DoDeserializeImpl: a missing file, the tombstone and a text that
\* does not parse all mean that there is no value.
Decoded(file) == IF file \in Values THEN file ELSE Null

\* The cache survives the change of the instance.
Fresh_Stale(f) == contents[f]

\* The accessor's constructor: the first use of a field under an instance drops
\* what the field had cached under other instances.
Fresh(f) == IF f \in initialized THEN contents[f] ELSE [k \in Keys |-> EmptySlot]

\* InnerGet on a cache: the file is read once.
Looked(cache, f, k) ==
  IF cache[k].loaded THEN cache
  ELSE [cache EXCEPT ![k] = [loaded |-> TRUE, value |-> Decoded(disk[<<instance, f, k>>])]]

\* The outcomes of WriteStringToFile: written, or failed with the exception
\* swallowed, before or after the file was truncated.
WriteFile(f, k, file) ==
  \/ /\ disk' = [disk EXCEPT ![<<instance, f, k>>] = file]
     /\ faults' = faults
  \/ /\ faults < MaxFaults
     /\ \E left \in {disk[<<instance, f, k>>], Torn} :
          disk' = [disk EXCEPT ![<<instance, f, k>>] = left]
     /\ faults' = faults + 1

Use(f) ==
  /\ instance # NoDir
  /\ initialized' = initialized \cup {f}

-----------------------------------------------------------------------------
(* Faulty variants of the actions below: what the properties guard against. *)

\* The value is looked up among what is cached, and not on disk.
Del_CachedOnly(f, k) ==
  /\ Use(f)
  /\ contents' = [contents EXCEPT ![f] = [Fresh(f) EXCEPT ![k] = [loaded |-> TRUE, value |-> Null]]]
  /\ IF Fresh(f)[k].value # Null THEN WriteFile(f, k, Tombstone) ELSE UNCHANGED <<disk, faults>>
  /\ UNCHANGED <<instance, result>>

-----------------------------------------------------------------------------
(* Instances.                                                              *)

\* C5T_STORAGE_CREATE_UNIQUE_INSANCE.  A second instance aborts the process,
\* which is a Crash.
Create(d) ==
  /\ instance = NoDir
  /\ instance' = d
  /\ initialized' = {}
  /\ UNCHANGED <<disk, contents, faults, result>>

Destroy ==
  /\ instance # NoDir
  /\ instance' = NoDir
  /\ UNCHANGED <<disk, initialized, contents, faults, result>>

\* The process ends and is started again: only the files remain.
Restarted ==
  /\ instance' = NoDir
  /\ initialized' = {}
  /\ contents' = NothingCached
  /\ UNCHANGED <<faults, result>>

Crash ==
  /\ instance # NoDir
  /\ disk' = disk
  /\ Restarted

\* ... in the middle of a Set or of a Del: WriteStringToFile truncates the file
\* first, and a text cut short does not parse.
CrashWriting(f, k, file) ==
  /\ instance # NoDir
  /\ file = Tombstone => Looked(Fresh(f), f, k)[k].value # Null
  /\ \E left \in {Torn, file} : disk' = [disk EXCEPT ![<<instance, f, k>>] = left]
  /\ Restarted

-----------------------------------------------------------------------------
(* The accessor.                                                           *)

\* Has, GetOrDefault, GetOrThrow, Get.
Get(f, k) ==
  /\ Use(f)
  /\ LET cache == Looked(Fresh(f), f, k)
     IN  /\ contents' = [contents EXCEPT ![f] = cache]
         /\ result' = cache[k].value
  /\ UNCHANGED <<disk, instance, faults>>

\* The file first, then the cache, which is not looked up.
Set(f, k, v) ==
  /\ Use(f)
  /\ WriteFile(f, k, v)
  /\ contents' = [contents EXCEPT ![f] = [Fresh(f) EXCEPT ![k] = [loaded |-> TRUE, value |-> v]]]
  /\ UNCHANGED <<instance, result>>

\* A key without a value is left alone, file included.
Del(f, k) ==
  /\ Use(f)
  /\ LET cache == Looked(Fresh(f), f, k)
     IN  IF cache[k].value = Null
         THEN /\ contents' = [contents EXCEPT ![f] = cache]
              /\ UNCHANGED <<disk, faults>>
         ELSE /\ contents' = [contents EXCEPT ![f] = [cache EXCEPT ![k].value = Null]]
              /\ WriteFile(f, k, Tombstone)
  /\ UNCHANGED <<instance, result>>

Next ==
  \/ \E d \in Dirs : Create(d)
  \/ Destroy
  \/ Crash
  \/ \E f \in Fields, k \in Keys :
       \/ Get(f, k)
       \/ \E v \in Values : Set(f, k, v)
       \/ Del(f, k)
       \/ \E file \in Values \cup {Tombstone} : CrashWriting(f, k, file)

Spec == Init /\ [][Next]_vars

-----------------------------------------------------------------------------
(* Properties.                                                             *)

Slots(c) == contents[c[2]][c[3]]

\* The value is answered from the cache, not from the file.
Cached(c) == c[1] = instance /\ c[2] \in initialized /\ Slots(c).loaded

\* What a read of the cell would return, now or under the next instance.
View(c) == IF Cached(c) THEN Slots(c).value ELSE Decoded(disk[c])

Shaky == {c \in Cells : Cached(c) /\ Slots(c).value # Decoded(disk[c])}

\* The storage is a persistent map: static caches that survive the instances are
\* never mistaken for the files of another directory or of a later instance, a
\* write reaches the file, and only writes that failed, or that a crash cut
\* short, are lost or damaged when the instance goes.
Map == INSTANCE PersistentMap WITH
  store <- [c \in Cells |-> View(c)],
  open <- instance,
  shaky <- Shaky

IsPersistentMap == Map!MSpec

\* As long as no write has failed, every key that is answered from the cache is
\* answered as its file would be, after any number of crashes, instances and
\* directories: DoSave, DoDelete and InnerGet keep the two together.
WriteThrough == faults = 0 => Shaky = {}
=============================================================================
