----------------------------- MODULE DLibManager -----------------------------
(***************************************************************************)
(* C5T_DLibs_Manager of lib_c5t_dlib.cc, for one name of a library.        *)
(*                                                                         *)
(* The .so of the library changes on disk at any time.  Whoever uses the   *)
(* library holds the manager's mutex: the file is looked at, loaded if it  *)
(* is not the one loaded, and the user's callback runs on what is loaded.  *)
(* As the system does not load a path a second time, each load goes by a   *)
(* symbolic link of its own, named after the inode and the time of         *)
(* modification of the file.  These two are the "version" of a file here.  *)
(*                                                                         *)
(* C5T_DLIB_RELOAD is a use whose callback does nothing.                   *)
(***************************************************************************)
EXTENDS Naturals

CONSTANTS
  Users,     \* threads that use the library
  Versions,  \* what the file may be
  Broken,    \* the versions that cannot be loaded
  Exporting, \* the versions that export the function the callbacks look up
  Null,      \* no file, no library, no key, nobody
  Original   \* the path of the file itself

ASSUME DLibAssumption ==
  /\ Broken \subseteq Versions /\ Exporting \subseteq Versions
  /\ Null \notin Users \cup Versions
  /\ Original \notin Versions

Files == Versions \cup {Null}
Paths == Versions \cup {Original}  \* the link of a version, or the file itself

VARIABLES
  file,       \* the version on disk
  installed,  \* ghost: the versions that have been on disk
  again,      \* ghost: a version has come back
  links,      \* the symbolic links on disk
  images,     \* what the system has loaded under each path
  mutex,      \* who holds the manager's mutex
  key,        \* placeholder.first
  lib,        \* placeholder.second, as the version that was loaded
  symbol,     \* the entry of lib's `symbols` for the function
  created,    \* symlinks_created
  alive,      \* the manager exists
  at,         \* how far each user is
  used,       \* the library given to the user's callback
  answer,     \* what the callback has been told of the function
  seen        \* ghost: what the file was since the user got the mutex

fileVars == <<file, installed, again>>
managerVars == <<key, lib, symbol, created>>
userVars == <<at, used, answer>>
vars == <<fileVars, links, images, mutex, managerVars, alive, userVars, seen>>

DLibTypeOK ==
  /\ file \in Files /\ installed \subseteq Versions /\ again \in BOOLEAN
  /\ links \subseteq Versions /\ created \subseteq Versions
  /\ images \in [Paths -> (Versions \ Broken) \cup {Null}]
  /\ mutex \in Users \cup {Null}
  /\ key \in Files /\ lib \in (Versions \ Broken) \cup {Null}
  /\ symbol \in {"unknown", "present", "absent"}
  /\ alive \in BOOLEAN
  /\ at \in [Users -> {"idle", "stat", "open", "using", "failed"}]
  /\ used \in [Users -> Files]
  /\ answer \in [Users -> {"unknown", "present", "absent"}]
  /\ seen \in [Users -> SUBSET Files]

Init ==
  /\ file \in Files /\ installed = {file} \ {Null} /\ again = FALSE
  /\ links = {} /\ created = {} /\ images = [p \in Paths |-> Null]
  /\ mutex = Null /\ key = Null /\ lib = Null /\ symbol = "unknown"
  /\ alive = TRUE
  /\ at = [u \in Users |-> "idle"]
  /\ used = [u \in Users |-> Null]
  /\ answer = [u \in Users |-> "unknown"]
  /\ seen = [u \in Users |-> {}]

-----------------------------------------------------------------------------
(* The file, which others write.                                           *)

Changed(f) ==
  /\ file' = f
  /\ seen' = [u \in Users |-> IF at[u] = "idle" THEN {} ELSE seen[u] \cup {f}]
  /\ UNCHANGED <<links, images, mutex, managerVars, alive, userVars>>

Install(v) ==
  /\ v # file
  /\ Changed(v)
  /\ installed' = installed \cup {v}
  /\ again' = (again \/ v \in installed)

Remove ==
  /\ file # Null
  /\ Changed(Null)
  /\ UNCHANGED <<installed, again>>

\* dlopen: a path that was loaded before is not loaded again.
Opened(path) == IF images[path] # Null THEN images[path] ELSE file

-----------------------------------------------------------------------------
(* Using the library.                                                      *)

Acquire(u) ==
  /\ alive
  /\ at[u] = "idle"
  /\ mutex = Null
  /\ mutex' = u
  /\ at' = [at EXCEPT ![u] = "stat"]
  /\ seen' = [seen EXCEPT ![u] = {file}]
  /\ UNCHANGED <<fileVars, links, images, managerVars, alive, used, answer>>

Fail(u) ==
  /\ at' = [at EXCEPT ![u] = "failed"]
  /\ UNCHANGED used

\* The TODO of UseDLib, done wrong: the mutex is released before the callback.
Give_Unlocked(u, v) ==
  /\ at' = [at EXCEPT ![u] = "using"]
  /\ used' = [used EXCEPT ![u] = v]
  /\ mutex' = Null

Give(u, v) ==
  /\ at' = [at EXCEPT ![u] = "using"]
  /\ used' = [used EXCEPT ![u] = v]
  /\ UNCHANGED mutex

\* stat fails.
LookMissing(u) ==
  /\ at[u] = "stat"
  /\ file = Null
  /\ Fail(u)
  /\ UNCHANGED <<fileVars, links, images, mutex, managerVars, alive, answer, seen>>

UpToDate == key = file /\ lib # Null

LookUpToDate(u) ==
  /\ at[u] = "stat"
  /\ file # Null
  /\ UpToDate
  /\ Give(u, lib)
  /\ UNCHANGED <<fileVars, links, images, managerVars, alive, answer, seen>>

\* A link to load the file by; one that exists is an error.
MakeLink(u) ==
  IF file \in links
  THEN Fail(u) /\ UNCHANGED <<links, created>>
  ELSE /\ links' = links \cup {file}
       /\ created' = created \cup {file}
       /\ at' = [at EXCEPT ![u] = "open"]
       /\ UNCHANGED used

Look(u) ==
  /\ at[u] = "stat"
  /\ file # Null
  /\ ~UpToDate
  /\ MakeLink(u)
  /\ UNCHANGED <<fileVars, images, mutex, symbol, alive, answer, seen>>

\* The library is set with the key.
LookChanged_Early(u) == Look(u) /\ key' = file /\ lib' = file

\* What is loaded is dropped, and the key kept, before the new file is loaded.
LookChanged(u) == Look(u) /\ key' = file /\ lib' = Null

\* The file may be another one by now, or be gone.
OpenFails(u) ==
  /\ at[u] = "open"
  /\ file \in Broken \cup {Null}
  /\ Fail(u)
  /\ UNCHANGED <<fileVars, links, images, mutex, managerVars, alive, answer, seen>>

Loads(u, path) ==
  /\ at[u] = "open"
  /\ file \notin Broken \cup {Null}
  /\ images' = [images EXCEPT ![path] = Opened(path)]
  /\ lib' = Opened(path)
  /\ Give(u, Opened(path))

\* The library is loaded by its own path.
OpenLoads_Original(u) ==
  /\ Loads(u, Original)
  /\ symbol' = "unknown"
  /\ UNCHANGED <<fileVars, links, key, created, alive, answer, seen>>

\* The cache of the symbols outlives the library.
OpenLoads_SymbolsKept(u) ==
  /\ Loads(u, key)
  /\ UNCHANGED <<fileVars, links, key, symbol, created, alive, answer, seen>>

\* The key is not kept with the library.
OpenLoads_NoKey(u) ==
  /\ Loads(u, key)
  /\ key' = Null
  /\ symbol' = "unknown"
  /\ UNCHANGED <<fileVars, links, created, alive, answer, seen>>

\* A C5T_DLib_Impl with a cache of its own; its OnLoad is not told from the load.
OpenLoads(u) ==
  /\ Loads(u, key)
  /\ symbol' = "unknown"
  /\ UNCHANGED <<fileVars, links, key, created, alive, answer, seen>>

\* GetRawPF, from the callback.
GetRawPF(u) ==
  /\ at[u] = "using"
  /\ symbol' = IF symbol # "unknown" THEN symbol
               ELSE IF used[u] \in Exporting THEN "present" ELSE "absent"
  /\ answer' = [answer EXCEPT ![u] = symbol']
  /\ UNCHANGED <<fileVars, links, images, mutex, key, lib, created, alive, at, used, seen>>

\* The callback, of success or of failure, returns.
Release(u) ==
  /\ at[u] \in {"using", "failed"}
  /\ mutex' = Null
  /\ at' = [at EXCEPT ![u] = "idle"]
  /\ used' = [used EXCEPT ![u] = Null]
  /\ answer' = [answer EXCEPT ![u] = "unknown"]
  /\ seen' = [seen EXCEPT ![u] = {}]
  /\ UNCHANGED <<fileVars, links, images, managerVars, alive>>

-----------------------------------------------------------------------------
(* The end of the manager, when nobody uses it.                            *)

\* Only the links that led to a library are remembered.
Destroy_LoadedOnly ==
  /\ alive
  /\ \A u \in Users : at[u] = "idle"
  /\ alive' = FALSE
  /\ links' = links \ (IF lib = Null THEN {} ELSE {key})
  /\ lib' = Null
  /\ created' = {}
  /\ UNCHANGED <<fileVars, images, mutex, key, symbol, userVars, seen>>

\* The manager is the singleton of C5T_DLIB_SET_BASE_DIR.
Destroy ==
  /\ alive
  /\ \A u \in Users : at[u] = "idle"
  /\ alive' = FALSE
  /\ links' = links \ created
  /\ created' = {}
  /\ lib' = Null
  /\ UNCHANGED <<fileVars, images, mutex, key, symbol, userVars, seen>>

Using(u) ==
  \/ LookMissing(u) \/ LookUpToDate(u) \/ LookChanged(u)
  \/ OpenFails(u) \/ OpenLoads(u)
  \/ GetRawPF(u)
  \/ Release(u)

Next ==
  \/ \E v \in Versions : Install(v)
  \/ Remove
  \/ \E u \in Users : Acquire(u) \/ Using(u)
  \/ Destroy

Spec == Init /\ [][Next]_vars

-----------------------------------------------------------------------------
(* Properties.                                                             *)

\* While a callback runs, the library it was given stays loaded and is not
\* replaced.
UsedIsLoaded == \A u \in Users : at[u] = "using" => lib = used[u]

\* A callback runs on what the file has been since the manager's mutex was taken,
\* also when the file changes between stat and dlopen and what is loaded is not
\* what its key says.  This is not so once a version comes back.
UseIsFresh == ~again => \A u \in Users : at[u] = "using" => used[u] \in seen[u]

\* A use fails only if the file was missing or broken, or changed meanwhile.
\* A failure is thus never for good: a later good file is loaded, whatever
\* links, keys and half-made loads the failures before have left behind.  This is
\* not so once a version comes back: it meets its own link.
GoodFileLoads ==
  ~again => \A u \in Users : at[u] = "failed" => \A v \in Versions \ Broken : seen[u] # {v}

\* A callback is told of a function of the library it has, not of one before.
AnswersAreOfTheLibrary ==
  \A u \in Users : answer[u] # "unknown" =>
    (answer[u] = "present" <=> used[u] \in Exporting)

\* The manager leaves nothing behind: its library is unloaded ("have all the
\* `.so`-s properly unloaded during shutdown"), its links are removed, those of
\* loads that failed included.
ProperlyUnloaded == ~alive => lib = Null /\ links = {}
=============================================================================
