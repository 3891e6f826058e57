------------------------------ MODULE DLibProofs ------------------------------
(***************************************************************************)
(* Proofs about DLibManager, for any users, versions and ways a file may   *)
(* change.                                                                 *)
(***************************************************************************)
EXTENDS DLibManager, TLAPS

\* Who is past the mutex holds it, and what is being used is what is loaded.
MutexInv ==
  /\ \A u \in Users : at[u] # "idle" => mutex = u
  /\ \A u \in Users : at[u] # "using" => used[u] = Null /\ answer[u] = "unknown"
  /\ \A u \in Users : at[u] = "using" => used[u] = lib /\ lib # Null
  /\ \A u \in Users : at[u] = "open" => lib = Null /\ key # Null
  /\ lib # Null => key # Null

SymbolInv ==
  /\ lib # Null /\ symbol # "unknown" => (symbol = "present" <=> lib \in Exporting)
  /\ \A u \in Users : answer[u] # "unknown" => answer[u] = symbol

LinkInv ==
  /\ alive => links = created
  /\ ~alive => \A u \in Users : at[u] = "idle"
  /\ ~alive => lib = Null /\ links = {}

\* Whatever has a trace in the manager has been installed.
PastInv ==
  /\ file \in installed \cup {Null}
  /\ links \subseteq installed
  /\ key \in installed \cup {Null}
  /\ \A u \in Users : at[u] # "idle" => file \in seen[u]

\* A path is loaded at most once: a link that is new leads to the file.
ImageInv ==
  /\ alive => \A v \in Versions : images[v] # Null => v \in links
  /\ \A u \in Users : at[u] = "open" => images[key] = Null /\ key \in links

\* As long as no version has come back, the key tells what is loaded.
KeyInv ==
  ~again =>
    /\ key = file /\ lib # Null => lib = file
    /\ \A u \in Users : at[u] = "using" => used[u] \in seen[u]

\* ... and the file that is there meets its own link only if it was tried.
TriedInv ==
  ~again =>
    /\ alive /\ file \in links =>
         /\ key = file
         /\ \/ lib # Null
            \/ file \in Broken
            \/ \E u \in Users : at[u] = "open"
    /\ \A u \in Users : at[u] = "failed" => \E f \in seen[u] : f \in Broken \cup {Null}

-----------------------------------------------------------------------------

-----------------------------------------------------------------------------
LEMMA TypeNext ==
  ASSUME MutexInv, DLibTypeOK, [Next]_vars
  PROVE  DLibTypeOK'
  <1> USE DLibAssumption DEF DLibTypeOK, Files, Paths
  <1>1. ASSUME NEW v \in Versions, Install(v)
        PROVE  DLibTypeOK'
    BY <1>1 DEF Install, Changed, fileVars, managerVars, userVars
  <1>2. CASE Remove
    BY <1>2 DEF Remove, Changed, fileVars, managerVars, userVars
  <1>3. ASSUME NEW u \in Users, Acquire(u)
        PROVE  DLibTypeOK'
    BY <1>3 DEF Acquire, fileVars, managerVars, userVars
  <1>4. ASSUME NEW u \in Users, LookMissing(u)
        PROVE  DLibTypeOK'
    BY <1>4 DEF LookMissing, Fail, fileVars, managerVars, userVars
  <1>5. ASSUME NEW u \in Users, LookUpToDate(u)
        PROVE  DLibTypeOK'
    BY <1>5 DEF LookUpToDate, Give, UpToDate, fileVars, managerVars, userVars
  <1>6. ASSUME NEW u \in Users, LookChanged(u)
        PROVE  DLibTypeOK'
    BY <1>6 DEF LookChanged, Look, MakeLink, Fail, UpToDate, fileVars, managerVars, userVars
  <1>7. ASSUME NEW u \in Users, OpenFails(u)
        PROVE  DLibTypeOK'
    BY <1>7 DEF OpenFails, Fail, fileVars, managerVars, userVars
  <1>8. ASSUME NEW u \in Users, OpenLoads(u)
        PROVE  DLibTypeOK'
    <2>1. key \in Versions
      BY <1>8 DEF OpenLoads, Loads, MutexInv
    <2>2. Opened(key) \in Versions \ Broken
      BY <1>8, <2>1 DEF OpenLoads, Loads, Opened
    <2> QED
      BY <1>8, <2>1, <2>2 DEF OpenLoads, Loads, Give, fileVars
  <1>9. ASSUME NEW u \in Users, GetRawPF(u)
        PROVE  DLibTypeOK'
    BY <1>9 DEF GetRawPF, fileVars, managerVars, userVars
  <1>10. ASSUME NEW u \in Users, Release(u)
        PROVE  DLibTypeOK'
    BY <1>10 DEF Release, fileVars, managerVars, userVars
  <1>11. CASE Destroy
    BY <1>11 DEF Destroy, fileVars, managerVars, userVars
  <1>12. CASE UNCHANGED vars
    BY <1>12 DEF vars, fileVars, managerVars, userVars
  <1> QED
    BY <1>1, <1>2, <1>3, <1>4, <1>5, <1>6, <1>7, <1>8, <1>9, <1>10, <1>11, <1>12 DEF Next, Using

LEMMA MutexNext ==
  ASSUME DLibTypeOK, MutexInv, [Next]_vars
  PROVE  MutexInv'
  <1> USE DLibAssumption DEF DLibTypeOK, Files, MutexInv
  <1>1. ASSUME NEW v \in Versions, Install(v)
        PROVE  MutexInv'
    BY <1>1 DEF Install, Changed, fileVars, managerVars, userVars
  <1>2. CASE Remove
    BY <1>2 DEF Remove, Changed, fileVars, managerVars, userVars
  <1>3. ASSUME NEW u \in Users, Acquire(u)
        PROVE  MutexInv'
    BY <1>3 DEF Acquire, fileVars, managerVars, userVars
  <1>4. ASSUME NEW u \in Users, LookMissing(u)
        PROVE  MutexInv'
    BY <1>4 DEF LookMissing, Fail, fileVars, managerVars, userVars
  <1>5. ASSUME NEW u \in Users, LookUpToDate(u)
        PROVE  MutexInv'
    BY <1>5 DEF LookUpToDate, Give, UpToDate, fileVars, managerVars, userVars
  <1>6. ASSUME NEW u \in Users, LookChanged(u)
        PROVE  MutexInv'
    BY <1>6 DEF LookChanged, Look, MakeLink, Fail, UpToDate, fileVars, managerVars, userVars
  <1>7. ASSUME NEW u \in Users, OpenFails(u)
        PROVE  MutexInv'
    BY <1>7 DEF OpenFails, Fail, fileVars, managerVars, userVars
  <1>8. ASSUME NEW u \in Users, OpenLoads(u)
        PROVE  MutexInv'
    BY <1>8 DEF OpenLoads, Loads, Give, Opened, fileVars, managerVars, userVars
  <1>9. ASSUME NEW u \in Users, GetRawPF(u)
        PROVE  MutexInv'
    BY <1>9 DEF GetRawPF, fileVars, managerVars, userVars
  <1>10. ASSUME NEW u \in Users, Release(u)
        PROVE  MutexInv'
    BY <1>10 DEF Release, fileVars, managerVars, userVars
  <1>11. CASE Destroy
    BY <1>11 DEF Destroy, fileVars, managerVars, userVars
  <1>12. CASE UNCHANGED vars
    BY <1>12 DEF vars, fileVars, managerVars, userVars
  <1> QED
    BY <1>1, <1>2, <1>3, <1>4, <1>5, <1>6, <1>7, <1>8, <1>9, <1>10, <1>11, <1>12 DEF Next, Using

LEMMA SymbolNext ==
  ASSUME DLibTypeOK, MutexInv, SymbolInv, [Next]_vars
  PROVE  SymbolInv'
  <1> USE DLibAssumption DEF DLibTypeOK, Files, MutexInv, SymbolInv
  <1>1. ASSUME NEW v \in Versions, Install(v)
        PROVE  SymbolInv'
    BY <1>1 DEF Install, Changed, fileVars, managerVars, userVars
  <1>2. CASE Remove
    BY <1>2 DEF Remove, Changed, fileVars, managerVars, userVars
  <1>3. ASSUME NEW u \in Users, Acquire(u)
        PROVE  SymbolInv'
    BY <1>3 DEF Acquire, fileVars, managerVars, userVars
  <1>4. ASSUME NEW u \in Users, LookMissing(u)
        PROVE  SymbolInv'
    BY <1>4 DEF LookMissing, Fail, fileVars, managerVars, userVars
  <1>5. ASSUME NEW u \in Users, LookUpToDate(u)
        PROVE  SymbolInv'
    BY <1>5 DEF LookUpToDate, Give, UpToDate, fileVars, managerVars, userVars
  <1>6. ASSUME NEW u \in Users, LookChanged(u)
        PROVE  SymbolInv'
    BY <1>6 DEF LookChanged, Look, MakeLink, Fail, UpToDate, fileVars, managerVars, userVars
  <1>7. ASSUME NEW u \in Users, OpenFails(u)
        PROVE  SymbolInv'
    BY <1>7 DEF OpenFails, Fail, fileVars, managerVars, userVars
  <1>8. ASSUME NEW u \in Users, OpenLoads(u)
        PROVE  SymbolInv'
    BY <1>8 DEF OpenLoads, Loads, Give, Opened, fileVars, managerVars, userVars
  <1>9. ASSUME NEW u \in Users, GetRawPF(u)
        PROVE  SymbolInv'
    BY <1>9 DEF GetRawPF, fileVars, managerVars, userVars
  <1>10. ASSUME NEW u \in Users, Release(u)
        PROVE  SymbolInv'
    BY <1>10 DEF Release, fileVars, managerVars, userVars
  <1>11. CASE Destroy
    BY <1>11 DEF Destroy, fileVars, managerVars, userVars
  <1>12. CASE UNCHANGED vars
    BY <1>12 DEF vars, fileVars, managerVars, userVars
  <1> QED
    BY <1>1, <1>2, <1>3, <1>4, <1>5, <1>6, <1>7, <1>8, <1>9, <1>10, <1>11, <1>12 DEF Next, Using

LEMMA LinkNext ==
  ASSUME DLibTypeOK, LinkInv, [Next]_vars
  PROVE  LinkInv'
  <1> USE DLibAssumption DEF DLibTypeOK, LinkInv
  <1>1. ASSUME NEW v \in Versions, Install(v)
        PROVE  LinkInv'
    BY <1>1 DEF Install, Changed, fileVars, managerVars, userVars
  <1>2. CASE Remove
    BY <1>2 DEF Remove, Changed, fileVars, managerVars, userVars
  <1>3. ASSUME NEW u \in Users, Acquire(u)
        PROVE  LinkInv'
    BY <1>3 DEF Acquire, fileVars, managerVars, userVars
  <1>4. ASSUME NEW u \in Users, LookMissing(u)
        PROVE  LinkInv'
    BY <1>4 DEF LookMissing, Fail, fileVars, managerVars, userVars
  <1>5. ASSUME NEW u \in Users, LookUpToDate(u)
        PROVE  LinkInv'
    BY <1>5 DEF LookUpToDate, Give, UpToDate, fileVars, managerVars, userVars
  <1>6. ASSUME NEW u \in Users, LookChanged(u)
        PROVE  LinkInv'
    <2>1. alive
      BY <1>6 DEF LookChanged, Look
    <2>2. alive' /\ links' = created'
      BY <1>6, <2>1 DEF LookChanged, Look, MakeLink
    <2> QED
      BY <2>2
  <1>7. ASSUME NEW u \in Users, OpenFails(u)
        PROVE  LinkInv'
    BY <1>7 DEF OpenFails, Fail, fileVars, managerVars, userVars
  <1>8. ASSUME NEW u \in Users, OpenLoads(u)
        PROVE  LinkInv'
    BY <1>8 DEF OpenLoads, Loads, Give, Opened, fileVars, managerVars, userVars
  <1>9. ASSUME NEW u \in Users, GetRawPF(u)
        PROVE  LinkInv'
    BY <1>9 DEF GetRawPF, fileVars, managerVars, userVars
  <1>10. ASSUME NEW u \in Users, Release(u)
        PROVE  LinkInv'
    BY <1>10 DEF Release, fileVars, managerVars, userVars
  <1>11. CASE Destroy
    BY <1>11 DEF Destroy, fileVars, managerVars, userVars
  <1>12. CASE UNCHANGED vars
    BY <1>12 DEF vars, fileVars, managerVars, userVars
  <1> QED
    BY <1>1, <1>2, <1>3, <1>4, <1>5, <1>6, <1>7, <1>8, <1>9, <1>10, <1>11, <1>12 DEF Next, Using

LEMMA PastNext ==
  ASSUME DLibTypeOK, MutexInv, PastInv, [Next]_vars
  PROVE  PastInv'
  <1> USE DLibAssumption DEF DLibTypeOK, Files, MutexInv, PastInv
  <1>1. ASSUME NEW v \in Versions, Install(v)
        PROVE  PastInv'
    BY <1>1 DEF Install, Changed, fileVars, managerVars, userVars
  <1>2. CASE Remove
    BY <1>2 DEF Remove, Changed, fileVars, managerVars, userVars
  <1>3. ASSUME NEW u \in Users, Acquire(u)
        PROVE  PastInv'
    BY <1>3 DEF Acquire, fileVars, managerVars, userVars
  <1>4. ASSUME NEW u \in Users, LookMissing(u)
        PROVE  PastInv'
    BY <1>4 DEF LookMissing, Fail, fileVars, managerVars, userVars
  <1>5. ASSUME NEW u \in Users, LookUpToDate(u)
        PROVE  PastInv'
    BY <1>5 DEF LookUpToDate, Give, UpToDate, fileVars, managerVars, userVars
  <1>6. ASSUME NEW u \in Users, LookChanged(u)
        PROVE  PastInv'
    BY <1>6 DEF LookChanged, Look, MakeLink, Fail, UpToDate, fileVars, managerVars, userVars
  <1>7. ASSUME NEW u \in Users, OpenFails(u)
        PROVE  PastInv'
    BY <1>7 DEF OpenFails, Fail, fileVars, managerVars, userVars
  <1>8. ASSUME NEW u \in Users, OpenLoads(u)
        PROVE  PastInv'
    BY <1>8 DEF OpenLoads, Loads, Give, Opened, fileVars, managerVars, userVars
  <1>9. ASSUME NEW u \in Users, GetRawPF(u)
        PROVE  PastInv'
    BY <1>9 DEF GetRawPF, fileVars, managerVars, userVars
  <1>10. ASSUME NEW u \in Users, Release(u)
        PROVE  PastInv'
    BY <1>10 DEF Release, fileVars, managerVars, userVars
  <1>11. CASE Destroy
    BY <1>11 DEF Destroy, fileVars, managerVars, userVars
  <1>12. CASE UNCHANGED vars
    BY <1>12 DEF vars, fileVars, managerVars, userVars
  <1> QED
    BY <1>1, <1>2, <1>3, <1>4, <1>5, <1>6, <1>7, <1>8, <1>9, <1>10, <1>11, <1>12 DEF Next, Using

LEMMA ImageNext ==
  ASSUME DLibTypeOK, MutexInv, LinkInv, ImageInv, [Next]_vars
  PROVE  ImageInv'
  <1> USE DLibAssumption DEF DLibTypeOK, Files, Paths, MutexInv, LinkInv, ImageInv
  <1>1. ASSUME NEW v \in Versions, Install(v)
        PROVE  ImageInv'
    BY <1>1 DEF Install, Changed, fileVars, managerVars, userVars
  <1>2. CASE Remove
    BY <1>2 DEF Remove, Changed, fileVars, managerVars, userVars
  <1>3. ASSUME NEW u \in Users, Acquire(u)
        PROVE  ImageInv'
    BY <1>3 DEF Acquire, fileVars, managerVars, userVars
  <1>4. ASSUME NEW u \in Users, LookMissing(u)
        PROVE  ImageInv'
    BY <1>4 DEF LookMissing, Fail, fileVars, managerVars, userVars
  <1>5. ASSUME NEW u \in Users, LookUpToDate(u)
        PROVE  ImageInv'
    BY <1>5 DEF LookUpToDate, Give, UpToDate, fileVars, managerVars, userVars
  <1>6. ASSUME NEW u \in Users, LookChanged(u)
        PROVE  ImageInv'
    BY <1>6 DEF LookChanged, Look, MakeLink, Fail, UpToDate, fileVars, managerVars, userVars
  <1>7. ASSUME NEW u \in Users, OpenFails(u)
        PROVE  ImageInv'
    BY <1>7 DEF OpenFails, Fail, fileVars, managerVars, userVars
  <1>8. ASSUME NEW u \in Users, OpenLoads(u)
        PROVE  ImageInv'
    <2>1. key \in Versions /\ key \in links
      BY <1>8 DEF OpenLoads, Loads
    <2>2. \A v \in Versions \ {key} : images'[v] = images[v]
      BY <1>8 DEF OpenLoads, Loads
    <2>3. \A w \in Users : at'[w] # "open"
      BY <1>8 DEF OpenLoads, Loads, Give
    <2> QED
      BY <1>8, <2>1, <2>2, <2>3 DEF OpenLoads
  <1>9. ASSUME NEW u \in Users, GetRawPF(u)
        PROVE  ImageInv'
    BY <1>9 DEF GetRawPF, fileVars, managerVars, userVars
  <1>10. ASSUME NEW u \in Users, Release(u)
        PROVE  ImageInv'
    BY <1>10 DEF Release, fileVars, managerVars, userVars
  <1>11. CASE Destroy
    BY <1>11 DEF Destroy, fileVars, managerVars, userVars
  <1>12. CASE UNCHANGED vars
    BY <1>12 DEF vars, fileVars, managerVars, userVars
  <1> QED
    BY <1>1, <1>2, <1>3, <1>4, <1>5, <1>6, <1>7, <1>8, <1>9, <1>10, <1>11, <1>12 DEF Next, Using

\* Whoever holds the mutex sees the file change.
LEMMA ChangedSeen ==
  ASSUME DLibTypeOK, NEW f, Changed(f), NEW w \in Users, at[w] # "idle"
  PROVE  seen'[w] = seen[w] \cup {f}
  BY DEF DLibTypeOK, Changed

LEMMA KeyNext ==
  ASSUME DLibTypeOK, MutexInv, PastInv, ImageInv, KeyInv, [Next]_vars
  PROVE  KeyInv'
  <1> USE DLibAssumption DEF DLibTypeOK, Files, Paths, MutexInv, PastInv, ImageInv, KeyInv
  <1>1. ASSUME NEW v \in Versions, Install(v)
        PROVE  KeyInv'
    <2> SUFFICES ASSUME ~again'
                 PROVE  KeyInv'
      OBVIOUS
    <2>1. ~again /\ v \notin installed /\ v # Null
      BY <1>1 DEF Install
    <2>2. key' # file'
      BY <1>1, <2>1 DEF Install, Changed, managerVars
    <2>3. ASSUME NEW w \in Users, at'[w] = "using"
          PROVE  used'[w] \in seen'[w]
      <3>1. at[w] = "using" /\ used'[w] = used[w]
        BY <1>1, <2>3 DEF Install, Changed, userVars
      <3>2. seen'[w] = seen[w] \cup {v}
        BY <1>1, <3>1, ChangedSeen DEF Install
      <3> QED
        BY <2>1, <3>1, <3>2
    <2> QED
      BY <2>2, <2>3
  <1>2. CASE Remove
    <2> SUFFICES ASSUME ~again'
                 PROVE  KeyInv'
      OBVIOUS
    <2>1. ~again /\ (key' = file' => key' = Null)
      BY <1>2 DEF Remove, Changed
    <2>2. lib' # Null /\ key' = file' => lib' = file'
      BY <1>2, <2>1 DEF Remove, Changed, managerVars
    <2>3. ASSUME NEW w \in Users, at'[w] = "using"
          PROVE  used'[w] \in seen'[w]
      <3>1. at[w] = "using" /\ used'[w] = used[w]
        BY <1>2, <2>3 DEF Remove, Changed, userVars
      <3>2. seen'[w] = seen[w] \cup {Null}
        BY <1>2, <3>1, ChangedSeen DEF Remove
      <3> QED
        BY <2>1, <3>1, <3>2
    <2> QED
      BY <2>2, <2>3
  <1>3. ASSUME NEW u \in Users, Acquire(u)
        PROVE  KeyInv'
    BY <1>3 DEF Acquire, fileVars, managerVars, userVars
  <1>4. ASSUME NEW u \in Users, LookMissing(u)
        PROVE  KeyInv'
    BY <1>4 DEF LookMissing, Fail, fileVars, managerVars, userVars
  <1>5. ASSUME NEW u \in Users, LookUpToDate(u)
        PROVE  KeyInv'
    BY <1>5 DEF LookUpToDate, Give, UpToDate, fileVars, managerVars, userVars
  <1>6. ASSUME NEW u \in Users, LookChanged(u)
        PROVE  KeyInv'
    BY <1>6 DEF LookChanged, Look, MakeLink, Fail, UpToDate, fileVars, managerVars, userVars
  <1>7. ASSUME NEW u \in Users, OpenFails(u)
        PROVE  KeyInv'
    BY <1>7 DEF OpenFails, Fail, fileVars, managerVars, userVars
  <1>8. ASSUME NEW u \in Users, OpenLoads(u)
        PROVE  KeyInv'
    BY <1>8 DEF OpenLoads, Loads, Give, Opened, fileVars, managerVars, userVars
  <1>9. ASSUME NEW u \in Users, GetRawPF(u)
        PROVE  KeyInv'
    BY <1>9 DEF GetRawPF, fileVars, managerVars, userVars
  <1>10. ASSUME NEW u \in Users, Release(u)
        PROVE  KeyInv'
    BY <1>10 DEF Release, fileVars, managerVars, userVars
  <1>11. CASE Destroy
    BY <1>11 DEF Destroy, fileVars, managerVars, userVars
  <1>12. CASE UNCHANGED vars
    BY <1>12 DEF vars, fileVars, managerVars, userVars
  <1> QED
    BY <1>1, <1>2, <1>3, <1>4, <1>5, <1>6, <1>7, <1>8, <1>9, <1>10, <1>11, <1>12 DEF Next, Using

LEMMA TriedNext ==
  ASSUME DLibTypeOK, MutexInv, LinkInv, PastInv, TriedInv, [Next]_vars
  PROVE  TriedInv'
  <1> USE DLibAssumption DEF DLibTypeOK, Files, MutexInv, LinkInv, PastInv, TriedInv
  <1>1. ASSUME NEW v \in Versions, Install(v)
        PROVE  TriedInv'
    BY <1>1 DEF Install, Changed, fileVars, managerVars, userVars
  <1>2. CASE Remove
    BY <1>2 DEF Remove, Changed, fileVars, managerVars, userVars
  <1>3. ASSUME NEW u \in Users, Acquire(u)
        PROVE  TriedInv'
    BY <1>3 DEF Acquire, fileVars, managerVars, userVars
  <1>4. ASSUME NEW u \in Users, LookMissing(u)
        PROVE  TriedInv'
    BY <1>4 DEF LookMissing, Fail, fileVars, managerVars, userVars
  <1>5. ASSUME NEW u \in Users, LookUpToDate(u)
        PROVE  TriedInv'
    BY <1>5 DEF LookUpToDate, Give, UpToDate, fileVars, managerVars, userVars
  <1>6. ASSUME NEW u \in Users, LookChanged(u)
        PROVE  TriedInv'
    BY <1>6 DEF LookChanged, Look, MakeLink, Fail, UpToDate, fileVars, managerVars, userVars
  <1>7. ASSUME NEW u \in Users, OpenFails(u)
        PROVE  TriedInv'
    BY <1>7 DEF OpenFails, Fail, fileVars, managerVars, userVars
  <1>8. ASSUME NEW u \in Users, OpenLoads(u)
        PROVE  TriedInv'
    BY <1>8 DEF OpenLoads, Loads, Give, Opened, fileVars, managerVars, userVars
  <1>9. ASSUME NEW u \in Users, GetRawPF(u)
        PROVE  TriedInv'
    BY <1>9 DEF GetRawPF, fileVars, managerVars, userVars
  <1>10. ASSUME NEW u \in Users, Release(u)
        PROVE  TriedInv'
    BY <1>10 DEF Release, fileVars, managerVars, userVars
  <1>11. CASE Destroy
    BY <1>11 DEF Destroy, fileVars, managerVars, userVars
  <1>12. CASE UNCHANGED vars
    BY <1>12 DEF vars, fileVars, managerVars, userVars
  <1> QED
    BY <1>1, <1>2, <1>3, <1>4, <1>5, <1>6, <1>7, <1>8, <1>9, <1>10, <1>11, <1>12 DEF Next, Using

-----------------------------------------------------------------------------
(* The theorems.                                                           *)

DLibInv ==
  /\ DLibTypeOK
  /\ MutexInv
  /\ SymbolInv
  /\ LinkInv
  /\ PastInv
  /\ ImageInv
  /\ KeyInv
  /\ TriedInv

LEMMA InvInit == Init => DLibInv
  <1> SUFFICES ASSUME Init
               PROVE  DLibInv
    OBVIOUS
  <1> USE DLibAssumption DEF Init, Files, Paths
  <1>1. DLibTypeOK
    BY DEF DLibTypeOK
  <1>2. MutexInv
    BY DEF MutexInv
  <1>3. SymbolInv
    BY DEF SymbolInv
  <1>4. LinkInv
    BY DEF LinkInv
  <1>5. PastInv
    BY DEF PastInv
  <1>6. ImageInv
    BY DEF ImageInv
  <1>7. KeyInv
    BY DEF KeyInv
  <1>8. TriedInv
    BY DEF TriedInv
  <1> QED
    BY <1>1, <1>2, <1>3, <1>4, <1>5, <1>6, <1>7, <1>8 DEF DLibInv

LEMMA InvNext == DLibInv /\ [Next]_vars => DLibInv'
  BY TypeNext, MutexNext, SymbolNext, LinkNext, PastNext, ImageNext, KeyNext, TriedNext, Zenon
  DEF DLibInv

THEOREM InductiveInvariant == Spec => []DLibInv
  BY InvInit, InvNext, PTL DEF Spec

\* The variables stay in their types, and what is loaded can be loaded.
THEOREM DLibTypeInvariant == Spec => []DLibTypeOK
  <1>1. DLibInv => DLibTypeOK
    BY DEF DLibInv
  <1> QED
    BY <1>1, InductiveInvariant, PTL

\* No use makes the library of another use's callback go away.
THEOREM LibraryStaysLoaded == Spec => []UsedIsLoaded
  <1>1. DLibInv => UsedIsLoaded
    BY DEF DLibInv, MutexInv, UsedIsLoaded
  <1> QED
    BY <1>1, InductiveInvariant, PTL

\* Until a version comes back, a callback runs on what the file has been since
\* the mutex was taken.
THEOREM LibraryIsFresh == Spec => []UseIsFresh
  <1>1. DLibInv => UseIsFresh
    BY DEF DLibInv, KeyInv, UseIsFresh
  <1> QED
    BY <1>1, InductiveInvariant, PTL

\* Until a version comes back, no failure keeps a good file from being loaded.
THEOREM FailuresAreJustified == Spec => []GoodFileLoads
  <1>1. DLibInv => GoodFileLoads
    <2> SUFFICES ASSUME DLibInv, ~again, NEW u \in Users, at[u] = "failed",
                        NEW v \in Versions \ Broken
                 PROVE  seen[u] # {v}
      BY DEF GoodFileLoads
    <2>1. PICK f \in seen[u] : f \in Broken \cup {Null}
      BY DEF DLibInv, TriedInv
    <2> QED
      BY <2>1, DLibAssumption
  <1> QED
    BY <1>1, InductiveInvariant, PTL

\* The cached symbols are those of the library that is loaded.
THEOREM SymbolsAreCurrent == Spec => []AnswersAreOfTheLibrary
  <1>1. DLibInv => AnswersAreOfTheLibrary
    BY DEF DLibInv, MutexInv, SymbolInv, AnswersAreOfTheLibrary
  <1> QED
    BY <1>1, InductiveInvariant, PTL

\* The manager leaves nothing behind.
THEOREM NothingIsLeft == Spec => []ProperlyUnloaded
  <1>1. DLibInv => ProperlyUnloaded
    BY DEF DLibInv, LinkInv, ProperlyUnloaded
  <1> QED
    BY <1>1, InductiveInvariant, PTL
=============================================================================
