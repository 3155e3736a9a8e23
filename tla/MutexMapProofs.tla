--------------------------- MODULE MutexMapProofs ---------------------------
(***************************************************************************)
(* exit/mutex.go, for every set of goroutines and of ids: mutual exclusion *)
(* per id, no panic, serialised access to the Go map, and the refinement   *)
(* of KeyedLock.  The inductive invariant IInv adds to these what makes    *)
(* them inductive: the map never gives two ids the same mutex, and a       *)
(* goroutine past its look-up still has the mutex that the map has.        *)
(***************************************************************************)
EXTENDS MutexMap, TLAPS

(* The map is injective on the ids that have a mutex.                      *)
MapInv ==
  /\ \A i \in Ids : m[i] <= allocated
  /\ \A i, j \in Ids : i # j /\ m[i] = m[j] => m[i] = 0

(* Goroutines whose variable `mutex' is that of their id.                  *)
HasMutex(t) ==
  \/ pc[t] \in {"unlockMu", "lockMutex", "critical", "unlockMutex"}
  \/ op[t] = "Unlock" /\ pc[t] \in {"lockMu", "load"}

MutexInv ==
  /\ \A t \in Threads : HasMutex(t) => mutex[t] = m[id[t]] /\ mutex[t] # 0
  /\ \A t \in Threads : pc[t] \in {"store", "lockMutex"} => op[t] = "Lock"
  /\ \A t \in Threads : Holding(t) => mutex[t] \in locked

IInv ==
  /\ TypeOK
  /\ MapAccessSerialised
  /\ MapInv
  /\ MutexInv
  /\ MutualExclusion
  /\ NoPanic

-----------------------------------------------------------------------------
LEMMA InitIInv == Init => IInv
  BY DEF Init, IInv, TypeOK, MapAccessSerialised, MapInv, MutexInv, HasMutex,
         Holding, MutualExclusion, NoPanic, Labels

(* Every step of every goroutine preserves the inductive invariant.        *)
LEMMA NextIInv == IInv /\ [Next]_vars => IInv'
<1> SUFFICES ASSUME IInv, [Next]_vars
             PROVE  IInv'
  OBVIOUS
<1> USE DEF IInv, TypeOK, Labels, MapAccessSerialised, NoPanic, MutexInv,
            HasMutex, Holding, MapInv, MutualExclusion
<1>1. ASSUME NEW t \in Threads, NEW i \in Ids, CallLock(t, i)
      PROVE  IInv'
  BY <1>1 DEF CallLock, Goto
<1>2. ASSUME NEW t \in Threads, CallUnlock(t)
      PROVE  IInv'
  BY <1>2 DEF CallUnlock, Goto
<1>3. ASSUME NEW t \in Threads, LockMu(t)
      PROVE  IInv'
  BY <1>3, NoThreadAssumption DEF LockMu, Goto
<1>4. ASSUME NEW t \in Threads, LoadMutex(t)
      PROVE  IInv'
  BY <1>4 DEF LoadMutex, Goto
<1>5. ASSUME NEW t \in Threads, StoreMutex(t)
      PROVE  IInv'
  BY <1>5 DEF StoreMutex, Goto
<1>6. ASSUME NEW t \in Threads, UnlockMu(t)
      PROVE  IInv'
  <2>1. op[t] = "Unlock" => mutex[t] # 0
    BY <1>6 DEF UnlockMu, Goto
  <2>2. op[t] \in {"Lock", "Unlock"}
    OBVIOUS
  <2>3. /\ pc' = [pc EXCEPT ![t] = IF op[t] = "Lock" THEN "lockMutex"
                                   ELSE "unlockMutex"]
        /\ pc[t] = "unlockMu"
        /\ mu' = NoThread
        /\ UNCHANGED <<m, allocated, locked, op, id, mutex>>
    BY ONLY <1>6, <2>1, <2>2 DEF UnlockMu, Goto
  <2>4. TypeOK' /\ MapInv'
    BY <2>3
  <2>5. NoPanic'
    BY <2>3
  <2>6. MapAccessSerialised'
    BY <2>3
  <2>7. MutexInv' /\ MutualExclusion'
    BY <2>3
  <2>8. QED
    BY <2>4, <2>6, <2>7, <2>5
<1>7. ASSUME NEW t \in Threads, LockMutex(t)
      PROVE  IInv'
  <2>1. /\ pc[t] = "lockMutex"
        /\ pc' = [pc EXCEPT ![t] = "critical"]
        /\ mutex[t] \notin locked
        /\ locked' = locked \cup {mutex[t]}
        /\ UNCHANGED <<mu, m, allocated, op, id, mutex>>
    BY <1>7 DEF LockMutex, Goto
  <2>2. TypeOK'
    <3>1. mutex[t] \in Nat
      OBVIOUS
    <3>2. locked' \in SUBSET Nat
      BY <2>1, <3>1
    <3>3. pc' \in [Threads -> Labels]
      BY <2>1
    <3>4. QED
      BY <2>1, <3>2, <3>3
  <2>3. MapInv' /\ NoPanic' /\ MapAccessSerialised' /\ MutexInv'
    BY <2>1
  <2>4. ASSUME NEW u \in Threads, u # t, Holding(u)
        PROVE  id[u] # id[t]
    BY <2>1, <2>4     \* otherwise both have the mutex of the id, which t found free
  <2>5. MutualExclusion'
    BY <2>1, <2>4
  <2>6. QED
    BY <2>2, <2>3, <2>5
<1>8. ASSUME NEW t \in Threads, UnlockMutex(t)
      PROVE  IInv'
  <2>1. mutex[t] \in locked
    BY <1>8 DEF UnlockMutex, Goto
  <2>2. /\ pc[t] = "unlockMutex"
        /\ pc' = [pc EXCEPT ![t] = "idle"]
        /\ locked' = locked \ {mutex[t]}
        /\ UNCHANGED <<mu, m, allocated, op, id, mutex>>
    BY <1>8, <2>1 DEF UnlockMutex, Goto
  <2>3. TypeOK'
    <3>1. locked' \in SUBSET Nat
      BY <2>2
    <3>2. pc' \in [Threads -> Labels]
      BY <2>2
    <3>3. QED
      BY <2>2, <3>1, <3>2
  <2>4. MapInv' /\ NoPanic' /\ MapAccessSerialised' /\ MutualExclusion'
    BY <2>2
  <2>5. ASSUME NEW u \in Threads, u # t, Holding(u)
        PROVE  mutex[u] # mutex[t]
    BY <2>2, <2>5     \* they hold different ids, and the map is injective
  <2>6. MutexInv'
    BY <2>2, <2>5
  <2>7. QED
    BY <2>3, <2>4, <2>6
<1>9. CASE UNCHANGED vars
  BY <1>9 DEF vars
<1>10. QED
  BY <1>1, <1>2, <1>3, <1>4, <1>5, <1>6, <1>7, <1>8, <1>9 DEF Next, Thread, Step

THEOREM Invariance == SafetySpec => []IInv
  BY InitIInv, NextIInv, PTL DEF SafetySpec

-----------------------------------------------------------------------------
(* The state of the map, of the mutexes and of the goroutines stays within *)
(* its types, whatever the number of goroutines.                           *)
THEOREM TypeCorrect == SafetySpec => []TypeOK
  BY Invariance, PTL DEF IInv

(* Two handlers never hold the same key at once.                           *)
THEOREM MutualExclusionHolds == SafetySpec => []MutualExclusion
  BY Invariance, PTL DEF IInv

(* Unlock never panics and never unlocks an unlocked mutex.                *)
THEOREM NoPanicHolds == SafetySpec => []NoPanic
  BY Invariance, PTL DEF IInv

(* The Go map is only read and written by the owner of mu.                 *)
THEOREM MapAccessHolds == SafetySpec => []MapAccessSerialised
  BY Invariance, PTL DEF IInv

-----------------------------------------------------------------------------
(* How a goroutine appears to the callers: the refinement mapping.         *)
Status(t) == IF Holding(t) THEN "holding"
             ELSE IF Waiting(t) THEN "waiting" ELSE "idle"

(* Steps inside Lock or Unlock that the callers cannot tell from nothing.  *)
LEMMA SilentStep ==
  ASSUME TypeOK, TypeOK', UNCHANGED id,
         \A u \in Threads : Status(u)' = Status(u)
  PROVE  UNCHANGED Lock!lockVars
  BY DEF Lock!lockVars, Status

(* Every step is a step of KeyedLock or changes nothing there.             *)
LEMMA StepImplements ==
  IInv /\ IInv' /\ [Next]_vars => [Lock!LockNext]_(Lock!lockVars)
<1> SUFFICES ASSUME IInv, IInv', [Next]_vars
             PROVE  [Lock!LockNext]_(Lock!lockVars)
  OBVIOUS
<1> USE DEF IInv, TypeOK, Labels
<1>1. ASSUME NEW t \in Threads, NEW i \in Ids, CallLock(t, i)
      PROVE  Lock!Request(t, i)
  <2>1. /\ ~ Holding(t) /\ ~ Waiting(t) /\ Waiting(t)' /\ ~ Holding(t)'
        /\ id' = [id EXCEPT ![t] = i]
    BY <1>1 DEF CallLock, Goto, Holding, Waiting
  <2>2. \A u \in Threads \ {t} : Status(u)' = Status(u)
    BY <1>1 DEF CallLock, Goto, Status, Holding, Waiting
  <2>3. id[t]' = i
    BY <2>1
  <2>4. QED
    BY <2>1, <2>2, <2>3 DEF Lock!Request, Status
<1>2. ASSUME NEW t \in Threads, CallUnlock(t)
      PROVE  UNCHANGED Lock!lockVars
  BY <1>2, SilentStep DEF CallUnlock, Goto, Status, Holding, Waiting
<1>3. ASSUME NEW t \in Threads, LockMu(t)
      PROVE  UNCHANGED Lock!lockVars
  BY <1>3, SilentStep DEF LockMu, Goto, Status, Holding, Waiting
<1>4. ASSUME NEW t \in Threads, LoadMutex(t)
      PROVE  UNCHANGED Lock!lockVars
  BY <1>4, SilentStep DEF LoadMutex, Goto, Status, Holding, Waiting
<1>5. ASSUME NEW t \in Threads, StoreMutex(t)
      PROVE  UNCHANGED Lock!lockVars
  BY <1>5, SilentStep DEF StoreMutex, Goto, Status, Holding, Waiting
<1>6. ASSUME NEW t \in Threads, UnlockMu(t)
      PROVE  UNCHANGED Lock!lockVars
  BY <1>6, SilentStep DEF UnlockMu, Goto, Status, Holding, Waiting, NoPanic
<1>7. ASSUME NEW t \in Threads, LockMutex(t)
      PROVE  Lock!Acquire(t)
  <2>1. Waiting(t) /\ ~ Holding(t)
    BY <1>7 DEF LockMutex, Goto, Waiting, Holding, MutexInv, HasMutex
  <2>2. \A u \in Threads : Holding(u) => id[u] # id[t]
    BY <1>7 DEF LockMutex, Goto, MutexInv, HasMutex, Holding
  <2>3. /\ Holding(t)'
        /\ \A u \in Threads \ {t} : Status(u)' = Status(u)
        /\ UNCHANGED id
    BY <1>7 DEF LockMutex, Goto, Status, Holding, Waiting
  <2>4. QED
    BY <2>1, <2>2, <2>3 DEF Lock!Acquire, Status
<1>8. ASSUME NEW t \in Threads, UnlockMutex(t)
      PROVE  Lock!Release(t)
  <2>1. Holding(t) /\ ~ Holding(t)' /\ ~ Waiting(t)' /\ UNCHANGED id
    BY <1>8 DEF UnlockMutex, Goto, Holding, Waiting, NoPanic
  <2>2. \A u \in Threads \ {t} : Status(u)' = Status(u)
    BY <1>8 DEF UnlockMutex, Goto, Status, Holding, Waiting, NoPanic
  <2>3. QED
    BY <2>1, <2>2 DEF Lock!Release, Status
<1>9. CASE UNCHANGED vars
  BY <1>9 DEF vars, Lock!lockVars, Holding, Waiting
<1>10. QED
  BY <1>1, <1>2, <1>3, <1>4, <1>5, <1>6, <1>7, <1>8, <1>9
     DEF Next, Thread, Step, Lock!LockNext

(* The map of mutexes implements the per-key lock of KeyedLock, for any    *)
(* number of goroutines and ids.                                           *)
THEOREM ImplementsKeyedLockHolds == SafetySpec => ImplementsKeyedLock
<1>1. Init => Lock!LockInit
  BY DEF Init, Lock!LockInit, Holding, Waiting
<1>2. QED
  BY <1>1, Invariance, StepImplements, PTL DEF SafetySpec, ImplementsKeyedLock, Lock!LockSpec
=============================================================================
