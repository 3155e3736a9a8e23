------------------------------- MODULE MutexMap -------------------------------
(***************************************************************************)
(* exit/mutex.go: a map from string ids to *sync.Mutex, itself protected   *)
(* by the mutex mu.  Lock(id) finds or creates the mutex of id under mu    *)
(* and then locks it outside mu; Unlock(id) looks it up again and unlocks  *)
(* it.  Every load and store of the map is a step of its own, so that what *)
(* mu protects is visible.  A sync.Mutex is a heap object, numbered in the *)
(* order of allocation; like Go's it has a locked bit and no owner.        *)
(*                                                                         *)
(* Threads are goroutine slots: a slot whose Unlock has returned is free   *)
(* for the next goroutine.  The callers are those of exit.go: every one    *)
(* locks a key, works, and unlocks the same key (defer).                   *)
(***************************************************************************)
EXTENDS Naturals

CONSTANTS Threads,   \* goroutine slots
          Ids,       \* the ids (connection keys)
          NoThread   \* mu is free

ASSUME NoThreadAssumption == NoThread \notin Threads

VARIABLES mu,         \* the goroutine inside mu's critical section
          m,          \* the map: the mutex object of an id, 0 when absent
          allocated,  \* mutex objects allocated so far
          locked,     \* the mutex objects whose locked bit is set
          pc,         \* program counter of each goroutine
          op,         \* the method it is executing, Lock or Unlock
          id,         \* the argument of that method
          mutex       \* its local variable `mutex', 0 for nil

vars == <<mu, m, allocated, locked, pc, op, id, mutex>>

Labels == {"idle", "lockMu", "load", "store", "unlockMu", "lockMutex",
           "critical", "unlockMutex", "panic"}

TypeOK ==
  /\ mu \in Threads \cup {NoThread}
  /\ m \in [Ids -> Nat]
  /\ allocated \in Nat
  /\ locked \in SUBSET Nat
  /\ pc \in [Threads -> Labels]
  /\ op \in [Threads -> {"Lock", "Unlock"}]
  /\ id \in [Threads -> Ids]
  /\ mutex \in [Threads -> Nat]

Init ==
  /\ mu = NoThread
  /\ m = [i \in Ids |-> 0]
  /\ allocated = 0
  /\ locked = {}
  /\ pc = [t \in Threads |-> "idle"]
  /\ op = [t \in Threads |-> "Lock"]
  /\ id \in [Threads -> Ids]
  /\ mutex = [t \in Threads |-> 0]

Goto(t, from, to) ==
  /\ pc[t] = from
  /\ pc' = [pc EXCEPT ![t] = to]

-----------------------------------------------------------------------------
(* A handler calls Lock(i).                                                *)
CallLock(t, i) ==
  /\ Goto(t, "idle", "lockMu")
  /\ op' = [op EXCEPT ![t] = "Lock"]
  /\ id' = [id EXCEPT ![t] = i]
  /\ UNCHANGED <<mu, m, allocated, locked, mutex>>

(* The handler is done and its deferred Unlock runs, with the same key.    *)
CallUnlock(t) ==
  /\ Goto(t, "critical", "lockMu")
  /\ op' = [op EXCEPT ![t] = "Unlock"]
  /\ UNCHANGED <<mu, m, allocated, locked, id, mutex>>

(* mm.mu.Lock() *)
LockMu(t) ==
  /\ Goto(t, "lockMu", "load")
  /\ mu = NoThread
  /\ mu' = t
  /\ UNCHANGED <<m, allocated, locked, op, id, mutex>>

(* Variant of LoadMutex that ignores ok and always makes a new mutex.      *)
LoadMutexIgnoringOk(t) ==
  /\ Goto(t, "load", IF op[t] = "Lock" THEN "store" ELSE "unlockMu")
  /\ mutex' = [mutex EXCEPT ![t] = m[id[t]]]
  /\ UNCHANGED <<mu, m, allocated, locked, op, id>>

(* mutex, ok := mm.m[id]; only Lock goes on to create a missing mutex.     *)
LoadMutex(t) ==
  /\ Goto(t, "load", IF op[t] = "Lock" /\ m[id[t]] = 0 THEN "store" ELSE "unlockMu")
  /\ mutex' = [mutex EXCEPT ![t] = m[id[t]]]
  /\ UNCHANGED <<mu, m, allocated, locked, op, id>>

(* mutex = &sync.Mutex{}; mm.m[id] = mutex *)
StoreMutex(t) ==
  /\ Goto(t, "store", "unlockMu")
  /\ allocated' = allocated + 1
  /\ mutex' = [mutex EXCEPT ![t] = allocated + 1]
  /\ m' = [m EXCEPT ![id[t]] = allocated + 1]
  /\ UNCHANGED <<mu, locked, op, id>>

(* Variant of UnlockMu in which Unlock deletes the entry it has found.     *)
UnlockMuDeleting(t) ==
  /\ Goto(t, "unlockMu",
          CASE op[t] = "Lock" -> "lockMutex"
            [] op[t] = "Unlock" /\ mutex[t] # 0 -> "unlockMutex"
            [] OTHER -> "panic")
  /\ mu' = NoThread
  /\ m' = [m EXCEPT ![id[t]] = IF op[t] = "Unlock" THEN 0 ELSE @]
  /\ UNCHANGED <<allocated, locked, op, id, mutex>>

(* Variant of UnlockMu deferred to the end of Lock: mu is kept while the   *)
(* goroutine waits for the mutex of its id.                                *)
UnlockMuDeferred(t) ==
  /\ Goto(t, "unlockMu",
          CASE op[t] = "Lock" -> "lockMutex"
            [] op[t] = "Unlock" /\ mutex[t] # 0 -> "unlockMutex"
            [] OTHER -> "panic")
  /\ op[t] = "Lock" => mutex[t] \notin locked
  /\ mu' = NoThread
  /\ UNCHANGED <<m, allocated, locked, op, id, mutex>>

(* mm.mu.Unlock(); Unlock panics here when it found no mutex.              *)
UnlockMu(t) ==
  /\ Goto(t, "unlockMu",
          CASE op[t] = "Lock" -> "lockMutex"
            [] op[t] = "Unlock" /\ mutex[t] # 0 -> "unlockMutex"
            [] OTHER -> "panic")
  /\ mu' = NoThread
  /\ UNCHANGED <<m, allocated, locked, op, id, mutex>>

(* mutex.Lock() *)
LockMutex(t) ==
  /\ Goto(t, "lockMutex", "critical")
  /\ mutex[t] \notin locked
  /\ locked' = locked \cup {mutex[t]}
  /\ UNCHANGED <<mu, m, allocated, op, id, mutex>>

(* mutex.Unlock(): unlocking an unlocked sync.Mutex is fatal.              *)
UnlockMutex(t) ==
  /\ Goto(t, "unlockMutex", IF mutex[t] \in locked THEN "idle" ELSE "panic")
  /\ locked' = locked \ {mutex[t]}
  /\ UNCHANGED <<mu, m, allocated, op, id, mutex>>

-----------------------------------------------------------------------------
(* The steps a goroutine takes by itself once it is inside Lock or Unlock. *)
Step(t) ==
  \/ LoadMutex(t) \/ StoreMutex(t) \/ UnlockMu(t) \/ UnlockMutex(t)

Thread(t) ==
  \/ \E i \in Ids : CallLock(t, i)
  \/ CallUnlock(t)
  \/ LockMu(t)
  \/ LockMutex(t)
  \/ Step(t)

Next == \E t \in Threads : Thread(t)

SafetySpec == Init /\ [][Next]_vars

(***************************************************************************)
(* A runnable goroutine is scheduled (weak fairness); a sync.Mutex that is *)
(* released again and again is handed to every waiter, because a waiter    *)
(* that has failed for 1ms switches the mutex to starvation mode (strong   *)
(* fairness).  Nothing is assumed of CallUnlock: a handler may hold its    *)
(* key for ever, as exit.go's handlers can.                                *)
(***************************************************************************)
Fairness ==
  \A t \in Threads :
    /\ WF_vars(Step(t))
    /\ SF_vars(LockMu(t))
    /\ SF_vars(LockMutex(t))

Spec == SafetySpec /\ Fairness

-----------------------------------------------------------------------------
(* Goroutine t is between the return of Lock and the unlock in Unlock.     *)
Holding(t) ==
  \/ pc[t] \in {"critical", "unlockMutex"}
  \/ op[t] = "Unlock" /\ pc[t] \in {"lockMu", "load", "store", "unlockMu"}

Waiting(t) ==
  /\ op[t] = "Lock"
  /\ pc[t] \in {"lockMu", "load", "store", "unlockMu", "lockMutex"}

(* Two handlers never hold the same key at once (mutex.go:19-40, the       *)
(* promise handleConnect and handleSocks5ProxyMessage rely on).            *)
MutualExclusion ==
  \A t, u \in Threads : (t # u /\ Holding(t) /\ Holding(u)) => id[t] # id[u]

(* Unlock neither panics for want of an entry (mutex.go:36) nor unlocks a  *)
(* mutex that is not locked, which the Go runtime turns into a crash.      *)
NoPanic == \A t \in Threads : pc[t] # "panic"

(* Goroutines only touch the Go map while they own mu: two of them never   *)
(* reach a load or a store together, and no store overwrites an entry      *)
(* (a lost mutex would be waited for by nobody, or for ever).              *)
MapAccessSerialised ==
  /\ \A t \in Threads : pc[t] \in {"load", "store", "unlockMu"} => mu = t
  /\ \A t \in Threads : pc[t] = "store" => m[id[t]] = 0

(* A goroutine whose key is free again and again does get it, whatever the *)
(* holders of other keys do: a handler stuck for ever blocks only its own  *)
(* connection, and never mu.                                               *)
NoStarvation ==
  \A t \in Threads :
    ([]<>(\A u \in Threads : Holding(u) => id[u] # id[t]))
      => (Waiting(t) ~> Holding(t))

Lock == INSTANCE KeyedLock
          WITH status <- [t \in Threads |->
                            IF Holding(t) THEN "holding"
                            ELSE IF Waiting(t) THEN "waiting" ELSE "idle"],
               key <- id

(* The map of mutexes implements the per-key lock of KeyedLock.            *)
ImplementsKeyedLock == Lock!LockSpec
=============================================================================
