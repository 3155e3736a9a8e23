------------------------------ MODULE KeyedLock ------------------------------
(***************************************************************************)
(* What exit/mutex.go promises its callers: one lock per key.  A thread    *)
(* asks for a key, holds it alone, and gives it back.  Threads asking for  *)
(* different keys never wait for each other.  MutexMap (the data           *)
(* structure), ExitNode and ReverseConnect (its users) are all held        *)
(* against this specification.                                             *)
(***************************************************************************)
CONSTANTS Threads, Ids

VARIABLES status,   \* what each thread is doing with the lock
          key       \* the key of the thread's current (or last) request

lockVars == <<status, key>>

LockStatus == {"idle", "waiting", "holding"}

LockTypeOK ==
  /\ status \in [Threads -> LockStatus]
  /\ key \in [Threads -> Ids]

LockInit ==
  /\ status = [t \in Threads |-> "idle"]
  /\ key \in [Threads -> Ids]

Request(t, i) ==
  /\ status[t] = "idle"
  /\ status' = [status EXCEPT ![t] = "waiting"]
  /\ key' = [key EXCEPT ![t] = i]

Acquire(t) ==
  /\ status[t] = "waiting"
  /\ \A u \in Threads : status[u] = "holding" => key[u] # key[t]
  /\ status' = [status EXCEPT ![t] = "holding"]
  /\ UNCHANGED key

Release(t) ==
  /\ status[t] = "holding"
  /\ status' = [status EXCEPT ![t] = "idle"]
  /\ UNCHANGED key

LockNext ==
  \E t \in Threads :
    \/ \E i \in Ids : Request(t, i)
    \/ Acquire(t)
    \/ Release(t)

LockSpec == LockInit /\ [][LockNext]_lockVars

-----------------------------------------------------------------------------
(* No two threads hold the same key: the reason exit/mutex.go exists.      *)
Exclusive ==
  \A t, u \in Threads :
    (t # u /\ status[t] = "holding" /\ status[u] = "holding") => key[t] # key[u]
=============================================================================
