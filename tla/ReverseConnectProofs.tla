------------------------ MODULE ReverseConnectProofs ------------------------
(***************************************************************************)
(* Reverse mode, for every set of keys and number of copies of a CONNECT:  *)
(* one copy is acknowledged, both nodes proxy the same connection, and the *)
(* entry node panics only after a reset.  Its use of the exit node's lock  *)
(* is that of KeyedLock.                                                   *)
(*                                                                         *)
(* Load and Delete of the listener are two steps, so that two connections  *)
(* with one key may both find the channel.  What saves AckedOnce is the    *)
(* exit node's lock: a connection that has found the channel and is still  *)
(* open belongs to the handler that holds the lock (StageInv, LockInv), so *)
(* that when one is acknowledged all others are reset (AckInv).            *)
(***************************************************************************)
EXTENDS ReverseConnect, TLAPS

LockInv ==
  \A g, h \in Handlers : g # h /\ HoldsLock(g) /\ HoldsLock(h) => g.key # h.key

(* A key is registered once, before its CONNECT is published.              *)
KeyInv ==
  /\ \A k \in published : main[k] # "none"
  /\ \A h \in Handlers : exit[h] # "none" => h.key \in published

(* How far the three parties of a connection are.                          *)
StageInv ==
  \A h \in Handlers :
    /\ exit[h] \in {"none", "waiting", "locked"} => conn[h] = "none"
    /\ exit[h] = "dialed" => wire[h] = 0
    /\ conn[h] = "none" => listener[h] = "none" /\ wire[h] = 0
    /\ listener[h] \in {"loaded", "deleted", "sending"} => exit[h] # "dialed"
    /\ conn[h] = "open" => exit[h] \in {"dialed", "awaiting"} \/ ack[h]

(* Only an acknowledged connection is closed or handed on; the others that *)
(* got past the acknowledgement have been reset.                           *)
AckInv ==
  \A h \in Handlers :
    /\ Acked(h) => ack[h]
    /\ ack[h] => listener[h] \in {"sending", "returned"}
    /\ ack[h] => exit[h] # "dialed"
    /\ conn[h] = "closed" => ack[h]
    /\ listener[h] = "sending" => ack[h] \/ conn[h] = "reset"

(* An acknowledged key is not found again.                                 *)
OnceInv ==
  /\ \A h \in Handlers : listener[h] \in {"deleted", "sending"} => h.key \notin connectChannels
  /\ \A g, h \in Handlers :
       ack[h] /\ g.key = h.key =>
         /\ h.key \notin connectChannels
         /\ g # h => ~ ack[g]
         /\ listener[g] \in {"loaded", "deleted"} => conn[g] # "open"

TargetInv ==
  /\ \A k \in Keys : target[k] # NoConn =>
       /\ target[k].key = k
       /\ listener[target[k]] = "returned"
       /\ ack[target[k]] \/ conn[target[k]] = "reset"
  /\ \A k \in Keys : main[k] = "proxying" /\ ~ crashed => target[k] # NoConn

(* A connection whose acknowledgement could not be written.                *)
Refused(h) == listener[h] = "returned" /\ conn[h] = "reset" /\ ~ ack[h]

PanicInv ==
  /\ \A k \in Keys : channel[k] = "closed" => \E h \in Handlers : h.key = k /\ Refused(h)
  /\ crashed => \E h \in Handlers : Refused(h)

IInv ==
  /\ TypeOK
  /\ LockInv
  /\ KeyInv
  /\ StageInv
  /\ AckInv
  /\ OnceInv
  /\ TargetInv
  /\ PanicInv

-----------------------------------------------------------------------------
LEMMA Names ==
  /\ \A h \in Handlers : h.key \in Keys
  /\ NoConn \notin Handlers
BY ReverseAssumption DEF ReverseAssumption, Handlers

LEMMA InitIInv == Init => IInv
<1> SUFFICES ASSUME Init
             PROVE  IInv
  OBVIOUS
<1>1. TypeOK
  <2>1. wire \in [Handlers -> 0..2] /\ connectChannels \in SUBSET Keys /\ published \in SUBSET Keys
    BY DEF Init
  <2> QED
    BY <2>1 DEF Init, TypeOK
<1>2. LockInv /\ KeyInv /\ StageInv
  BY Names DEF Init, LockInv, KeyInv, StageInv, HoldsLock
<1>3. AckInv /\ OnceInv /\ TargetInv /\ PanicInv
  BY Names DEF Init, AckInv, OnceInv, TargetInv, PanicInv, Acked
<1> QED
  BY <1>1, <1>2, <1>3 DEF IInv

-----------------------------------------------------------------------------
(* Steps that no key's acknowledgement depends on.                         *)
LEMMA MainMoves ==
  ASSUME IInv, NEW k \in Keys,
         PublishConnect(k) \/ DialSucceeds(k) \/ DialFails(k) \/ ClientCloses(k)
  PROVE  IInv'
<1> USE Names DEF PublishConnect, DialSucceeds, DialFails, ClientCloses, MainGoto, entryVars,
       wireVars
<1>1. TypeOK'
  BY DEF IInv, TypeOK
<1>2. LockInv'
  BY DEF IInv, TypeOK, LockInv, HoldsLock
<1>3. KeyInv'
  BY DEF IInv, TypeOK, KeyInv
<1>4. StageInv'
  BY DEF IInv, TypeOK, StageInv
<1>5. AckInv'
  BY DEF IInv, TypeOK, AckInv, Acked
<1>6. OnceInv'
  BY DEF IInv, TypeOK, OnceInv
<1>7. TargetInv'
  BY DEF IInv, TypeOK, TargetInv
<1>8. PanicInv'
  BY DEF IInv, TypeOK, PanicInv, Refused
<1> QED
  BY <1>1, <1>2, <1>3, <1>4, <1>5, <1>6, <1>7, <1>8 DEF IInv

(* The listener reads, or fails to; no key is looked up.                   *)
LEMMA Reads ==
  ASSUME IInv, NEW h \in Handlers, Accept(h) \/ ReadPart(h) \/ ReadFails(h)
  PROVE  IInv'
<1> USE Names DEF Accept, ReadPart, ReadFails, ListenerGoto, entryVars, wireVars
<1>1. TypeOK'
  <2>1. wire' \in [Handlers -> 0..2]
    <3>1. wire \in [Handlers -> 0..2] /\ (wire[h] > 0 => wire[h] - 1 \in 0..2)
      BY DEF IInv, TypeOK
    <3>2. UNCHANGED wire \/ (wire[h] > 0 /\ wire' = [wire EXCEPT ![h] = wire[h] - 1])
      OBVIOUS
    <3> QED
      BY <3>1, <3>2
  <2>2. listener' \in [Handlers -> {"none", "reading", "loaded", "deleted", "sending", "returned"}]
    BY DEF IInv, TypeOK
  <2>3. split' \in [Handlers -> BOOLEAN]
    BY DEF IInv, TypeOK
  <2>4. UNCHANGED <<main, connectChannels, channel, target, client, published, crashed, exit, conn,
                    ack>>
    OBVIOUS
  <2> QED
    BY ONLY IInv, <2>1, <2>2, <2>3, <2>4 DEF IInv, TypeOK
<1>2. LockInv'
  BY DEF IInv, TypeOK, LockInv, HoldsLock
<1>3. KeyInv'
  BY DEF IInv, TypeOK, KeyInv
<1>4. StageInv'
  BY DEF IInv, TypeOK, StageInv
<1>5. AckInv'
  BY DEF IInv, TypeOK, AckInv, Acked
<1>6. OnceInv'
  BY DEF IInv, TypeOK, OnceInv
<1>7. TargetInv'
  BY DEF IInv, TypeOK, TargetInv
<1>8. PanicInv'
  BY DEF IInv, TypeOK, PanicInv, Refused
<1> QED
  BY <1>1, <1>2, <1>3, <1>4, <1>5, <1>6, <1>7, <1>8 DEF IInv

(* Steps of the exit node's handler that leave the connection as it is.    *)
LEMMA ExitMoves ==
  ASSUME IInv, NEW h \in Handlers,
         \/ ReceiveConnect(h) \/ LockKey(h) \/ DialEntryFails(h) \/ HandshakeFails(h)
         \/ DialBackend(h) \/ DialBackendFails(h) \/ WriteKey(h) \/ ReadAck(h)
  PROVE  IInv'
<1> USE Names DEF ReceiveConnect, LockKey, DialEntryFails, HandshakeFails, DialBackend,
       DialBackendFails, WriteKey, ReadAck, ExitGoto, entryVars, wireVars
<1>1. TypeOK'
  BY DEF IInv, TypeOK
<1>2. LockInv'
  BY DEF IInv, TypeOK, LockInv, HoldsLock
<1>3. KeyInv'
  BY DEF IInv, TypeOK, KeyInv
<1>4. StageInv'
  BY DEF IInv, TypeOK, StageInv
<1>5. AckInv'
  BY DEF IInv, TypeOK, AckInv, Acked
<1>6. OnceInv'
  BY DEF IInv, TypeOK, OnceInv
<1>7. TargetInv'
  BY DEF IInv, TypeOK, TargetInv
<1>8. PanicInv'
  BY DEF IInv, TypeOK, PanicInv, Refused
<1> QED
  BY <1>1, <1>2, <1>3, <1>4, <1>5, <1>6, <1>7, <1>8 DEF IInv

(* A connection that is closed by the exit node has been acknowledged.     *)
LEMMA Ends ==
  ASSUME IInv, NEW h \in Handlers, ExitProxyEnds(h) \/ Reset(h)
  PROVE  IInv'
<1> USE Names DEF ExitProxyEnds, Reset, ExitGoto, CloseConn, entryVars, wireVars
<1>1. TypeOK'
  BY DEF IInv, TypeOK
<1>2. LockInv'
  BY DEF IInv, TypeOK, LockInv, HoldsLock
<1>3. KeyInv'
  BY DEF IInv, TypeOK, KeyInv
<1>4. StageInv'
  BY DEF IInv, TypeOK, StageInv
<1>5. AckInv'
  BY DEF IInv, TypeOK, AckInv, Acked
<1>6. OnceInv'
  BY DEF IInv, TypeOK, OnceInv
<1>7. TargetInv'
  BY DEF IInv, TypeOK, TargetInv
<1>8. PanicInv'
  BY DEF IInv, TypeOK, PanicInv, Refused
<1> QED
  BY <1>1, <1>2, <1>3, <1>4, <1>5, <1>6, <1>7, <1>8 DEF IInv

(* One Read has the whole key.                                             *)
LEMMA ReadKeyStep ==
  ASSUME IInv, NEW h \in Handlers, ReadKey(h)
  PROVE  IInv'
<1> USE Names DEF ReadKey, ListenerGoto
<1>1. TypeOK'
  BY DEF IInv, TypeOK
<1>2. LockInv'
  BY DEF IInv, TypeOK, LockInv, HoldsLock
<1>3. KeyInv'
  BY DEF IInv, TypeOK, KeyInv
<1>4. StageInv'
  BY DEF IInv, TypeOK, StageInv
<1>5. AckInv'
  BY DEF IInv, TypeOK, AckInv, Acked
<1>6. OnceInv'
  BY DEF IInv, TypeOK, OnceInv
<1>7. TargetInv'
  BY DEF IInv, TypeOK, TargetInv
<1>8. PanicInv'
  BY DEF IInv, TypeOK, PanicInv, Refused
<1> QED
  BY <1>1, <1>2, <1>3, <1>4, <1>5, <1>6, <1>7, <1>8 DEF IInv

(* Load has found the key; Delete comes later, in a step of its own.       *)
LEMMA DeleteStep ==
  ASSUME IInv, NEW h \in Handlers, DeleteChannel(h)
  PROVE  IInv'
<1> USE Names DEF DeleteChannel, ListenerGoto, wireVars
<1>1. TypeOK'
  BY DEF IInv, TypeOK
<1>2. LockInv'
  BY DEF IInv, TypeOK, LockInv, HoldsLock
<1>3. KeyInv'
  BY DEF IInv, TypeOK, KeyInv
<1>4. StageInv'
  BY DEF IInv, TypeOK, StageInv
<1>5. AckInv'
  BY DEF IInv, TypeOK, AckInv, Acked
<1>6. OnceInv'
  BY DEF IInv, TypeOK, OnceInv
<1>7. TargetInv'
  BY DEF IInv, TypeOK, TargetInv
<1>8. PanicInv'
  BY DEF IInv, TypeOK, PanicInv, Refused
<1> QED
  BY <1>1, <1>2, <1>3, <1>4, <1>5, <1>6, <1>7, <1>8 DEF IInv

(* Panics.                                                                 *)
LEMMA PanicStep ==
  ASSUME IInv, NEW h \in Handlers, SendOnClosed(h)
  PROVE  IInv'
<1> USE Names DEF SendOnClosed, entryVars, wireVars
<1>1. TypeOK'
  BY DEF IInv, TypeOK
<1>2. LockInv'
  BY DEF IInv, TypeOK, LockInv, HoldsLock
<1>3. KeyInv'
  BY DEF IInv, TypeOK, KeyInv
<1>4. StageInv'
  BY DEF IInv, TypeOK, StageInv
<1>5. AckInv'
  BY DEF IInv, TypeOK, AckInv, Acked
<1>6. OnceInv'
  BY DEF IInv, TypeOK, OnceInv
<1>7. TargetInv'
  BY DEF IInv, TypeOK, TargetInv
<1>8. PanicInv'
  BY DEF IInv, TypeOK, PanicInv, Refused
<1> QED
  BY <1>1, <1>2, <1>3, <1>4, <1>5, <1>6, <1>7, <1>8 DEF IInv

LEMMA ReceiveNilStep ==
  ASSUME IInv, NEW k \in Keys, ReceiveNil(k)
  PROVE  IInv'
<1> USE Names DEF ReceiveNil, wireVars
<1>1. TypeOK'
  BY DEF IInv, TypeOK
<1>2. LockInv'
  BY DEF IInv, TypeOK, LockInv, HoldsLock
<1>3. KeyInv'
  BY DEF IInv, TypeOK, KeyInv
<1>4. StageInv'
  BY DEF IInv, TypeOK, StageInv
<1>5. AckInv'
  BY DEF IInv, TypeOK, AckInv, Acked
<1>6. OnceInv'
  BY DEF IInv, TypeOK, OnceInv
<1>7. TargetInv'
  BY DEF IInv, TypeOK, TargetInv
<1>8. PanicInv'
  BY DEF IInv, TypeOK, PanicInv, Refused
<1> QED
  BY <1>1, <1>2, <1>3, <1>4, <1>5, <1>6, <1>7, <1>8 DEF IInv

(* A key is registered before any listener or exit handler has it.         *)
LEMMA HandleConnectStep ==
  ASSUME IInv, NEW k \in Keys, HandleConnect(k)
  PROVE  IInv'
<1> USE Names DEF HandleConnect, MainGoto, AddConnectChannel, wireVars
<1>a. \A h \in Handlers : exit[h] # "none" => h.key # k
  BY DEF IInv, KeyInv
<1>b. \A h \in Handlers : listener[h] # "none" \/ ack[h] => exit[h] # "none"
  BY DEF IInv, TypeOK, StageInv, AckInv
<1>1. TypeOK'
  BY DEF IInv, TypeOK
<1>2. LockInv'
  BY DEF IInv, TypeOK, LockInv, HoldsLock
<1>3. KeyInv'
  BY DEF IInv, TypeOK, KeyInv
<1>4. StageInv'
  BY DEF IInv, TypeOK, StageInv
<1>5. AckInv'
  BY DEF IInv, TypeOK, AckInv, Acked
<1>6. OnceInv'
  BY <1>a, <1>b DEF IInv, TypeOK, OnceInv
<1>7. TargetInv'
  BY DEF IInv, TypeOK, TargetInv
<1>8. PanicInv'
  BY DEF IInv, TypeOK, PanicInv, Refused
<1> QED
  BY <1>1, <1>2, <1>3, <1>4, <1>5, <1>6, <1>7, <1>8 DEF IInv

(* What a proxy of the entry node closes has been acknowledged.            *)
LEMMA EntryProxyStep ==
  ASSUME IInv, NEW k \in Keys, EntryProxyEnds(k)
  PROVE  IInv'
<1> USE Names DEF EntryProxyEnds, MainGoto, CloseConn
<1>a. target[k] \in Handlers
  BY DEF IInv, TypeOK, TargetInv
<1>b. conn[target[k]] = "open" => ack[target[k]]
  BY <1>a DEF IInv, TargetInv
<1>1. TypeOK'
  BY DEF IInv, TypeOK
<1>2. LockInv'
  BY DEF IInv, TypeOK, LockInv, HoldsLock
<1>3. KeyInv'
  BY DEF IInv, TypeOK, KeyInv
<1>4. StageInv'
  BY DEF IInv, TypeOK, StageInv
<1>5. AckInv'
  BY <1>a, <1>b DEF IInv, TypeOK, AckInv, Acked
<1>6. OnceInv'
  BY DEF IInv, TypeOK, OnceInv
<1>7. TargetInv'
  BY DEF IInv, TypeOK, TargetInv
<1>8. PanicInv'
  BY DEF IInv, TypeOK, PanicInv, Refused
<1> QED
  BY <1>1, <1>2, <1>3, <1>4, <1>5, <1>6, <1>7, <1>8 DEF IInv

(* The connection handed on is acknowledged, or has been reset.            *)
LEMMA ReceiveTargetStep ==
  ASSUME IInv, NEW h \in Handlers, ReceiveTarget(h)
  PROVE  IInv'
<1> USE Names DEF ReceiveTarget, MainGoto, wireVars
<1>a. h.key \in Keys /\ h # NoConn /\ (ack[h] \/ conn[h] = "reset")
  BY DEF IInv, AckInv
<1>1. TypeOK'
  BY DEF IInv, TypeOK
<1>2. LockInv'
  BY DEF IInv, TypeOK, LockInv, HoldsLock
<1>3. KeyInv'
  BY DEF IInv, TypeOK, KeyInv
<1>4. StageInv'
  BY DEF IInv, TypeOK, StageInv
<1>5. AckInv'
  BY DEF IInv, TypeOK, AckInv, Acked
<1>6. OnceInv'
  BY DEF IInv, TypeOK, OnceInv
<1>7. TargetInv'
  <2>1. \A k \in Keys : target'[k] = IF k = h.key THEN h ELSE target[k]
    BY <1>a DEF IInv, TypeOK
  <2>2. \A k \in Keys : target[k] # NoConn => target[k] \in Handlers
    BY DEF IInv, TypeOK
  <2>3. \A g \in Handlers : listener'[g] = IF g = h THEN "returned" ELSE listener[g]
    BY DEF IInv, TypeOK
  <2>4. \A k \in Keys : main'[k] = "proxying" /\ k # h.key => main[k] = "proxying"
    BY DEF IInv, TypeOK
  <2> QED
    BY <1>a, <2>1, <2>2, <2>3, <2>4 DEF IInv, TargetInv
<1>8. PanicInv'
  BY DEF IInv, TypeOK, PanicInv, Refused
<1> QED
  BY <1>1, <1>2, <1>3, <1>4, <1>5, <1>6, <1>7, <1>8 DEF IInv

(* The connection that is acknowledged is that of the handler with the     *)
(* lock, and no other with its key is or can still be.                     *)
LEMMA WriteAckStep ==
  ASSUME IInv, NEW h \in Handlers, WriteAck(h)
  PROVE  IInv'
<1> USE Names DEF WriteAck, ListenerGoto
<1>a. ~ ack[h] /\ conn[h] # "none" /\ conn[h] # "closed"
  BY DEF IInv, StageInv, AckInv
<1>b. conn[h] = "open" => exit[h] = "awaiting"
  BY <1>a DEF IInv, StageInv
<1>c. ASSUME conn[h] = "open", NEW g \in Handlers, g # h, g.key = h.key
      PROVE  ~ ack[g] /\ ~ (listener[g] \in {"loaded", "deleted"} /\ conn[g] = "open")
  <2>1. ~ ack[g]
    BY <1>c DEF IInv, OnceInv
  <2>2. conn[g] = "open" /\ listener[g] \in {"loaded", "deleted"} => exit[g] = "awaiting"
    BY <2>1 DEF IInv, StageInv
  <2> QED
    BY <1>b, <1>c, <2>1, <2>2 DEF IInv, LockInv, HoldsLock
<1>d. h.key \notin connectChannels
  BY DEF IInv, OnceInv
<1>e. \A g \in Handlers : /\ listener'[g] = IF g = h THEN "sending" ELSE listener[g]
                          /\ ack'[g] = IF g = h THEN conn[h] = "open" ELSE ack[g]
  BY DEF IInv, TypeOK
<1>1. TypeOK'
  BY DEF IInv, TypeOK
<1>2. LockInv'
  BY DEF IInv, TypeOK, LockInv, HoldsLock
<1>3. KeyInv'
  BY DEF IInv, TypeOK, KeyInv
<1>4. StageInv'
  BY DEF IInv, TypeOK, StageInv
<1>5. AckInv'
  <2>1. Acked(h) => ack[h]
    BY DEF IInv, AckInv
  <2>2. conn[h] \in {"open", "reset"}
    BY <1>a DEF IInv, TypeOK
  <2> QED
    BY <1>a, <1>b, <1>e, <2>1, <2>2 DEF IInv, AckInv, Acked
<1>6. OnceInv'
  <2>1. \A g \in Handlers :
          listener'[g] \in {"deleted", "sending"} => g.key \notin connectChannels'
    BY <1>d, <1>e DEF IInv, OnceInv
  <2>2. ASSUME NEW f \in Handlers, NEW g \in Handlers, ack'[f], g.key = f.key
        PROVE  /\ f.key \notin connectChannels'
               /\ g # f => ~ ack'[g]
               /\ listener'[g] \in {"loaded", "deleted"} => conn'[g] # "open"
    <3>1. CASE f = h
      <4>1. conn[h] = "open" /\ conn' = conn /\ f.key \notin connectChannels'
        BY <1>d, <1>e, <2>2, <3>1
      <4>2. CASE g = h
        BY <1>e, <3>1, <4>1, <4>2
      <4>3. CASE g # h
        <5>1. ~ ack[g] /\ ~ (listener[g] \in {"loaded", "deleted"} /\ conn[g] = "open")
          BY <1>c, <2>2, <3>1, <4>1, <4>3
        <5> QED
          BY <1>e, <4>1, <4>3, <5>1
      <4> QED
        BY <4>2, <4>3
    <3>2. CASE f # h
      BY <1>c, <1>e, <2>2, <3>2 DEF IInv, OnceInv
    <3> QED
      BY <3>1, <3>2
  <2> QED
    BY <2>1, <2>2 DEF OnceInv
<1>7. TargetInv'
  BY DEF IInv, TypeOK, TargetInv
<1>8. PanicInv'
  BY DEF IInv, TypeOK, PanicInv, Refused
<1> QED
  BY <1>1, <1>2, <1>3, <1>4, <1>5, <1>6, <1>7, <1>8 DEF IInv

(* Whoever closes the channel of a key leaves a refused connection behind. *)
LEMMA WriteAckFailsStep ==
  ASSUME IInv, NEW h \in Handlers, WriteAckFails(h)
  PROVE  IInv'
<1> USE Names DEF WriteAckFails, ListenerGoto, wireVars
<1>a. ~ ack[h] /\ conn[h] # "none" /\ conn[h] # "closed"
  BY DEF IInv, StageInv, AckInv
<1>b. conn[h] = "reset"
  BY <1>a DEF IInv, TypeOK
<1>c. \A g \in Handlers : listener'[g] = IF g = h THEN "returned" ELSE listener[g]
  BY DEF IInv, TypeOK
<1>1. TypeOK'
  BY DEF IInv, TypeOK
<1>2. LockInv'
  BY DEF IInv, TypeOK, LockInv, HoldsLock
<1>3. KeyInv'
  BY DEF IInv, TypeOK, KeyInv
<1>4. StageInv'
  BY DEF IInv, TypeOK, StageInv
<1>5. AckInv'
  BY DEF IInv, TypeOK, AckInv, Acked
<1>6. OnceInv'
  BY DEF IInv, TypeOK, OnceInv
<1>7. TargetInv'
  BY DEF IInv, TypeOK, TargetInv
<1>8. PanicInv'
  <2>1. Refused(h)' /\ \A g \in Handlers : Refused(g) => Refused(g)'
    BY <1>a, <1>b, <1>c DEF Refused
  <2>2. \A k \in Keys : channel'[k] = "closed" => k = h.key \/ channel[k] = "closed"
    BY DEF IInv, TypeOK
  <2> QED
    BY <2>1, <2>2 DEF IInv, PanicInv
<1> QED
  BY <1>1, <1>2, <1>3, <1>4, <1>5, <1>6, <1>7, <1>8 DEF IInv

(* A connection that does not exist yet has nothing to its name.           *)
LEMMA DialEntryStep ==
  ASSUME IInv, NEW h \in Handlers, DialEntry(h)
  PROVE  IInv'
<1> USE Names DEF DialEntry, ExitGoto, entryVars
<1>a. conn[h] = "none"
  BY DEF IInv, StageInv
<1>b. listener[h] = "none" /\ ~ ack[h]
  BY <1>a DEF IInv, StageInv, AckInv
<1>c. \A g \in Handlers : /\ conn'[g] = IF g = h THEN "open" ELSE conn[g]
                          /\ exit'[g] = IF g = h THEN "dialed" ELSE exit[g]
  BY DEF IInv, TypeOK
<1>1. TypeOK'
  BY DEF IInv, TypeOK
<1>2. LockInv'
  BY DEF IInv, TypeOK, LockInv, HoldsLock
<1>3. KeyInv'
  BY DEF IInv, TypeOK, KeyInv
<1>4. StageInv'
  BY DEF IInv, TypeOK, StageInv
<1>5. AckInv'
  BY <1>b, <1>c DEF IInv, AckInv, Acked
<1>6. OnceInv'
  BY <1>b, <1>c DEF IInv, OnceInv
<1>7. TargetInv'
  <2>1. \A k \in Keys : target[k] # NoConn => target[k] \in Handlers /\ target[k] # h
    BY <1>b DEF IInv, TypeOK, TargetInv
  <2> QED
    BY <1>c, <2>1 DEF IInv, TargetInv
<1>8. PanicInv'
  <2>1. \A g \in Handlers : Refused(g) => Refused(g)'
    BY <1>b, <1>c DEF Refused
  <2> QED
    BY <2>1 DEF IInv, PanicInv
<1> QED
  BY <1>1, <1>2, <1>3, <1>4, <1>5, <1>6, <1>7, <1>8 DEF IInv

-----------------------------------------------------------------------------
LEMMA NextIInv == IInv /\ [Next]_vars => IInv'
<1> SUFFICES ASSUME IInv, [Next]_vars
             PROVE  IInv'
  OBVIOUS
<1>1. ASSUME NEW k \in Keys, Main(k) \/ ClientCloses(k)
      PROVE  IInv'
  BY <1>1, MainMoves, ReceiveNilStep, HandleConnectStep, EntryProxyStep DEF Main
<1>2. ASSUME NEW h \in Handlers, Listener(h)
      PROVE  IInv'
  BY <1>2, Reads, ReadKeyStep, DeleteStep, WriteAckStep, WriteAckFailsStep, PanicStep
     DEF Listener
<1>3. ASSUME NEW h \in Handlers, Exit(h)
      PROVE  IInv'
  BY <1>3, ExitMoves, Ends, DialEntryStep DEF Exit
<1>4. ASSUME NEW h \in Handlers, ReceiveTarget(h) \/ Reset(h)
      PROVE  IInv'
  BY <1>4, ReceiveTargetStep, Ends
<1>5. CASE UNCHANGED vars
  BY <1>5 DEF vars, entryVars, wireVars, IInv, TypeOK, LockInv, KeyInv, StageInv, AckInv,
       OnceInv, TargetInv, PanicInv, HoldsLock, Acked, Refused
<1> QED
  BY <1>1, <1>2, <1>3, <1>4, <1>5 DEF Next

LEMMA Invariance == SafetySpec => []IInv
BY InitIInv, NextIInv, PTL DEF SafetySpec

(* Type correctness of the two nodes and of the wire between them.         *)
THEOREM TypeCorrect == SafetySpec => []TypeOK
<1>1. IInv => TypeOK
  BY DEF IInv
<1> QED
  BY <1>1, Invariance, PTL

(* However often the relays repeat a CONNECT, one copy at most is          *)
(* acknowledged and the backend is dialed once for a key, although Load    *)
(* and Delete of the listener are not one step (tcp.go:59-64): the exit    *)
(* node's lock (exit.go:301-302) is what makes it so.                      *)
THEOREM AckedOnceHolds == SafetySpec => []AckedOnce
<1>1. IInv => AckedOnce
  BY DEF IInv, AckInv, OnceInv, AckedOnce
<1> QED
  BY <1>1, Invariance, PTL

(* The connection that handleConnect proxies, unless it has been reset, is *)
(* the one whose other end the exit node proxies, for any number of copies *)
(* of the CONNECT (tcp.go:51-74, exit.go:300-332).                         *)
THEOREM SameConnectionHolds == SafetySpec => []SameConnection
<1>1. IInv => SameConnection
  <2> SUFFICES ASSUME IInv, NEW g \in Handlers, NEW h \in Handlers,
                      Acked(h), target[h.key] = g, conn[g] # "reset"
               PROVE  g = h
    BY DEF SameConnection
  <2>1. g.key = h.key /\ ack[g]
    BY Names DEF IInv, TargetInv
  <2>2. ack[h]
    BY DEF IInv, AckInv
  <2> QED
    BY <2>1, <2>2 DEF IInv, OnceInv
<1> QED
  BY <1>1, Invariance, PTL

(* Neither repeated CONNECTs, split keys nor clients that go make the      *)
(* entry node panic on a closed channel (request.go:223-224, tcp.go:68,    *)
(* 73): some connection was reset before it could be acknowledged.         *)
THEOREM PanicNeedsResetHolds == SafetySpec => []PanicNeedsReset
<1>1. IInv => PanicNeedsReset
  BY DEF IInv, AckInv, PanicInv, Refused, PanicNeedsReset
<1> QED
  BY <1>1, Invariance, PTL

-----------------------------------------------------------------------------
(* The refinement of KeyedLock: what the lock sees of a handler.           *)
Seen(h) == IF HoldsLock(h) THEN "holding"
           ELSE IF exit[h] = "waiting" THEN "waiting" ELSE "idle"

LEMMA ExitAlone ==
  ASSUME IInv, NEW h \in Handlers, NEW from, NEW to, ExitGoto(h, from, to)
  PROVE  /\ exit[h] = from /\ exit'[h] = to
         /\ \A g \in Handlers : g # h => Seen(g)' = Seen(g)
BY DEF IInv, TypeOK, ExitGoto, Seen, HoldsLock

(* The other goroutines and the network leave the lock alone.              *)
LEMMA LockUntouched ==
  ASSUME \/ \E k \in Keys : Main(k) \/ ClientCloses(k)
         \/ \E h \in Handlers : ReceiveTarget(h) \/ Listener(h) \/ Reset(h)
         \/ UNCHANGED vars
  PROVE  UNCHANGED exit
<1> USE DEF entryVars, wireVars, vars
<1>1. ASSUME NEW k \in Keys, Main(k) \/ ClientCloses(k)
      PROVE  UNCHANGED exit
  BY <1>1 DEF Main, HandleConnect, PublishConnect, DialSucceeds, DialFails, ReceiveNil,
              EntryProxyEnds, ClientCloses
<1>2. ASSUME NEW h \in Handlers, ReceiveTarget(h) \/ Listener(h) \/ Reset(h)
      PROVE  UNCHANGED exit
  BY <1>2 DEF ReceiveTarget, Listener, Reset, Accept, ReadKey, ReadPart, ReadFails,
              DeleteChannel, WriteAck, WriteAckFails, SendOnClosed
<1> QED
  BY <1>1, <1>2

LEMMA LockStep ==
  IInv /\ [Next]_vars => [Lock!LockNext]_(Lock!lockVars)
<1> SUFFICES ASSUME IInv, [Next]_vars
             PROVE  [Lock!LockNext]_(Lock!lockVars)
  OBVIOUS
<1>1. ASSUME NEW h \in Handlers, NEW from, NEW to, ExitGoto(h, from, to),
             \/ <<from, to>> = <<"proxying", "ended">>
             \/ from \in {"locked", "dialed", "awaiting"} /\ to \in {"dialed", "awaiting", "acked"}
      PROVE  UNCHANGED Lock!lockVars
  <2>1. Seen(h)' = Seen(h)
    BY <1>1, ExitAlone DEF Seen, HoldsLock
  <2> QED
    BY <1>1, <2>1, ExitAlone DEF Lock!lockVars, Seen
<1>2. ASSUME NEW h \in Handlers, ReceiveConnect(h)
      PROVE  Lock!Request(h, h.key)
  <2>1. ExitGoto(h, "none", "waiting")
    BY <1>2 DEF ReceiveConnect
  <2>2. Seen(h) = "idle" /\ Seen(h)' = "waiting"
    BY <2>1, ExitAlone DEF Seen, HoldsLock
  <2> QED
    BY <2>1, <2>2, ExitAlone DEF Lock!Request, Seen
<1>3. ASSUME NEW h \in Handlers, LockKey(h)
      PROVE  Lock!Acquire(h)
  <2>1. /\ ExitGoto(h, "waiting", "locked")
        /\ \A g \in Handlers : HoldsLock(g) => g.key # h.key
    BY <1>3 DEF LockKey
  <2>2. Seen(h) = "waiting" /\ Seen(h)' = "holding"
    BY <2>1, ExitAlone DEF Seen, HoldsLock
  <2> QED
    BY <2>1, <2>2, ExitAlone DEF Lock!Acquire, Seen
<1>4. ASSUME NEW h \in Handlers, NEW from, NEW to, ExitGoto(h, from, to),
             from \in {"locked", "dialed", "awaiting", "acked"},
             to \in {"proxying", "returned"}
      PROVE  Lock!Release(h)
  <2>1. Seen(h) = "holding" /\ Seen(h)' = "idle"
    BY <1>4, ExitAlone DEF Seen, HoldsLock
  <2> QED
    BY <1>4, <2>1, ExitAlone DEF Lock!Release, Seen
<1>5. ASSUME NEW h \in Handlers, Exit(h)
      PROVE  [Lock!LockNext]_(Lock!lockVars)
  <2>1. CASE ReceiveConnect(h)
    BY <1>2, <2>1, Names DEF Lock!LockNext
  <2>2. CASE LockKey(h)
    BY <1>3, <2>2 DEF Lock!LockNext
  <2>3. CASE DialEntry(h) \/ WriteKey(h) \/ ReadAck(h) \/ ExitProxyEnds(h)
    BY <1>1, <2>3 DEF DialEntry, WriteKey, ReadAck, ExitProxyEnds
  <2>4. CASE DialEntryFails(h) \/ HandshakeFails(h) \/ DialBackend(h) \/ DialBackendFails(h)
    BY <1>4, <2>4 DEF DialEntryFails, HandshakeFails, DialBackend, DialBackendFails,
                      Lock!LockNext
  <2> QED
    BY <1>5, <2>1, <2>2, <2>3, <2>4 DEF Exit
<1>6. ASSUME UNCHANGED exit
      PROVE  UNCHANGED Lock!lockVars
  BY <1>6 DEF Lock!lockVars, HoldsLock
<1> QED
  BY <1>5, <1>6, LockUntouched DEF Next

(* The exit node's handlers use the lock of their key as KeyedLock has it, *)
(* which MutexMap implements, and give it back whichever way the handshake *)
(* ends (exit.go:301-332).                                                 *)
THEOREM UsesKeyedLockHolds == SafetySpec => UsesKeyedLock
<1>1. Init => Lock!LockInit
  BY Names DEF Init, Lock!LockInit, HoldsLock
<1> QED
  BY <1>1, LockStep, Invariance, PTL DEF SafetySpec, UsesKeyedLock, Lock!LockSpec
=============================================================================
