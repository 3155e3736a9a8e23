------------------------------ MODULE ExitNode ------------------------------
(***************************************************************************)
(* The exit node: exit/exit.go with the NostrConnection (netstr/conn.go)   *)
(* and the two Proxy goroutines (socks5/request.go) of each connection.    *)
(*                                                                         *)
(* ListenAndServe starts a goroutine for every event of the subscription,  *)
(* so that handlers of one connection run in any order.  A handler takes   *)
(* the lock of its key; a CONNECT dials the backend, enters the connection *)
(* in nostrConnectionMap and starts two proxies; a data event is sent down *)
(* the connection's unbuffered channel, with the lock held, until the      *)
(* connection's Read takes it.  Nothing leaves nostrConnectionMap.         *)
(*                                                                         *)
(* A connection is named after the CONNECT event (its key, and which copy  *)
(* of it) that created it.  The relays offer the events of a key in the    *)
(* order in which the entry node published them, and may repeat one.       *)
(***************************************************************************)
EXTENDS Naturals, Sequences, Functions

CONSTANTS Keys,        \* connection ids (protocol.Message.Key)
          Unparsable,  \* the keys whose destination protocol.Parse rejects
          MaxData,     \* data events per key
          MaxCopies,   \* times a relay may hand over one event
          NoConn       \* nostrConnectionMap has no entry

Copies == 1..MaxCopies
Events == [key : Keys, seq : 0..MaxData]      \* seq 0 is the CONNECT
Handlers == [event : Events, copy : Copies]   \* a goroutine per event received
Conns == [key : Keys, copy : Copies]

ASSUME ExitAssumption ==
  /\ Unparsable \subseteq Keys
  /\ MaxData \in Nat
  /\ MaxCopies \in Nat \ {0}
  /\ NoConn \notin Conns

VARIABLES
  handler,    \* program counter of the processMessage goroutine of each event
  dst,        \* local variable of handleSocks5ProxyMessage
  nostrConnectionMap,
  reader,     \* Proxy(dst, connection): from the connection to the backend
  writer,     \* Proxy(connection, dst): from the backend to the connection
  readIDs,    \* the events a connection's Read has seen
  buffer,     \* the event Read returned and the backend has not been written
  ctxDone,    \* the connection's context is cancelled
  sock,       \* the exit node's socket to the backend
  peer,       \* the backend's end of it
  delivered   \* what the backend of each connection has received

handlerVars == <<handler, dst, nostrConnectionMap>>
connVars == <<reader, writer, readIDs, buffer, ctxDone, sock, peer, delivered>>
vars == <<handler, dst, nostrConnectionMap, reader, writer, readIDs, buffer,
          ctxDone, sock, peer, delivered>>

TypeOK ==
  /\ handler \in [Handlers -> {"none", "started", "waiting", "locked", "sending", "returned"}]
  /\ dst \in [Handlers -> Conns \cup {NoConn}]
  /\ nostrConnectionMap \in [Keys -> Conns \cup {NoConn}]
  /\ reader \in [Conns -> {"none", "polling", "writing", "ended"}]
  /\ writer \in [Conns -> {"none", "reading", "publishing", "ended"}]
  /\ readIDs \in [Conns -> SUBSET Events]
  /\ buffer \in [Conns -> Seq(Events)]
  /\ ctxDone \in [Conns -> BOOLEAN]
  /\ sock \in [Conns -> {"none", "open", "closed"}]
  /\ peer \in [Conns -> {"open", "closed"}]
  /\ delivered \in [Conns -> Seq(Events)]

Init ==
  /\ handler = [h \in Handlers |-> "none"]
  /\ dst = [h \in Handlers |-> NoConn]
  /\ nostrConnectionMap = [k \in Keys |-> NoConn]
  /\ reader = [c \in Conns |-> "none"]
  /\ writer = [c \in Conns |-> "none"]
  /\ readIDs = [c \in Conns |-> {}]
  /\ buffer = [c \in Conns |-> <<>>]
  /\ ctxDone = [c \in Conns |-> FALSE]
  /\ sock = [c \in Conns |-> "none"]
  /\ peer = [c \in Conns |-> "open"]
  /\ delivered = [c \in Conns |-> <<>>]

Goto(h, from, to) ==
  /\ handler[h] = from
  /\ handler' = [handler EXCEPT ![h] = to]

-----------------------------------------------------------------------------
(* The subscription and ListenAndServe.                                    *)

(* The relays hand over g before h: the first copies in the order of       *)
(* publication, the copies of one event one after the other.               *)
Precedes(g, h) ==
  \/ /\ g.event.key = h.event.key
     /\ g.copy = 1 /\ h.copy = 1
     /\ g.event.seq < h.event.seq
  \/ g.event = h.event /\ g.copy < h.copy

(* ListenAndServe receives the next event and runs `go e.processMessage'.  *)
ReceiveEvent(h) ==
  /\ Goto(h, "none", "started")
  /\ \A g \in Handlers : Precedes(g, h) => handler[g] # "none"
  /\ UNCHANGED <<dst, nostrConnectionMap, connVars>>

(* processMessage up to its switch: a message whose destination is not a   *)
(* domain with a public suffix, an address or localhost is given up.       *)
DecodeMessage(h) ==
  /\ Goto(h, "started", IF h.event.key \in Unparsable THEN "returned" ELSE "waiting")
  /\ UNCHANGED <<dst, nostrConnectionMap, connVars>>

-----------------------------------------------------------------------------
(* handleConnect and handleSocks5ProxyMessage.                             *)

HoldsLock(h) == handler[h] \in {"locked", "sending"}

(* Variant of LockKey with one lock for the whole exit node.               *)
LockKeyGlobal(h) ==
  /\ Goto(h, "waiting", "locked")
  /\ \A g \in Handlers : ~ HoldsLock(g)
  /\ UNCHANGED <<dst, nostrConnectionMap, connVars>>

(* Variant of LockKey that does not lock.                                  *)
LockKeyForgotten(h) ==
  /\ Goto(h, "waiting", "locked")
  /\ UNCHANGED <<dst, nostrConnectionMap, connVars>>

(* e.mutexMap.Lock(protocolMessage.Key.String()) *)
LockKey(h) ==
  /\ Goto(h, "waiting", "locked")
  /\ \A g \in Handlers : HoldsLock(g) => g.event.key # h.event.key
  /\ UNCHANGED <<dst, nostrConnectionMap, connVars>>

ConnOf(h) == [key |-> h.event.key, copy |-> h.copy]

(* net.Dial fails and handleConnect returns; the entry node is not told.   *)
DialFails(h) ==
  /\ h.event.seq = 0
  /\ Goto(h, "locked", "returned")
  /\ UNCHANGED <<dst, nostrConnectionMap, connVars>>

(* net.Dial succeeds; the rest of handleConnect, up to the deferred        *)
(* Unlock, touches only what the lock of the key protects.                 *)
DialSucceeds(h) ==
  /\ h.event.seq = 0
  /\ Goto(h, "locked", "returned")
  /\ nostrConnectionMap' = [nostrConnectionMap EXCEPT ![h.event.key] = ConnOf(h)]
  /\ sock' = [sock EXCEPT ![ConnOf(h)] = "open"]
  /\ reader' = [reader EXCEPT ![ConnOf(h)] = "polling"]
  /\ writer' = [writer EXCEPT ![ConnOf(h)] = "reading"]
  /\ UNCHANGED <<dst, readIDs, buffer, ctxDone, peer, delivered>>

(* handleSocks5ProxyMessage: `dst, ok := e.nostrConnectionMap.Load(key)'.  *)
LoadConnection(h) ==
  LET c == nostrConnectionMap[h.event.key] IN
  /\ h.event.seq # 0
  /\ Goto(h, "locked", IF c = NoConn THEN "returned" ELSE "sending")
  /\ dst' = [dst EXCEPT ![h] = c]
  /\ UNCHANGED <<nostrConnectionMap, connVars>>

-----------------------------------------------------------------------------
(* Proxy(backend, connection): io.Copy from NostrConnection.Read to the    *)
(* backend's socket.                                                       *)

(* Variant of CloseBoth that forgets to close the NostrConnection.         *)
CloseSocketOnly(c) ==
  /\ sock' = [sock EXCEPT ![c] = "closed"]
  /\ UNCHANGED ctxDone

(* Either proxy has left io.Copy: it closes both ends, which cancels the   *)
(* context of the connection and closes the socket to the backend.         *)
CloseBoth(c) ==
  /\ sock' = [sock EXCEPT ![c] = "closed"]
  /\ ctxDone' = [ctxDone EXCEPT ![c] = TRUE]

EndReader(c) ==
  /\ reader' = [reader EXCEPT ![c] = "ended"]
  /\ CloseBoth(c)

(* Variant of TakeEvent that does not look the event up in readIDs.        *)
TakeEventAgain(c, e) ==
  /\ readIDs' = [readIDs EXCEPT ![c] = @ \cup {e}]
  /\ buffer' = [buffer EXCEPT ![c] = <<e>>]
  /\ reader' = [reader EXCEPT ![c] = "writing"]

(* handleNostrRead with an event: one it has read before is skipped.       *)
TakeEvent(c, e) ==
  IF e \in readIDs[c]
  THEN UNCHANGED <<readIDs, buffer, reader>>
  ELSE /\ readIDs' = [readIDs EXCEPT ![c] = @ \cup {e}]
       /\ buffer' = [buffer EXCEPT ![c] = <<e>>]
       /\ reader' = [reader EXCEPT ![c] = "writing"]

(* Variant of WriteNostrEvent that does not wait for Read: a select with a *)
(* default case around the send.                                           *)
WriteNostrEventOrDrop(h) ==
  /\ Goto(h, "sending", "returned")
  /\ IF reader[dst[h]] = "polling"
     THEN TakeEvent(dst[h], h.event)
     ELSE UNCHANGED <<readIDs, buffer, reader>>
  /\ UNCHANGED <<dst, nostrConnectionMap, writer, ctxDone, sock, peer, delivered>>

(* dst.WriteNostrEvent(msg) meets Read on the unbuffered channel; then the *)
(* handler unlocks its key.  Read may take an event though its context is  *)
(* cancelled: select picks any case that is ready.                         *)
WriteNostrEvent(h) ==
  /\ Goto(h, "sending", "returned")
  /\ reader[dst[h]] = "polling"
  /\ TakeEvent(dst[h], h.event)
  /\ UNCHANGED <<dst, nostrConnectionMap, writer, ctxDone, sock, peer, delivered>>

(* case <-nc.ctx.Done() *)
ReadCancelled(c) ==
  /\ reader[c] = "polling"
  /\ ctxDone[c]
  /\ EndReader(c)
  /\ UNCHANGED <<handlerVars, writer, readIDs, buffer, peer, delivered>>

(* The backend's socket takes what Read returned.  A backend that is gone  *)
(* may still have it accepted by the kernel, and lost.                     *)
WriteBackend(c) ==
  /\ reader[c] = "writing"
  /\ sock[c] = "open"
  /\ delivered' = [delivered EXCEPT ![c] = IF peer[c] = "open" THEN @ \o buffer[c] ELSE @]
  /\ buffer' = [buffer EXCEPT ![c] = <<>>]
  /\ reader' = [reader EXCEPT ![c] = "polling"]
  /\ UNCHANGED <<handlerVars, writer, readIDs, ctxDone, sock, peer>>

WriteBackendFails(c) ==
  /\ reader[c] = "writing"
  /\ sock[c] = "closed" \/ peer[c] = "closed"
  /\ EndReader(c)
  /\ UNCHANGED <<handlerVars, writer, readIDs, buffer, peer, delivered>>

-----------------------------------------------------------------------------
(* Proxy(connection, backend): io.Copy from the backend's socket to        *)
(* NostrConnection.Write, which publishes an event on the relays.          *)

EndWriter(c) ==
  /\ writer' = [writer EXCEPT ![c] = "ended"]
  /\ CloseBoth(c)

ReadBackend(c) ==
  /\ writer[c] = "reading"
  /\ sock[c] = "open" /\ peer[c] = "open"
  /\ writer' = [writer EXCEPT ![c] = "publishing"]
  /\ UNCHANGED <<handlerVars, reader, readIDs, buffer, ctxDone, sock, peer, delivered>>

(* The backend has closed, or the other proxy has closed the socket.       *)
ReadBackendEnds(c) ==
  /\ writer[c] = "reading"
  /\ sock[c] = "closed" \/ peer[c] = "closed"
  /\ EndWriter(c)
  /\ UNCHANGED <<handlerVars, reader, readIDs, buffer, peer, delivered>>

Publish(c) ==
  /\ writer[c] = "publishing"
  /\ writer' = [writer EXCEPT ![c] = "reading"]
  /\ UNCHANGED <<handlerVars, reader, readIDs, buffer, ctxDone, sock, peer, delivered>>

(* A relay is unreachable or refuses the event, or the context is done.    *)
PublishFails(c) ==
  /\ writer[c] = "publishing"
  /\ EndWriter(c)
  /\ UNCHANGED <<handlerVars, reader, readIDs, buffer, peer, delivered>>

(* The backend closes its end (when the exit node sees it: what the        *)
(* backend sent before is read first).                                     *)
BackendCloses(c) ==
  /\ sock[c] # "none" /\ peer[c] = "open"
  /\ peer' = [peer EXCEPT ![c] = "closed"]
  /\ UNCHANGED <<handlerVars, reader, writer, readIDs, buffer, ctxDone, sock, delivered>>

-----------------------------------------------------------------------------
Handler(h) ==
  \/ DecodeMessage(h)
  \/ LockKey(h)
  \/ DialFails(h)
  \/ DialSucceeds(h)
  \/ LoadConnection(h)
  \/ WriteNostrEvent(h)

Reader(c) == ReadCancelled(c) \/ WriteBackend(c) \/ WriteBackendFails(c)

Writer(c) ==
  \/ ReadBackend(c) \/ ReadBackendEnds(c) \/ Publish(c) \/ PublishFails(c)

Next ==
  \/ \E h \in Handlers : ReceiveEvent(h) \/ Handler(h)
  \/ \E c \in Conns : Reader(c) \/ Writer(c) \/ BackendCloses(c)

SafetySpec == Init /\ [][Next]_vars

(***************************************************************************)
(* Goroutines that can run do run: weak fairness.  Dial returns, with a    *)
(* connection or the operating system's time-out.  The key's lock is a     *)
(* sync.Mutex, which serves every waiter if it is released again and again *)
(* (MutexMap): strong fairness of LockKey.  The writer is only assumed to  *)
(* notice that its source is gone or its publication answered.  Writing to *)
(* an open socket ends: the backend is assumed to read what it is sent.    *)
(* Nothing is assumed of the relays and of when the backend speaks or      *)
(* closes.                                                                 *)
(***************************************************************************)
Fairness ==
  /\ \A h \in Handlers :
       /\ WF_vars(DecodeMessage(h))
       /\ SF_vars(LockKey(h))
       /\ WF_vars(DialFails(h) \/ DialSucceeds(h) \/ LoadConnection(h))
       /\ WF_vars(WriteNostrEvent(h))
  /\ \A c \in Conns :
       /\ WF_vars(Reader(c))
       /\ WF_vars(ReadBackendEnds(c))
       /\ WF_vars(Publish(c) \/ PublishFails(c))

Spec == SafetySpec /\ Fairness

-----------------------------------------------------------------------------
(* However often the relays repeat an event, and however its handlers      *)
(* interleave, no backend receives it twice on a connection (readIDs,      *)
(* conn.go:126-130).                                                       *)
AtMostOnce == \A c \in Conns : IsInjective(delivered[c])

(* No event that Read has taken is lost inside the exit node: while the    *)
(* connection is up it is on its way to the backend or already there, or   *)
(* it was a copy of one that is.                                           *)
AcceptedNotLost ==
  \A h \in Handlers :
    LET c == dst[h] IN
    (h.event.seq # 0 /\ handler[h] = "returned" /\ c # NoConn)
      => \/ h.event \in Range(delivered[c]) \cup Range(buffer[c])
         \/ ctxDone[c] \/ peer[c] = "closed"

(* A handler blocked on the channel of a connection is never the victim of *)
(* a later CONNECT: the connection it holds is the current one of its key  *)
(* (the lock is held over the look-up and the send, exit.go:344-350).      *)
SendsToCurrent ==
  \A h \in Handlers :
    handler[h] = "sending" => dst[h] = nostrConnectionMap[h.event.key]

(* Every handler returns unless a connection of its own key is closed: a   *)
(* handler stuck on a dead connection, lock in hand, never delays another  *)
(* key (exit.go:344-350 with mutex.go).                                    *)
OtherKeysProgress ==
  \A h \in Handlers :
    handler[h] # "none" ~>
      \/ handler[h] = "returned"
      \/ \E c \in Conns : c.key = h.event.key /\ ctxDone[c]

(* When one direction of a connection ends, so does the other, and the     *)
(* socket to the backend is closed (request.go:384-399).                   *)
TeardownCompletes ==
  \A c \in Conns :
    (reader[c] = "ended" \/ writer[c] = "ended") ~>
      (reader[c] = "ended" /\ writer[c] = "ended" /\ sock[c] = "closed")

Lock == INSTANCE KeyedLock
          WITH Threads <- Handlers, Ids <- Keys,
               status <- [h \in Handlers |->
                            IF HoldsLock(h) THEN "holding"
                            ELSE IF handler[h] = "waiting" THEN "waiting" ELSE "idle"],
               key <- [h \in Handlers |-> h.event.key]

(* The handlers use the lock of their key as KeyedLock has it.             *)
UsesKeyedLock == Lock!LockSpec

Datagram == INSTANCE Datagrams
              WITH offered <- {h.event : h \in {g \in Handlers : handler[g] # "none"}},
                   got <- delivered,
                   closed <- {c \in Conns : sock[c] = "closed"}

(* The exit node gives each backend the datagram service of Datagrams.     *)
ImplementsDatagrams == Datagram!DatagramSpec
=============================================================================
