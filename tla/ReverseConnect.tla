--------------------------- MODULE ReverseConnect ---------------------------
(***************************************************************************)
(* Reverse mode (PUBLIC_ADDRESS): instead of relaying data over Nostr, the *)
(* exit node dials the entry node back.  handleConnect (socks5/request.go) *)
(* registers a channel under a new key, publishes the CONNECT and waits on *)
(* the channel.  handleConnectReverse (exit/exit.go) dials, sends the key, *)
(* waits for one byte, dials the backend and starts the proxies, holding   *)
(* the lock of the key all the while.  TCPListener (socks5/tcp.go) reads   *)
(* the key, looks the channel up, deletes the entry, acknowledges, and     *)
(* sends the TCP connection down the channel.                              *)
(*                                                                         *)
(* A TCP connection is named after the exit handler that dials it: the key *)
(* and which copy of the CONNECT event it handles.  The key on the wire is *)
(* two pieces, which one Read of the listener may or may not return        *)
(* together.  The two Proxy goroutines of a side are one process.          *)
(***************************************************************************)
EXTENDS Naturals

CONSTANTS Keys,       \* connection ids made by the entry node
          MaxCopies,  \* times the relays may hand over a CONNECT
          MaySplit,   \* whether a Read may return a part of the key
          MayReset,   \* whether a TCP connection may be reset
          NoConn      \* handleConnect has no reversed connection

Handlers == [key : Keys, copy : 1..MaxCopies]

ASSUME ReverseAssumption ==
  /\ MaxCopies \in Nat
  /\ MaySplit \in BOOLEAN /\ MayReset \in BOOLEAN
  /\ NoConn \notin Handlers

VARIABLES
  main,            \* handleConnect of each key
  connectChannels, \* the keys registered in the listener's map
  channel,         \* the channel of each key
  target,          \* the connection that handleConnect received
  client,          \* the client's end of the socket to the entry node
  published,       \* keys whose CONNECT some relay has
  listener,        \* handleConnection of each TCP connection
  crashed,         \* the entry node has panicked
  exit,            \* handleConnectReverse of each copy of a CONNECT
  conn,            \* the TCP connection
  wire,            \* pieces of the key on their way to the listener
  split,           \* a Read has returned a part of the key
  ack              \* the acknowledgement is on its way to the exit node

entryVars == <<main, connectChannels, channel, target, client, published, listener, crashed>>
wireVars == <<conn, wire, split, ack>>
vars == <<entryVars, exit, wireVars>>

TypeOK ==
  /\ main \in [Keys -> {"none", "dialing", "waiting", "proxying", "returned"}]
  /\ connectChannels \in SUBSET Keys
  /\ channel \in [Keys -> {"open", "closed"}]
  /\ target \in [Keys -> Handlers \cup {NoConn}]
  /\ client \in [Keys -> {"open", "closed"}]
  /\ published \in SUBSET Keys
  /\ listener \in [Handlers -> {"none", "reading", "loaded", "deleted", "sending", "returned"}]
  /\ crashed \in BOOLEAN
  /\ exit \in [Handlers -> {"none", "waiting", "locked", "dialed", "awaiting", "acked",
                            "proxying", "returned", "ended"}]
  /\ conn \in [Handlers -> {"none", "open", "closed", "reset"}]
  /\ wire \in [Handlers -> 0..2]
  /\ split \in [Handlers -> BOOLEAN]
  /\ ack \in [Handlers -> BOOLEAN]

Init ==
  /\ main = [k \in Keys |-> "none"]
  /\ connectChannels = {}
  /\ channel = [k \in Keys |-> "open"]
  /\ target = [k \in Keys |-> NoConn]
  /\ client = [k \in Keys |-> "open"]
  /\ published = {}
  /\ listener = [h \in Handlers |-> "none"]
  /\ crashed = FALSE
  /\ exit = [h \in Handlers |-> "none"]
  /\ conn = [h \in Handlers |-> "none"]
  /\ wire = [h \in Handlers |-> 0]
  /\ split = [h \in Handlers |-> FALSE]
  /\ ack = [h \in Handlers |-> FALSE]

-----------------------------------------------------------------------------
(* handleConnect of the entry node.                                        *)

MainGoto(k, from, to) ==
  /\ ~ crashed
  /\ main[k] = from
  /\ main' = [main EXCEPT ![k] = to]

(* Variant of AddConnectChannel that does not register the channel.        *)
AddConnectChannelForgotten(k) == UNCHANGED connectChannels

(* s.tcpListener.AddConnectChannel(options.ConnectionID, ch) *)
AddConnectChannel(k) == connectChannels' = connectChannels \cup {k}

HandleConnect(k) ==
  /\ MainGoto(k, "none", "dialing")
  /\ AddConnectChannel(k)
  /\ UNCHANGED <<channel, target, client, published, listener, crashed, exit, wireVars>>

(* DialSocks publishes the CONNECT on a relay.                             *)
PublishConnect(k) ==
  /\ ~ crashed
  /\ main[k] = "dialing"
  /\ published' = published \cup {k}
  /\ UNCHANGED <<main, connectChannels, channel, target, client, listener, crashed, exit,
                 wireVars>>

(* DialSocks returns (it skips relays it cannot reach) and the success     *)
(* reply is sent; handleConnect waits on the channel.                      *)
DialSucceeds(k) ==
  /\ MainGoto(k, "dialing", "waiting")
  /\ UNCHANGED <<connectChannels, channel, target, client, published, listener, crashed, exit,
                 wireVars>>

(* A relay refuses the CONNECT, or the client has gone: handleConnect      *)
(* returns; the channel stays in the map.                                  *)
DialFails(k) ==
  /\ MainGoto(k, "dialing", "returned")
  /\ UNCHANGED <<connectChannels, channel, target, client, published, listener, crashed, exit,
                 wireVars>>

(* target = <-ch meets connChannel <- conn. *)
ReceiveTarget(h) ==
  /\ MainGoto(h.key, "waiting", "proxying")
  /\ listener[h] = "sending" /\ channel[h.key] = "open"
  /\ target' = [target EXCEPT ![h.key] = h]
  /\ listener' = [listener EXCEPT ![h] = "returned"]
  /\ UNCHANGED <<connectChannels, channel, client, published, crashed, exit, wireVars>>

(* The channel is closed: target is nil, and `defer target.Close()' of the *)
(* nil interface panics.  Nobody recovers: the entry node is gone.         *)
ReceiveNil(k) ==
  /\ ~ crashed
  /\ main[k] = "waiting" /\ channel[k] = "closed"
  /\ main' = [main EXCEPT ![k] = "proxying"]
  /\ crashed' = TRUE
  /\ UNCHANGED <<connectChannels, channel, target, client, published, listener, exit, wireVars>>

(* Variant of CloseConn that leaves the reversed connection open.          *)
CloseConnForgotten(h) == UNCHANGED conn

CloseConn(h) == conn' = [conn EXCEPT ![h] = IF @ = "open" THEN "closed" ELSE @]

(* A proxy of the entry node ends when either side has closed, closes      *)
(* both, and handleConnect returns.                                        *)
EntryProxyEnds(k) ==
  /\ MainGoto(k, "proxying", "returned")
  /\ client[k] = "closed" \/ conn[target[k]] # "open"
  /\ CloseConn(target[k])
  /\ UNCHANGED <<connectChannels, channel, target, client, published, listener, crashed, exit,
                 wire, split, ack>>

ClientCloses(k) ==
  /\ client[k] = "open"
  /\ client' = [client EXCEPT ![k] = "closed"]
  /\ UNCHANGED <<main, connectChannels, channel, target, published, listener, crashed, exit,
                 wireVars>>

-----------------------------------------------------------------------------
(* TCPListener: Start accepts a connection and starts handleConnection.    *)

ListenerGoto(h, from, to) ==
  /\ ~ crashed
  /\ listener[h] = from
  /\ listener' = [listener EXCEPT ![h] = to]

Accept(h) ==
  /\ conn[h] # "none"
  /\ ListenerGoto(h, "none", "reading")
  /\ UNCHANGED <<main, connectChannels, channel, target, client, published, crashed, exit,
                 wireVars>>

(* One Read returns the whole key; Load finds its channel or the loop      *)
(* reads on.                                                               *)
ReadKey(h) ==
  /\ wire[h] = 2
  /\ ListenerGoto(h, "reading", IF h.key \in connectChannels THEN "loaded" ELSE "reading")
  /\ wire' = [wire EXCEPT ![h] = 0]
  /\ UNCHANGED <<main, connectChannels, channel, target, client, published, crashed, exit,
                 conn, split, ack>>

(* Read returns a part of the key, which is in no map.                     *)
ReadPart(h) ==
  /\ MaySplit \/ wire[h] = 1
  /\ wire[h] > 0
  /\ ListenerGoto(h, "reading", "reading")
  /\ wire' = [wire EXCEPT ![h] = @ - 1]
  /\ split' = [split EXCEPT ![h] = TRUE]
  /\ UNCHANGED <<main, connectChannels, channel, target, client, published, crashed, exit,
                 conn, ack>>

ReadFails(h) ==
  /\ conn[h] = "reset" \/ (conn[h] = "closed" /\ wire[h] = 0)
  /\ ListenerGoto(h, "reading", "returned")
  /\ UNCHANGED <<main, connectChannels, channel, target, client, published, crashed, exit,
                 wireVars>>

(* Variant of DeleteChannel that leaves the entry in the map.              *)
DeleteChannelForgotten(h) ==
  /\ ListenerGoto(h, "loaded", "deleted")
  /\ UNCHANGED <<main, connectChannels, channel, target, client, published, crashed, exit,
                 wireVars>>

DeleteChannel(h) ==
  /\ ListenerGoto(h, "loaded", "deleted")
  /\ connectChannels' = connectChannels \ {h.key}
  /\ UNCHANGED <<main, channel, target, client, published, crashed, exit, wireVars>>

(* Variant of WriteAck that sends only if somebody waits: a select with a  *)
(* default case around the send.                                           *)
WriteAckOrDrop(h) ==
  /\ ListenerGoto(h, "deleted", IF main[h.key] = "waiting" THEN "sending" ELSE "returned")
  /\ ack' = [ack EXCEPT ![h] = (conn[h] = "open")]
  /\ UNCHANGED <<main, connectChannels, channel, target, client, published, crashed, exit,
                 conn, wire, split>>

(* conn.Write(response); a reset may not be known here yet. *)
WriteAck(h) ==
  /\ ListenerGoto(h, "deleted", "sending")
  /\ ack' = [ack EXCEPT ![h] = (conn[h] = "open")]
  /\ UNCHANGED <<main, connectChannels, channel, target, client, published, crashed, exit,
                 conn, wire, split>>

(* Variant of WriteAckFails that gives up on a connection that is well.    *)
WriteAckGivesUp(h) ==
  /\ ListenerGoto(h, "deleted", "returned")
  /\ channel' = [channel EXCEPT ![h.key] = "closed"]
  /\ crashed' = (channel[h.key] = "closed")
  /\ UNCHANGED <<main, connectChannels, target, client, published, exit, wireVars>>

(* Write fails: close(connChannel), which panics if it is closed already.  *)
WriteAckFails(h) ==
  /\ conn[h] # "open"
  /\ ListenerGoto(h, "deleted", "returned")
  /\ channel' = [channel EXCEPT ![h.key] = "closed"]
  /\ crashed' = (channel[h.key] = "closed")
  /\ UNCHANGED <<main, connectChannels, target, client, published, exit, wireVars>>

(* connChannel <- conn on a closed channel panics.                         *)
SendOnClosed(h) ==
  /\ ~ crashed
  /\ listener[h] = "sending" /\ channel[h.key] = "closed"
  /\ crashed' = TRUE
  /\ UNCHANGED <<main, connectChannels, channel, target, client, published, listener, exit,
                 wireVars>>

-----------------------------------------------------------------------------
(* handleConnectReverse of the exit node, in processMessage's goroutine.   *)

ExitGoto(h, from, to) ==
  /\ exit[h] = from
  /\ exit' = [exit EXCEPT ![h] = to]

ReceiveConnect(h) ==
  /\ h.key \in published
  /\ ExitGoto(h, "none", "waiting")
  /\ UNCHANGED <<entryVars, wireVars>>

HoldsLock(h) == exit[h] \in {"locked", "dialed", "awaiting", "acked"}

(* Variant of LockKey that does not lock.                                  *)
LockKeyForgotten(h) ==
  /\ ExitGoto(h, "waiting", "locked")
  /\ UNCHANGED <<entryVars, wireVars>>

LockKey(h) ==
  /\ ExitGoto(h, "waiting", "locked")
  /\ \A g \in Handlers : HoldsLock(g) => g.key # h.key
  /\ UNCHANGED <<entryVars, wireVars>>

DialEntry(h) ==
  /\ ~ crashed
  /\ ExitGoto(h, "locked", "dialed")
  /\ conn' = [conn EXCEPT ![h] = "open"]
  /\ UNCHANGED <<entryVars, wire, split, ack>>

DialEntryFails(h) ==
  /\ ExitGoto(h, "locked", "returned")
  /\ UNCHANGED <<entryVars, wireVars>>

(* connection.Write([]byte(protocolMessage.Key.String())) *)
WriteKey(h) ==
  /\ conn[h] = "open"
  /\ ExitGoto(h, "dialed", "awaiting")
  /\ wire' = [wire EXCEPT ![h] = 2]
  /\ UNCHANGED <<entryVars, conn, split, ack>>

ReadAck(h) ==
  /\ ack[h] /\ conn[h] # "reset"
  /\ ExitGoto(h, "awaiting", "acked")
  /\ UNCHANGED <<entryVars, wireVars>>

(* Write or Read fails: the handler returns, the socket is not closed.     *)
HandshakeFails(h) ==
  /\ conn[h] = "reset" \/ (conn[h] = "closed" /\ ~ ack[h])
  /\ ExitGoto(h, "dialed", "returned") \/ ExitGoto(h, "awaiting", "returned")
  /\ UNCHANGED <<entryVars, wireVars>>

(* The proxies are started; the deferred Unlock runs.                      *)
DialBackend(h) ==
  /\ ExitGoto(h, "acked", "proxying")
  /\ UNCHANGED <<entryVars, wireVars>>

(* The handler returns; the connection to the entry node stays open.       *)
DialBackendFails(h) ==
  /\ ExitGoto(h, "acked", "returned")
  /\ UNCHANGED <<entryVars, wireVars>>

(* A proxy of the exit node ends when the backend or the entry node has    *)
(* closed, and closes both.                                                *)
ExitProxyEnds(h) ==
  /\ ExitGoto(h, "proxying", "ended")
  /\ CloseConn(h)
  /\ UNCHANGED <<entryVars, wire, split, ack>>

(* The network, or the crash of the entry node, resets the connection.     *)
Reset(h) ==
  /\ MayReset \/ crashed
  /\ conn[h] = "open"
  /\ conn' = [conn EXCEPT ![h] = "reset"]
  /\ UNCHANGED <<entryVars, exit, wire, split, ack>>

-----------------------------------------------------------------------------
Main(k) ==
  \/ HandleConnect(k) \/ PublishConnect(k) \/ DialSucceeds(k) \/ DialFails(k)
  \/ ReceiveNil(k) \/ EntryProxyEnds(k)

Listener(h) ==
  \/ Accept(h) \/ ReadKey(h) \/ ReadPart(h) \/ ReadFails(h)
  \/ DeleteChannel(h) \/ WriteAck(h) \/ WriteAckFails(h) \/ SendOnClosed(h)

Exit(h) ==
  \/ ReceiveConnect(h) \/ LockKey(h)
  \/ DialEntry(h) \/ DialEntryFails(h)
  \/ WriteKey(h) \/ ReadAck(h) \/ HandshakeFails(h)
  \/ DialBackend(h) \/ DialBackendFails(h) \/ ExitProxyEnds(h)

Next ==
  \/ \E k \in Keys : Main(k) \/ ClientCloses(k)
  \/ \E h \in Handlers : ReceiveTarget(h) \/ Listener(h) \/ Exit(h) \/ Reset(h)

SafetySpec == Init /\ [][Next]_vars

(***************************************************************************)
(* Goroutines that can run do run, and Dial returns; the key's lock serves *)
(* every waiter (MutexMap).  ExitProxyEnds must happen once the entry node *)
(* has closed; that the backend closes is not assumed.  The operating      *)
(* system resets the connections of an entry node that has panicked.       *)
(***************************************************************************)
Fairness ==
  /\ \A k \in Keys : WF_vars(ReceiveNil(k) \/ EntryProxyEnds(k))
  /\ \A h \in Handlers :
       /\ WF_vars(ReceiveTarget(h))
       /\ WF_vars(Listener(h))
       /\ SF_vars(LockKey(h))
       /\ WF_vars(DialEntry(h) \/ DialEntryFails(h))
       /\ WF_vars(WriteKey(h) \/ ReadAck(h) \/ HandshakeFails(h))
       /\ WF_vars(DialBackend(h) \/ DialBackendFails(h))
       /\ WF_vars(conn[h] # "open" /\ ExitProxyEnds(h))
       /\ WF_vars(crashed /\ Reset(h))

Spec == SafetySpec /\ Fairness

-----------------------------------------------------------------------------
Acked(h) == exit[h] \in {"acked", "proxying", "ended"}

(* However often the relays repeat a CONNECT, one copy at most is          *)
(* acknowledged: the backend is dialed once for a key (the delete of       *)
(* tcp.go:64 together with the exit node's lock, exit.go:301-302).         *)
AckedOnce ==
  \A g, h \in Handlers : Acked(g) /\ Acked(h) /\ g.key = h.key => g = h

(* The connection that handleConnect proxies, unless it has been reset, is *)
(* the one whose other end the exit node proxies: a retry of the exit node *)
(* never splits the two (tcp.go:51-74, exit.go:300-332).                   *)
SameConnection ==
  \A g, h \in Handlers :
    (Acked(h) /\ target[h.key] = g /\ conn[g] # "reset") => g = h

(* An exit handler that has sent its key, lock in hand, is released unless *)
(* the entry node has read the key in pieces or has answered another copy  *)
(* of it: these are the only ways to hang (tcp.go:51-63, exit.go:315).     *)
AwaitingEnds ==
  \A h \in Handlers :
    exit[h] = "awaiting" ~>
      \/ exit[h] # "awaiting"
      \/ split[h]
      \/ \E g \in Handlers : g # h /\ g.key = h.key /\ listener[g] \notin {"none", "reading"}

(* The exit node may call back while DialSocks is still publishing on the  *)
(* other relays, before handleConnect waits on its channel.  Once it does  *)
(* wait, it gets a connection if the exit node takes one of its key as     *)
(* acknowledged, unless the entry node goes down (tcp.go:66-74 with        *)
(* request.go:190-223).                                                    *)
AckedIsReceived ==
  \A h \in Handlers :
    Acked(h) /\ main[h.key] = "waiting" ~> target[h.key] # NoConn \/ crashed

(* When the client of a reversed connection closes, the exit node closes   *)
(* the connection to the backend (request.go:384-399 on both nodes).       *)
CloseReachesBackend ==
  \A h \in Handlers :
    (client[h.key] = "closed" /\ target[h.key] = h /\ exit[h] = "proxying")
      ~> exit[h] = "ended"

(* A closed channel makes handleConnect go on with a nil target, which     *)
(* panics, and so does sending on it (request.go:223-224, tcp.go:68, 73):  *)
(* the entry node goes down, but only if the network has reset a           *)
(* connection between its key and its acknowledgement, never because of    *)
(* repeated CONNECTs, split keys or clients that go.                       *)
PanicNeedsReset ==
  crashed => \E h \in Handlers :
               conn[h] = "reset" /\ listener[h] = "returned" /\ ~ Acked(h)

Lock == INSTANCE KeyedLock
          WITH Threads <- Handlers, Ids <- Keys,
               status <- [h \in Handlers |->
                            IF HoldsLock(h) THEN "holding"
                            ELSE IF exit[h] = "waiting" THEN "waiting" ELSE "idle"],
               key <- [h \in Handlers |-> h.key]

(* The handlers use the lock of their key as KeyedLock has it, and give it *)
(* back whichever way the handshake ends (exit.go:301-332).                *)
UsesKeyedLock == Lock!LockSpec
=============================================================================
