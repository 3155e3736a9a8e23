------------------------------- MODULE Tunnel -------------------------------
(***************************************************************************)
(* Both nodes of one connection in relay mode: EntryConn and ExitNode,     *)
(* each with its own steps, meet at the relays.  A relay that has an event *)
(* of the entry node may hand it over to the exit node, or lose it; a      *)
(* chunk that the exit node reads from the backend becomes the reply that  *)
(* the entry node's subscription may get.  Nothing else passes between     *)
(* the nodes; in particular, none tells the other that it has closed.      *)
(***************************************************************************)
EXTENDS Naturals, Sequences, Functions

CONSTANTS Key,                             \* the id of the connection
          NRelays, MaxOut, MaxIn, MaxTime, \* as in EntryConn
          EntryCopies, ExitCopies,         \* times an event may be handed over
          NoSub, Unsent, NoConn

ASSUME TunnelAssumption ==
  /\ {NRelays, MaxOut, MaxIn, MaxTime, EntryCopies} \subseteq Nat
  /\ ExitCopies \in Nat \ {0}
  /\ NoSub \notin Nat
  /\ Unsent \notin [stamp : 0..MaxTime, relay : 1..NRelays, kept : BOOLEAN, answer : BOOLEAN]
  /\ NoConn \notin [key : {Key}, copy : 1..ExitCopies]

VARIABLES
  (* EntryConn *)
  main, relay, connected, up, sent, log, since, down, readIDs, buffer, received,
  helper, readBuffer, ctxDone, sock, client, subscribed, reply, handed, now,
  (* ExitNode *)
  handler, dst, nostrConnectionMap, reader, writer, peer, delivered,
  exitReadIDs, exitBuffer, exitCtxDone, exitSock,
  (* What the replies have to do with the data. *)
  heard,    \* the chunk that the exit node is about to publish was sent by
            \* a backend that had received some data before
  answers   \* the published replies of which this is true

Entry == INSTANCE EntryConn WITH MaxCopies <- EntryCopies

Exit == INSTANCE ExitNode
          WITH Keys <- {Key}, Unparsable <- {}, MaxData <- MaxOut, MaxCopies <- ExitCopies,
               readIDs <- exitReadIDs, buffer <- exitBuffer,
               ctxDone <- exitCtxDone, sock <- exitSock

entryVars == <<main, relay, connected, up, sent, log, since, down, readIDs, buffer, received,
               helper, readBuffer, ctxDone, sock, client, subscribed, reply, handed, now>>
exitVars == <<handler, dst, nostrConnectionMap, reader, writer, peer, delivered,
              exitReadIDs, exitBuffer, exitCtxDone, exitSock>>
history == <<heard, answers>>
vars == <<entryVars, exitVars, history>>

Init ==
  /\ Entry!Init /\ Exit!Init
  /\ heard = [c \in Exit!Conns |-> FALSE] /\ answers = {}

-----------------------------------------------------------------------------
(* The entry node and its client.                                          *)
EntryStep ==
  /\ \/ Entry!Main \/ Entry!Up \/ Entry!Down \/ Entry!Helper
     \/ Entry!ClientCloses \/ Entry!Tick
     \/ \E r \in Entry!Relays : Entry!SubscribesAt(r)
  /\ UNCHANGED <<exitVars, history>>

Unpublished == {n \in Entry!Replies : ~ Entry!Published(n)}

(* The exit node reads from the backend; the number of chunks is bounded.  *)
ReadBackend(c) ==
  /\ Exit!ReadBackend(c) /\ Unpublished # {}
  /\ heard' = [heard EXCEPT ![c] = delivered[c] # <<>>]
  /\ UNCHANGED <<entryVars, answers>>

(* Everything else at the exit node that does not involve the relays.      *)
ExitStep ==
  /\ \/ \E h \in Exit!Handlers : Exit!Handler(h)
     \/ \E c \in Exit!Conns :
          \/ Exit!Reader(c)
          \/ Exit!ReadBackendEnds(c) \/ Exit!PublishFails(c)
          \/ Exit!BackendCloses(c)
  /\ UNCHANGED <<entryVars, history>>

-----------------------------------------------------------------------------
(* The relays.                                                             *)

(* Some relay has the event.                                               *)
OnRelay(event) ==
  IF event.seq = 0 THEN connected # {}
  ELSE \E r \in Entry!Relays : event.seq \in Range(log[r])

HandOver(h) ==
  /\ OnRelay(h.event)
  /\ Exit!ReceiveEvent(h)
  /\ UNCHANGED <<entryVars, history>>

(* The exit node publishes what it has read; Publish may fail although the *)
(* relay has taken the event.                                              *)
PublishReply(c, n, r, kept) ==
  /\ Exit!Publish(c) \/ Exit!PublishFails(c)
  /\ Entry!BackendReplies(n, r, kept)
  /\ answers' = answers \cup (IF heard[c] THEN {n} ELSE {})
  /\ UNCHANGED heard

-----------------------------------------------------------------------------
Next ==
  \/ EntryStep \/ ExitStep
  \/ \E c \in Exit!Conns : ReadBackend(c)
  \/ \E h \in Exit!Handlers : HandOver(h)
  \/ \E c \in Exit!Conns, n \in Entry!Replies, r \in Entry!Relays, kept \in BOOLEAN :
       PublishReply(c, n, r, kept)

SafetySpec == Init /\ [][Next]_vars

(* The fairness of both nodes; none for the relays between them.           *)
Spec == SafetySpec /\ Entry!Fairness /\ Exit!Fairness

-----------------------------------------------------------------------------
Chunk(n) == [key |-> Key, seq |-> n]

Outward == INSTANCE Datagrams
             WITH Conns <- Exit!Conns, Events <- {Chunk(n) : n \in 1..MaxOut},
                  offered <- {Chunk(n) : n \in 1..sent},
                  got <- delivered,
                  closed <- {c \in Exit!Conns : exitSock[c] = "closed"}

(* From the client to the backend and back, through both nodes and the     *)
(* relays, the connection is the datagram service of Datagrams: nothing    *)
(* arrives that was not sent, nothing twice on a connection, and nothing   *)
(* after the receiving end is closed.                                      *)
EndToEnd == Outward!DatagramSpec /\ Entry!ImplementsDatagrams

(* The filter of the entry node's subscription never hides what a backend  *)
(* sends after it has received data of the client: that data left after    *)
(* the filter was made (conn.go:216-238 with exit.go:349), and the clock   *)
(* has not gone back since.  That the subscription is in force when the    *)
(* answer is published, nothing in the code ensures (conn.go:219).         *)
AnswersPassFilter == \A n \in answers : Entry!InFilter(n)

ExitEnds(c) == reader[c] = "ended" /\ writer[c] = "ended" /\ exitSock[c] = "closed"

EntryEnds ==
  /\ main = "returned" /\ up # "reading" /\ up # "publishing" /\ down \notin {"polling", "writing"}
  /\ ctxDone => helper = "ended"

(* No handler is left, or one of them is stuck for ever on the channel of  *)
(* a closed connection, with the lock that the others wait for.            *)
HandlersEnd ==
  \/ \A h \in Exit!Handlers : handler[h] \in {"none", "returned"}
  \/ \E h \in Exit!Handlers : handler[h] = "sending" /\ exitCtxDone[dst[h]]

(* There is no message for the end of a connection, so that a node learns  *)
(* of it from its own side only (request.go:384-399).  Once both sides,    *)
(* the client and the backend, have closed, both nodes close their sockets *)
(* and end their proxies, whatever was on its way between them and however *)
(* much of the CONNECT's publication had failed (dial.go:71-79).  What may *)
(* stay is named: the goroutine of WithSub of a dial that failed, and the  *)
(* handlers of the key when a chunk came too late (conn.go:79).            *)
BothClosedEnds ==
  \A c \in Exit!Conns :
    client = "closed" /\ peer[c] = "closed" ~> EntryEnds /\ ExitEnds(c) /\ HandlersEnd
=============================================================================
