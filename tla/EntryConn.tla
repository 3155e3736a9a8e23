----------------------------- MODULE EntryConn -----------------------------
(***************************************************************************)
(* One connection of an entry node in relay mode: handleConnect            *)
(* (socks5/request.go), DialSocks (netstr/dial.go), the NostrConnection    *)
(* with its subscription (netstr/conn.go) and the two Proxy goroutines.    *)
(*                                                                         *)
(* DialSocks publishes the CONNECT relay by relay.  Then one proxy turns   *)
(* every chunk of the client into an event and publishes it relay by       *)
(* relay; the first Write also opens the subscription for replies, from    *)
(* the present second on, and replaces subscriptionChan.  The other proxy  *)
(* polls subscriptionChan for replies.  The goroutine that WithSub starts  *)
(* reads the variable subscriptionChan without synchronisation, once: it   *)
(* waits on the first channel for ever, or on the subscription's.          *)
(*                                                                         *)
(* Chunks and replies are numbered.  The exit node, the backend and the    *)
(* relays are outside: replies are published in order, with the exit       *)
(* node's clock, which is taken to be the entry node's.  SubMany returns   *)
(* before anything is sent: each relay gets the subscription some time     *)
(* later, if at all.  Relays hand over matching events in any order and    *)
(* perhaps repeatedly, and may or may not have kept an ephemeral event     *)
(* published before they had the subscription.                             *)
(***************************************************************************)
EXTENDS Naturals, Sequences, Functions

CONSTANTS Key,        \* the id of the connection
          NRelays,    \* relays of the destination, in the order of the list
          MaxOut,     \* chunks the client sends
          MaxIn,      \* replies the backend sends
          MaxCopies,  \* times a reply may be handed over
          MaxTime,    \* seconds that pass
          NoSub,      \* no subscription yet
          Unsent      \* a reply not published yet

Relays == 1..NRelays
Replies == 1..MaxIn

ASSUME EntryAssumption ==
  /\ {NRelays, MaxOut, MaxIn, MaxCopies, MaxTime} \subseteq Nat
  /\ NoSub \notin Nat
  /\ Unsent \notin [stamp : 0..MaxTime, relay : 1..NRelays, kept : BOOLEAN, answer : BOOLEAN]

VARIABLES
  main,       \* the goroutine of handleConnect
  relay,      \* the loop over the relays, in DialSocks and in Write
  connected,  \* relays that have the CONNECT
  up,         \* Proxy(target, conn): from the client to the relays
  sent,       \* chunks taken from the client
  log,        \* data events on each relay
  since,      \* the subscription's filter
  down,       \* Proxy(conn, target): from subscriptionChan to the client
  readIDs,    \* replies that Read has seen
  buffer,     \* the reply that Read returned and the client has not got
  received,   \* what the client has received
  helper,     \* the goroutine of handleSubscription: the channel it waits on
  readBuffer, \* replies it has taken
  ctxDone,    \* the connection's context is cancelled
  sock,       \* the entry node's socket to the client
  client,     \* the client's end of it
  subscribed, \* relays that have the subscription
  reply,      \* each reply: when and where it was published, ...
  handed,     \* how often it was handed over
  now         \* the clock, in seconds

upVars == <<up, sent, log, since, relay>>
downVars == <<down, readIDs, buffer, received>>
helperVars == <<helper, readBuffer>>
closeVars == <<ctxDone, sock>>
outsideVars == <<client, subscribed, reply, now>>
vars == <<main, connected, upVars, downVars, helperVars, closeVars, outsideVars, handed>>

ReplyRecords == [stamp : 0..MaxTime, relay : Relays, kept : BOOLEAN, answer : BOOLEAN]

TypeOK ==
  /\ main \in {"dialing", "proxying", "returned"}
  /\ relay \in 1..(NRelays + 1)
  /\ connected \in SUBSET Relays
  /\ up \in {"none", "reading", "publishing", "ended", "failed"}
  /\ sent \in 0..MaxOut
  /\ log \in [Relays -> Seq(1..MaxOut)]
  /\ since \in 0..MaxTime \cup {NoSub}
  /\ down \in {"none", "polling", "writing", "ended"}
  /\ readIDs \in SUBSET Replies
  /\ buffer \in Seq(Replies)
  /\ received \in Seq(Replies)
  /\ helper \in {"started", "first", "subscription", "ended"}
  /\ readBuffer \in SUBSET Replies
  /\ ctxDone \in BOOLEAN
  /\ sock \in {"open", "closed"}
  /\ client \in {"open", "closed"}
  /\ subscribed \in SUBSET Relays
  /\ reply \in [Replies -> ReplyRecords \cup {Unsent}]
  /\ handed \in [Replies -> 0..MaxCopies]
  /\ now \in 0..MaxTime

(* NewConnection has run: WithSub has started the goroutine.               *)
Init ==
  /\ main = "dialing" /\ relay = 1 /\ connected = {}
  /\ up = "none" /\ sent = 0 /\ log = [r \in Relays |-> <<>>] /\ since = NoSub
  /\ down = "none" /\ readIDs = {} /\ buffer = <<>> /\ received = <<>>
  /\ helper = "started" /\ readBuffer = {}
  /\ ctxDone = FALSE /\ sock = "open" /\ client = "open"
  /\ subscribed = {}
  /\ reply = [n \in Replies |-> Unsent]
  /\ handed = [n \in Replies |-> 0]
  /\ now = 0

-----------------------------------------------------------------------------
(* DialSocks: the CONNECT is published on one relay after the other.       *)

DialPublishes ==
  /\ main = "dialing" /\ relay \in Relays
  /\ connected' = connected \cup {relay}
  /\ relay' = relay + 1
  /\ UNCHANGED <<main, up, sent, log, since, downVars, helperVars, closeVars, outsideVars, handed>>

(* EnsureRelay fails: continue with the next relay.                        *)
DialSkips ==
  /\ main = "dialing" /\ relay \in Relays
  /\ relay' = relay + 1
  /\ UNCHANGED <<main, connected, up, sent, log, since, downVars, helperVars, closeVars,
                 outsideVars, handed>>

(* Publish fails, perhaps after the relay has taken the CONNECT:           *)
(* handleConnect reports it and ServeConn closes the client's socket;      *)
(* nobody closes the connection.                                           *)
DialFails ==
  /\ main = "dialing" /\ relay \in Relays
  /\ connected' \in {connected, connected \cup {relay}}
  /\ main' = "returned"
  /\ sock' = "closed"
  /\ UNCHANGED <<upVars, downVars, helperVars, ctxDone, outsideVars, handed>>

(* handleConnect sends the success reply and starts the proxies.           *)
ReplySuccess ==
  /\ main = "dialing" /\ relay \notin Relays
  /\ main' = "proxying"
  /\ up' = "reading"
  /\ down' = "polling"
  /\ UNCHANGED <<connected, relay, sent, log, since, readIDs, buffer, received, helperVars,
                 closeVars, outsideVars, handed>>

(* The success reply cannot be written: the deferred calls close both ends. *)
ReplyFails ==
  /\ main = "dialing" /\ relay \notin Relays
  /\ client = "closed"
  /\ main' = "returned"
  /\ ctxDone' = TRUE /\ sock' = "closed"
  /\ UNCHANGED <<connected, upVars, downVars, helperVars, outsideVars, handed>>

(* One proxy has failed, or both have ended: handleConnect returns.        *)
Return ==
  /\ main = "proxying"
  /\ down = "ended" \/ up = "failed"
  /\ main' = "returned"
  /\ ctxDone' = TRUE /\ sock' = "closed"
  /\ UNCHANGED <<connected, upVars, downVars, helperVars, outsideVars, handed>>

-----------------------------------------------------------------------------
(* Proxy(target, conn): io.Copy from the client to NostrConnection.Write.  *)

(* Variant of CloseBoth that closes only the socket to the client.         *)
CloseSocketOnly ==
  /\ sock' = "closed"
  /\ UNCHANGED ctxDone

(* The end of Proxy: both ends are closed.                                 *)
CloseBoth ==
  /\ ctxDone' = TRUE
  /\ sock' = "closed"

(* Variant of Subscribe whose filter starts with the next second.          *)
SubscribeLater == since' = IF since = NoSub THEN now + 1 ELSE since

(* createSignedEvent: the first Write calls SubMany, with a filter from    *)
(* this second on; SubscribesAt says when a relay gets it.                 *)
Subscribe == since' = IF since = NoSub THEN now ELSE since

WriteStarts ==
  /\ up = "reading"
  /\ client = "open" /\ sock = "open" /\ sent < MaxOut
  /\ sent' = sent + 1
  /\ Subscribe
  /\ relay' = 1
  /\ up' = "publishing"
  /\ UNCHANGED <<main, connected, log, downVars, helperVars, closeVars, outsideVars, handed>>

(* Variant of WritePublishes whose loop goes one relay too far.            *)
WritePublishesPastEnd ==
  /\ up = "publishing" /\ relay <= NRelays + 1
  /\ log' = [log EXCEPT ![relay] = Append(@, sent)]
  /\ relay' = relay + 1
  /\ UNCHANGED <<main, connected, up, sent, since, downVars, helperVars, closeVars, outsideVars,
                 handed>>

WritePublishes ==
  /\ up = "publishing" /\ relay \in Relays
  /\ log' = [log EXCEPT ![relay] = Append(@, sent)]
  /\ relay' = relay + 1
  /\ UNCHANGED <<main, connected, up, sent, since, downVars, helperVars, closeVars, outsideVars,
                 handed>>

(* Variant of WriteFails that goes on with the next relay, as DialSocks    *)
(* does.                                                                   *)
WriteSkips ==
  /\ up = "publishing" /\ relay \in Relays
  /\ relay' = relay + 1
  /\ UNCHANGED <<main, connected, up, sent, log, since, downVars, helperVars, closeVars,
                 outsideVars, handed>>

(* EnsureRelay or Publish fails, and so does Write: relays earlier in the  *)
(* list have the event, this one may have taken it all the same, the later *)
(* ones do not have it.                                                    *)
WriteFails ==
  /\ up = "publishing" /\ relay \in Relays
  /\ log' \in {log, [log EXCEPT ![relay] = Append(@, sent)]}
  /\ up' = "failed"
  /\ CloseBoth
  /\ UNCHANGED <<main, connected, sent, since, relay, downVars, helperVars, outsideVars,
                 handed>>

WriteReturns ==
  /\ up = "publishing" /\ relay \notin Relays
  /\ up' = "reading"
  /\ UNCHANGED <<main, connected, sent, log, since, relay, downVars, helperVars, closeVars,
                 outsideVars, handed>>

(* The client has closed (no error) or the socket is closed (an error).    *)
ReadClientEnds ==
  /\ up = "reading"
  /\ client = "closed" \/ sock = "closed"
  /\ up' = IF sock = "closed" THEN "failed" ELSE "ended"
  /\ CloseBoth
  /\ UNCHANGED <<main, connected, sent, log, since, relay, downVars, helperVars, outsideVars,
                 handed>>

-----------------------------------------------------------------------------
(* The subscription.                                                       *)

Published(n) == reply[n] # Unsent

(* The filter of the subscription admits reply n.                          *)
InFilter(n) == since # NoSub /\ reply[n].stamp >= since

(* The relay of reply n hands it over to the subscription.                 *)
Matches(n) ==
  /\ Published(n) /\ reply[n].relay \in subscribed
  /\ reply[n].kept /\ InFilter(n)

Offered(n) == Matches(n) /\ handed[n] < MaxCopies

HandOver(n) == handed' = [handed EXCEPT ![n] = @ + 1]

-----------------------------------------------------------------------------
(* Proxy(conn, target): io.Copy from NostrConnection.Read to the client.   *)

(* Variant of TakeReply that does not look the reply up in readIDs.        *)
TakeReplyAgain(n) ==
  /\ readIDs' = readIDs \cup {n}
  /\ buffer' = <<n>>
  /\ down' = "writing"

(* Variant of TakeReply that keeps the id of a reply and not its data.     *)
TakeReplyEmpty(n) ==
  /\ readIDs' = readIDs \cup {n}
  /\ UNCHANGED <<buffer, down>>

(* handleNostrRead with an event: one it has read before is skipped.       *)
TakeReply(n) ==
  IF n \in readIDs
  THEN UNCHANGED <<readIDs, buffer, down>>
  ELSE /\ readIDs' = readIDs \cup {n}
       /\ buffer' = <<n>>
       /\ down' = "writing"

Read(n) ==
  /\ down = "polling"
  /\ Offered(n) /\ HandOver(n)
  /\ TakeReply(n)
  /\ UNCHANGED <<main, connected, upVars, received, helperVars, closeVars, outsideVars>>

ReadCancelled ==
  /\ down = "polling"
  /\ ctxDone
  /\ down' = "ended"
  /\ CloseBoth
  /\ UNCHANGED <<main, connected, upVars, readIDs, buffer, received, helperVars, outsideVars,
                 handed>>

WriteClient ==
  /\ down = "writing"
  /\ sock = "open"
  /\ received' = IF client = "open" THEN received \o buffer ELSE received
  /\ buffer' = <<>>
  /\ down' = "polling"
  /\ UNCHANGED <<main, connected, upVars, readIDs, helperVars, closeVars, outsideVars, handed>>

WriteClientFails ==
  /\ down = "writing"
  /\ sock = "closed" \/ client = "closed"
  /\ down' = "ended"
  /\ CloseBoth
  /\ UNCHANGED <<main, connected, upVars, readIDs, buffer, received, helperVars, outsideVars,
                 handed>>

-----------------------------------------------------------------------------
(* handleSubscription, started by WithSub.                                 *)

(* It evaluates nc.subscriptionChan; if Write has replaced it meanwhile,   *)
(* the data race lets it see the one or the other.                         *)
HelperSelects ==
  /\ helper = "started"
  /\ \/ helper' = "first"
     \/ since # NoSub /\ helper' = "subscription"
  /\ UNCHANGED <<main, connected, upVars, downVars, readBuffer, closeVars, outsideVars, handed>>

HelperTakes(n) ==
  /\ helper = "subscription"
  /\ Offered(n) /\ HandOver(n)
  /\ readBuffer' = readBuffer \cup {n}
  /\ UNCHANGED <<main, connected, upVars, downVars, helper, closeVars, outsideVars>>

HelperCancelled ==
  /\ helper \in {"first", "subscription"}
  /\ ctxDone
  /\ helper' = "ended"
  /\ UNCHANGED <<main, connected, upVars, downVars, readBuffer, closeVars, outsideVars, handed>>

-----------------------------------------------------------------------------
(* Outside.                                                                *)

ClientCloses ==
  /\ client = "open"
  /\ client' = "closed"
  /\ UNCHANGED <<main, connected, upVars, downVars, helperVars, closeVars, subscribed, reply, now,
                 handed>>

(* A goroutine of SubMany has reached its relay, on a connection of this   *)
(* pool, and the relay has the subscription.  Nobody waits for that.       *)
SubscribesAt(r) ==
  /\ since # NoSub /\ ~ ctxDone
  /\ r \notin subscribed
  /\ subscribed' = subscribed \cup {r}
  /\ UNCHANGED <<main, connected, upVars, downVars, helperVars, closeVars, client, reply, now,
                 handed>>

(* The exit node publishes the next reply on the relay that gave it the    *)
(* CONNECT; a relay that has the subscription hands it over, another may   *)
(* keep it until it has.  The reply is an answer if the exit node may have *)
(* seen data of the client.                                                *)
BackendReplies(n, r, kept) ==
  /\ r \in connected
  /\ ~ Published(n) /\ \A i \in 1..(n - 1) : Published(i)
  /\ r \in subscribed => kept
  /\ reply' = [reply EXCEPT ![n] =
                 [stamp |-> now, relay |-> r, kept |-> kept,
                  answer |-> \E q \in Relays : log[q] # <<>>]]
  /\ UNCHANGED <<main, connected, upVars, downVars, helperVars, closeVars, client, subscribed, now,
                 handed>>

Tick ==
  /\ now < MaxTime
  /\ now' = now + 1
  /\ UNCHANGED <<main, connected, upVars, downVars, helperVars, closeVars, client, subscribed,
                 reply, handed>>

-----------------------------------------------------------------------------
Main == DialPublishes \/ DialSkips \/ DialFails \/ ReplySuccess \/ ReplyFails \/ Return

Up == WriteStarts \/ WritePublishes \/ WriteFails \/ WriteReturns \/ ReadClientEnds

Down ==
  \/ \E n \in Replies : Read(n)
  \/ ReadCancelled \/ WriteClient \/ WriteClientFails

Helper ==
  \/ HelperSelects \/ HelperCancelled
  \/ \E n \in Replies : HelperTakes(n)

Outside ==
  \/ ClientCloses \/ Tick
  \/ \E r \in Relays : SubscribesAt(r)
  \/ \E n \in Replies, r \in Relays, kept \in BOOLEAN : BackendReplies(n, r, kept)

Next == Main \/ Up \/ Down \/ Helper \/ Outside

SafetySpec == Init /\ [][Next]_vars

(***************************************************************************)
(* Goroutines that can run do run; EnsureRelay and Publish return, with a  *)
(* result or an error; a matching event is handed over if somebody waits.  *)
(* Nothing is assumed of the client and the backend, nor that any relay    *)
(* ever gets the subscription.                                             *)
(***************************************************************************)
Fairness ==
  /\ WF_vars(Main)
  /\ WF_vars(WritePublishes \/ WriteFails) /\ WF_vars(WriteReturns)
  /\ WF_vars(ReadClientEnds)
  /\ \A n \in Replies : WF_vars(Read(n) \/ HelperTakes(n))
  /\ WF_vars(WriteClient \/ WriteClientFails)
  /\ WF_vars(HelperSelects)
  /\ SF_vars(ReadCancelled) /\ SF_vars(HelperCancelled)

Spec == SafetySpec /\ Fairness

-----------------------------------------------------------------------------
(* A Write that fails half-way leaves the relays at most one event apart,  *)
(* and nothing is written after it: each relay has a prefix of what the    *)
(* client sent, an earlier relay of the list at least as much as a later   *)
(* one (conn.go:236-249 with request.go:384-399).                          *)
RelaysInStep ==
  \A r \in Relays :
    /\ log[r] = [i \in 1..Len(log[r]) |-> i]
    /\ Len(log[r]) <= sent /\ sent <= Len(log[r]) + 1
    /\ \A q \in 1..r : Len(log[r]) <= Len(log[q])

(* The filter never hides an answer: whatever the exit node publishes      *)
(* after it may have seen data of the client is not older than Since,      *)
(* although Since is chosen at the first Write only.  An answer can be     *)
(* missed in one way only: its relay had not got the subscription, and did *)
(* not keep the event until then (conn.go:216-232).                        *)
AnswersPassFilter ==
  \A n \in Replies : Published(n) /\ reply[n].answer => InFilter(n)

(* A reply that its relay hands over to the subscription is read, by Read  *)
(* or by the goroutine of WithSub, unless the connection is closed         *)
(* meanwhile (conn.go:120-149, 415-430).                                   *)
RepliesRead ==
  \A n \in Replies :
    Matches(n) ~> n \in Range(received) \cup readBuffer \/ ctxDone \/ client = "closed"

(* When the client closes, both proxies, the goroutine of WithSub and      *)
(* handleConnect end (request.go:228-240, 384-399; conn.go:427-429).       *)
TeardownCompletes ==
  (main = "proxying" /\ client = "closed") ~>
    /\ up \in {"ended", "failed"} /\ down = "ended"
    /\ helper = "ended" /\ main = "returned"

ThisConn == [key |-> Key]
ReplyEvent(n) == [key |-> Key, seq |-> n]

Datagram == INSTANCE Datagrams
              WITH Conns <- {ThisConn},
                   Events <- {ReplyEvent(n) : n \in Replies},
                   offered <- {ReplyEvent(n) : n \in {i \in Replies : Published(i)}},
                   got <- [c \in {ThisConn} |->
                             [i \in 1..Len(received) |-> ReplyEvent(received[i])]],
                   closed <- IF sock = "closed" THEN {ThisConn} ELSE {}

(* The client gets the datagram service of Datagrams: each reply at most   *)
(* once, none before it was published and none after the close.            *)
ImplementsDatagrams == Datagram!DatagramSpec

(* What the comment on subscriptionChan says and the code does not do: the *)
(* events of the channel are read and processed by Read (conn.go:51-52),   *)
(* so that a reply that comes through it reaches the client.               *)
ReadGetsEvents ==
  \A n \in Replies :
    Matches(n) ~> n \in Range(received) \/ ctxDone \/ client = "closed"
=============================================================================
