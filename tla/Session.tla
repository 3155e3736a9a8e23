------------------------------ MODULE Session ------------------------------
(***************************************************************************)
(* One SOCKS5 session of an entry node, from the client's first byte to    *)
(* the last: ServeConn (socks5/socks5.go), authenticate (socks5/auth.go),  *)
(* handleRequest and handleConnect (socks5/request.go) with DialSocks      *)
(* (netstr/dial.go), and what the exit node makes of the CONNECT           *)
(* (processMessage, exit/exit.go).  Destinations are those of Route.       *)
(*                                                                         *)
(* The client may send ahead: the handshake is read through a bufio.Reader *)
(* that takes as much from the socket as it can get, whereas Proxy reads   *)
(* the socket itself.  Messages arrive whole.  After the dial, the proxies *)
(* of relay mode are those of EntryConn, and the handshake with the exit   *)
(* node in reverse mode is that of ReverseConnect; both are one step here. *)
(***************************************************************************)
EXTENDS Route

CONSTANTS Configs,        \* configurations of the entry node
          RelayLists,     \* NOSTR_RELAYS of an exit node
          DefaultRelays,  \* NOSTR_RELAYS of the entry node
          Offers,         \* lists of methods that a client may offer
          Requests,       \* requests that it may make
          MaxSent,        \* messages that it sends
          None            \* not there yet

Replies == {"success", "ruleFailure", "networkUnreachable", "hostUnreachable",
            "connectionRefused", "commandNotSupported", "addrTypeNotSupported"}

ASSUME SessionAssumption ==
  /\ Configs \subseteq
       [credentials : BOOLEAN, permit : SUBSET {"connect", "bind", "associate"}, reverse : BOOLEAN]
  /\ RelayLists \subseteq Seq(Urls) /\ DefaultRelays \in Seq(Urls)
  /\ \A r \in Requests :
       /\ r.kind = "request"
       /\ r.host.type = "public" => r.host.ip \in Addresses
       /\ r.host.type = "domain" => r.host.labels \in Seq(Range(r.host.labels))
       /\ r.host.type \in {"npub", "nprofile"} =>
            r.host.key \in PubKeys /\ r.host.relays \in Seq(Urls)
  /\ MaxSent \in Nat /\ None \notin Replies \cup Targets

Hello(methods) == [kind |-> "hello", methods |-> methods]
Login(valid) == [kind |-> "login", valid |-> valid]
Request(command, host) == [kind |-> "request", command |-> command, host |-> host]
Data(n) == [kind |-> "data", n |-> n]
Malformed == [kind |-> "malformed"]     \* a wrong version, say

VARIABLES
  config,       \* the entry node: are credentials required, which commands
                \* do the rules permit, is PUBLIC_ADDRESS set (reverse mode)
  exitRelays,   \* the relays of each exit node
  client,       \* the client's end of the connection
  sent,         \* what the client has sent,
  wire,         \* what of it is still in the socket,
  bufConn,      \* what is in the bufio.Reader,
  handled,      \* and what the handshake has taken from there
  early,        \* the client has sent data before it got the success reply
  pc,           \* the goroutine of ServeConn
  asked,        \* the request
  targetKey,    \* targetPublicKey: the exit node that Resolve has found
  target,       \* publicKey and relays of DialSocks
  relay,        \* its loop over the relays
  published,    \* relays that have the CONNECT
  served,       \* what the exit node dials
  answer,       \* the reply to the request
  forwarded     \* what has been written to the target

clientVars == <<config, exitRelays, client, sent, early>>
dialVars == <<targetKey, target, relay, published>>
vars == <<clientVars, wire, bufConn, handled, pc, asked, dialVars, served, answer, forwarded>>

TypeOK ==
  /\ config \in Configs /\ exitRelays \in [PubKeys -> RelayLists]
  /\ client \in {"open", "closed"} /\ early \in BOOLEAN
  /\ pc \in {"greeting", "login", "request", "resolving", "switch", "dialing",
             "waiting", "proxying", "closed"}
  /\ asked \in Requests \cup {None}
  /\ targetKey \in PubKeys \cup {NoKey}
  /\ target \in Targets \cup {None}
  /\ target # None => relay \in 1..(Len(target.relays) + 1)
  /\ published \subseteq (IF target = None THEN {} ELSE DOMAIN target.relays)
  /\ answer \in Replies \cup {None}

Init ==
  /\ config \in Configs
  /\ exitRelays \in [PubKeys -> RelayLists]
  /\ client = "open" /\ sent = <<>> /\ early = FALSE
  /\ wire = <<>> /\ bufConn = <<>> /\ handled = <<>>
  /\ pc = "greeting" /\ asked = None
  /\ targetKey = NoKey /\ target = None /\ relay = 1 /\ published = {}
  /\ served = None /\ answer = None /\ forwarded = <<>>

-----------------------------------------------------------------------------
(* The client.                                                             *)

Rank == [hello |-> 1, login |-> 2, request |-> 3, data |-> 4, malformed |-> 5]

(* It sends the messages of the protocol in their order, perhaps without   *)
(* some of them and perhaps without waiting for the answers; what reaches  *)
(* a closed session is left out.                                           *)
ClientSends(m) ==
  /\ client = "open" /\ pc # "closed" /\ Len(sent) < MaxSent
  /\ sent # <<>> => \/ Rank[Last(sent).kind] < Rank[m.kind]
                    \/ Last(sent).kind = "data" /\ m.kind = "data"
  /\ sent' = Append(sent, m) /\ wire' = Append(wire, m)
  /\ early' = (early \/ (m.kind \in {"data", "malformed"} /\ answer # "success"))
  /\ UNCHANGED <<config, exitRelays, client, bufConn, handled, pc, asked, dialVars, served,
                 answer, forwarded>>

ClientCloses ==
  /\ client = "open"
  /\ client' = "closed"
  /\ UNCHANGED <<config, exitRelays, sent, early, wire, bufConn, handled, pc, asked, dialVars,
                 served, answer, forwarded>>

-----------------------------------------------------------------------------
(* The handshake.                                                          *)

Handshake == pc \in {"greeting", "login", "request"}

(* bufio.Reader.Read: an empty buffer takes what the socket has.           *)
Fill ==
  /\ Handshake /\ bufConn = <<>>
  /\ \E n \in 1..Len(wire) :
       /\ bufConn' = SubSeq(wire, 1, n)
       /\ wire' = SubSeq(wire, n + 1, Len(wire))
  /\ UNCHANGED <<clientVars, handled, pc, asked, dialVars, served, answer, forwarded>>

(* Variant of ReadMessage that wraps the socket in a new bufio.Reader for  *)
(* each message.                                                           *)
ReadMessageAnew(at) ==
  /\ pc = at /\ bufConn # <<>>
  /\ handled' = Append(handled, Head(bufConn))
  /\ bufConn' = <<>>
  /\ UNCHANGED <<clientVars, wire, dialVars, served, forwarded>>

ReadMessage(at) ==
  /\ pc = at /\ bufConn # <<>>
  /\ handled' = Append(handled, Head(bufConn))
  /\ bufConn' = Tail(bufConn)
  /\ UNCHANGED <<clientVars, wire, dialVars, served, forwarded>>

(* A write to the client, after which the session goes on as told.  When   *)
(* the client is gone it may fail, which ends the session.                 *)
WriteThen(next) == pc' \in {next} \cup (IF client = "closed" THEN {"closed"} ELSE {})

(* New: the only authenticator, as long as AuthMethods is not given.       *)
Method == IF config.credentials THEN "userpass" ELSE "noauth"

(* authenticate: one of the methods that the client offers is known.       *)
Usable(methods) == Method \in methods

(* GetAuthContext and authenticate.  What is not a greeting, or offers no  *)
(* usable method, ends the session; NoAuthAuthenticator is done with its   *)
(* own answer, UserPassAuthenticator goes on to read.                      *)
ReadGreeting ==
  /\ ReadMessage("greeting")
  /\ IF Head(bufConn).kind = "hello" /\ Usable(Head(bufConn).methods)
     THEN WriteThen(IF config.credentials THEN "login" ELSE "request")
     ELSE pc' = "closed"
  /\ UNCHANGED <<asked, answer>>

(* UserPassAuthenticator.Authenticate *)
ReadLogin ==
  /\ ReadMessage("login")
  /\ IF Head(bufConn).kind = "login" /\ Head(bufConn).valid
     THEN WriteThen("request")
     ELSE pc' = "closed"
  /\ UNCHANGED <<asked, answer>>

(* SendReply with an error; then ServeConn closes the connection.          *)
Refuse(code) ==
  /\ answer' \in {code} \cup (IF client = "closed" THEN {answer} ELSE {})
  /\ pc' = "closed"

(* NewRequest, and readAddrSpec for the type of the address.               *)
IsRequest(m) == m.kind = "request"
KnownAddrType(m) == m.host.type # "unknown"

(* GetRequest *)
ReadRequest ==
  LET m == Head(bufConn) IN
  /\ ReadMessage("request")
  /\ \/ ~ IsRequest(m) /\ pc' = "closed" /\ UNCHANGED <<asked, answer>>
     \/ /\ IsRequest(m) /\ ~ KnownAddrType(m)
        /\ Refuse("addrTypeNotSupported") /\ UNCHANGED asked
     \/ /\ IsRequest(m) /\ KnownAddrType(m)
        /\ asked' = m /\ pc' = "resolving" /\ UNCHANGED answer

(* Variant of ReadEnds for a Proxy that does not return at the end.        *)
ReadEndsHandshake ==
  /\ Handshake /\ bufConn = <<>> /\ wire = <<>> /\ client = "closed"
  /\ pc' = "closed"
  /\ UNCHANGED <<clientVars, wire, bufConn, handled, asked, dialVars, served, answer, forwarded>>

(* The end of the stream, in the handshake or in Proxy.                    *)
ReadEnds ==
  /\ (Handshake /\ bufConn = <<>>) \/ pc = "proxying"
  /\ wire = <<>> /\ client = "closed"
  /\ pc' = "closed"
  /\ UNCHANGED <<clientVars, wire, bufConn, handled, asked, dialVars, served, answer, forwarded>>

-----------------------------------------------------------------------------
(* handleRequest and handleConnect.                                        *)

readVars == <<clientVars, wire, bufConn, handled, asked, forwarded>>

(* Resolve: a name that is not one of NWS's own needs an address and an    *)
(* exit node that has announced itself; otherwise nothing is resolved.     *)
Resolve ==
  /\ pc = "resolving"
  /\ \/ /\ asked.host.type # "public"
        /\ pc' = "switch" /\ UNCHANGED <<targetKey, answer>>
     \/ /\ asked.host.type = "public"
        /\ targetKey' \in PubKeys /\ pc' = "switch" /\ UNCHANGED answer
     \/ /\ asked.host.type = "public"
        /\ Refuse("hostUnreachable") /\ UNCHANGED targetKey
  /\ UNCHANGED <<readVars, target, relay, published, served>>

(* Variant of Allowed for rules that nobody asks.                          *)
AllowedAlways == TRUE

(* PermitCommand.Allow *)
Allowed == asked.command \in config.permit

(* What DialSocks is called with; there is no rewriter.                    *)
Addr == RealAddress(asked.host)

(* handleConnect up to the loop of DialSocks.                              *)
HandleConnect ==
  LET t == dialTarget(Addr, targetKey, DefaultRelays) IN
  /\ pc = "switch" /\ asked.command = "connect"
  /\ \/ ~ Allowed /\ Refuse("ruleFailure") /\ UNCHANGED target
     \/ Allowed /\ t = Failed /\ Refuse("hostUnreachable") /\ UNCHANGED target
     \/ Allowed /\ t # Failed /\ target' = t /\ pc' = "dialing" /\ UNCHANGED answer
  /\ UNCHANGED <<readVars, targetKey, relay, published, served>>

(* handleBind and handleAssociate *)
HandleBindAssociate ==
  /\ pc = "switch" /\ asked.command \in {"bind", "associate"}
  /\ Refuse(IF Allowed THEN "commandNotSupported" ELSE "ruleFailure")
  /\ UNCHANGED <<readVars, dialVars, served>>

(* The default case of handleRequest, which does not ask the rules.        *)
HandleUnsupported ==
  /\ pc = "switch" /\ asked.command \notin {"connect", "bind", "associate"}
  /\ Refuse("commandNotSupported")
  /\ UNCHANGED <<readVars, dialVars, served>>

Dialing == pc = "dialing" /\ relay \in DOMAIN target.relays

(* Variant of DialPublishes whose loop goes one relay too far.             *)
DialPublishesPastEnd ==
  /\ pc = "dialing" /\ relay <= Len(target.relays) + 1 /\ target.key # NoKey
  /\ published' = published \cup {relay}
  /\ relay' = relay + 1
  /\ UNCHANGED <<readVars, pc, targetKey, target, served, answer>>

(* The relay takes the CONNECT.  Without a public key CreateSignedEvent    *)
(* fails; DialSocks does not look at the error and publishes an event that *)
(* is empty and not signed, which no relay takes.                          *)
DialPublishes ==
  /\ Dialing /\ target.relays[relay] # NoUrl /\ target.key # NoKey
  /\ published' = published \cup {relay}
  /\ relay' = relay + 1
  /\ UNCHANGED <<readVars, pc, targetKey, target, served, answer>>

(* EnsureRelay fails.                                                      *)
DialSkips ==
  /\ Dialing
  /\ relay' = relay + 1
  /\ UNCHANGED <<readVars, pc, targetKey, target, published, served, answer>>

(* Publish fails, perhaps after the relay has taken the CONNECT; the reply *)
(* depends on what the error says.                                         *)
DialFails ==
  /\ Dialing /\ target.relays[relay] # NoUrl
  /\ \/ published' = published
     \/ target.key # NoKey /\ published' = published \cup {relay}
  /\ \E code \in {"hostUnreachable", "connectionRefused", "networkUnreachable"} : Refuse(code)
  /\ UNCHANGED <<readVars, targetKey, target, relay, served>>

ReplySuccess ==
  /\ pc = "dialing" /\ ~ Dialing
  /\ WriteThen(IF config.reverse THEN "waiting" ELSE "proxying")
  /\ answer' = IF pc' = "closed" THEN answer ELSE "success"
  /\ UNCHANGED <<readVars, dialVars, served>>

(* The channel has the connection from the exit node.                      *)
ReceiveTarget ==
  /\ pc = "waiting" /\ served \notin {None, Failed}
  /\ pc' = "proxying"
  /\ UNCHANGED <<readVars, dialVars, served, answer>>

-----------------------------------------------------------------------------
(* The proxies.                                                            *)

(* NostrConnection.Write parses the destination again.                     *)
WriteTarget == parseDestination(Addr, targetKey, DefaultRelays)

(* Proxy(target, conn) takes data from the socket, not from bufConn.       *)
Forward ==
  /\ pc = "proxying" /\ wire # <<>>
  /\ wire' = Tail(wire)
  /\ IF ~ config.reverse /\ WriteTarget = Failed
     THEN pc' = "closed" /\ UNCHANGED forwarded
     ELSE forwarded' = Append(forwarded, Head(wire)) /\ UNCHANGED pc
  /\ UNCHANGED <<clientVars, bufConn, handled, asked, dialVars, served, answer>>

(* A Write fails, or the exit node's end has closed.                       *)
ProxyEnds ==
  /\ pc = "proxying"
  /\ pc' = "closed"
  /\ UNCHANGED <<readVars, dialVars, served, answer>>

-----------------------------------------------------------------------------
(* The exit node: a relay that it subscribes to hands the CONNECT over,    *)
(* and processMessage decides where it leads.  In reverse mode the exit    *)
(* node has also connected to the entry node.                              *)
Reaches(key) ==
  \E i \in published : target.key = key /\ target.relays[i] \in Range(exitRelays[key])

ExitHandles(key) ==
  /\ served = None /\ Reaches(key)
  /\ served' = routeAtExit(Addr, key)
  /\ UNCHANGED <<readVars, pc, dialVars, answer>>

-----------------------------------------------------------------------------
Client ==
  \/ \E methods \in Offers : ClientSends(Hello(methods))
  \/ \E valid \in BOOLEAN : ClientSends(Login(valid))
  \/ \E request \in Requests : ClientSends(request)
  \/ ClientSends(Data(Len(sent)))
  \/ ClientSends(Malformed)
  \/ ClientCloses

Server ==
  \/ Fill \/ ReadGreeting \/ ReadLogin \/ ReadRequest \/ ReadEnds
  \/ Resolve \/ HandleConnect \/ HandleBindAssociate \/ HandleUnsupported
  \/ DialPublishes \/ DialSkips \/ DialFails \/ ReplySuccess \/ ReceiveTarget
  \/ Forward

Next == Client \/ Server \/ ProxyEnds \/ \E key \in PubKeys : ExitHandles(key)

SafetySpec == Init /\ [][Next]_vars

(***************************************************************************)
(* The goroutine of the session runs; resolving, dialing and publishing    *)
(* come to an end.  Nothing is assumed of the client and the exit node.    *)
(***************************************************************************)
Spec == SafetySpec /\ WF_vars(Server)

-----------------------------------------------------------------------------
(* What the client has sent is handled, forwarded or still on its way, in  *)
(* order; and nothing stays behind in the bufio.Reader if the client has   *)
(* waited for the success reply, however much of the handshake it has sent *)
(* at once (socks5.go:196 with request.go:228).                            *)
StreamIntact ==
  pc # "closed" =>
    /\ handled \o bufConn \o forwarded \o wire = sent
    /\ pc = "proxying" /\ ~ early => bufConn = <<>>

Authenticated ==
  /\ Head(handled).kind = "hello"
  /\ config.credentials => \E i \in 1..Len(handled) : handled[i] = Login(TRUE)

(* An exit node dials only for a client that has logged in and is allowed  *)
(* to connect, and what that client has asked for: the backend of the node *)
(* whose key is in the name, or the address of a public name.              *)
DialsWhatWasAsked ==
  served \notin {None, Failed} =>
    /\ Authenticated
    /\ asked.command = "connect" /\ "connect" \in config.permit
    /\ \/ asked.host.type = "public" /\ served = Address(asked.host.ip)
       \/ asked.host.type = "domain" /\ served = Backend(Name(asked.host))

(* DialSocks and every later Write work out key and relays independently   *)
(* (dial.go:42-50, conn.go:166): Write finds those that have got the       *)
(* CONNECT, for every destination but a public name with an IPv6 address   *)
(* only, where it finds none (conn.go:293).                                *)
WriteAgreesWithDial ==
  pc = "proxying" => WriteTarget = IF Addr.type = "ipv6" THEN Failed ELSE target

PrintedHost(key) == Domain(getDomain(exitRelays[key], key))

(* The name that an exit node prints leads an entry node to its key and    *)
(* relays if and only if there are relays, no URL has more than 39 bytes   *)
(* and all fit in 253 characters (exit.go:133-151 with conn.go:286-329).   *)
PrintedDomainWorks ==
  \A key \in PubKeys :
    Encodable(exitRelays[key]) <=>
      dialTarget(PrintedHost(key), NoKey, DefaultRelays) = Target(key, exitRelays[key])

(* When the client closes, the session ends, unless it waits in reverse    *)
(* mode for an exit node that has not called back (request.go:223).        *)
SessionEnds ==
  client = "closed" ~>
    \/ pc = "closed"
    \/ pc = "waiting" /\ config.reverse /\ served \in {None, Failed}

(* What the README says and the code does not do: nprofiles are one of two *)
(* types of domain names that entry nodes resolve (README.md:24-26), so a  *)
(* CONNECT for one that reaches its exit node is served.                   *)
NamesServed == served # Failed
=============================================================================
