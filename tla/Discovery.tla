------------------------------ MODULE Discovery ------------------------------
(***************************************************************************)
(* Public exit nodes: announceExitNode (exit/nostr.go) publishes an        *)
(* announcement on relay after relay, sleeps ten seconds, and starts over; *)
(* NostrDNS.Resolve (netstr/dns.go) asks the relays for an announcement of *)
(* the last ten seconds and takes the first.                               *)
(*                                                                         *)
(* Time is in seconds, and only ages are kept, so that runs may go on for  *)
(* ever.  An age above Old is Old: nobody accepts the event any more.  The *)
(* relays keep the latest announcement of a node (its kind is replaceable) *)
(* and hand out what matches the filter; clocks are taken to agree.        *)
(* NewExit connects to the relays once; announceExitNode uses these        *)
(* connections for ever, and one that is lost is not opened again.         *)
(***************************************************************************)
EXTENDS Naturals

CONSTANTS Nodes,       \* public exit nodes
          NRelays,     \* relays in the list of every node
          Ten,         \* seconds between announcements (10 in the code)
          MaxLatency,  \* seconds that publishing one announcement takes
          MaxWait,     \* seconds that a query takes
          NoNode       \* the query has not found a node

Relays == 1..NRelays
Old == Ten + MaxLatency + MaxWait + 1
Ages == 0..Old

ASSUME DiscoveryAssumption ==
  /\ NRelays \in Nat
  /\ Ten \in Nat \ {0} /\ MaxLatency \in Nat /\ MaxWait \in Nat
  /\ NoNode \notin Nodes

VARIABLES
  announcer,  \* the goroutine of announceExitNode of each node
  live,       \* e.relays, without those whose connection has been lost
  relay,      \* the loop over e.relays
  failed,     \* the relays on which publishing the current event failed
  eventAge,   \* seconds since the event being published was created
  slept,      \* seconds it has slept
  stored,     \* for each node and relay, the age of the announcement there
  downFor,    \* seconds since the node was last running
  query,      \* whether an entry node's Resolve is waiting for relays
  waited,     \* seconds since Resolve computed since
  answer      \* the node whose public key Resolve returned

nodeVars == <<announcer, live, relay, failed, eventAge, slept, stored, downFor>>
queryVars == <<query, waited, answer>>
vars == <<nodeVars, queryVars>>

TypeOK ==
  /\ announcer \in [Nodes -> {"down", "started", "announcing", "sleeping"}]
  /\ live \in [Nodes -> SUBSET Relays]
  /\ relay \in [Nodes -> 1..(NRelays + 1)]
  /\ failed \in [Nodes -> SUBSET Relays]
  /\ eventAge \in [Nodes -> 0..MaxLatency]
  /\ slept \in [Nodes -> 0..Ten]
  /\ stored \in [Nodes -> [Relays -> Ages]]
  /\ downFor \in [Nodes -> Ages]
  /\ query \in BOOLEAN
  /\ waited \in 0..MaxWait
  /\ answer \in Nodes \cup {NoNode}

Init ==
  /\ announcer = [n \in Nodes |-> "down"]
  /\ live = [n \in Nodes |-> {}]
  /\ relay = [n \in Nodes |-> 1]
  /\ failed = [n \in Nodes |-> {}]
  /\ eventAge = [n \in Nodes |-> 0]
  /\ slept = [n \in Nodes |-> 0]
  /\ stored = [n \in Nodes |-> [r \in Relays |-> Old]]
  /\ downFor = [n \in Nodes |-> Old]
  /\ query = FALSE /\ waited = 0 /\ answer = NoNode

-----------------------------------------------------------------------------
(* The exit node.                                                          *)

(* NewExit: e.relays are the relays of the list that can be connected;     *)
(* announceExitNode starts its goroutine.                                  *)
Start(n, connected) ==
  /\ announcer[n] = "down"
  /\ announcer' = [announcer EXCEPT ![n] = "started"]
  /\ live' = [live EXCEPT ![n] = connected]
  /\ downFor' = [downFor EXCEPT ![n] = 0]
  /\ UNCHANGED <<relay, failed, eventAge, slept, stored, queryVars>>

(* Variant of CreateEvent whose loop starts before the first relay.        *)
CreateEventBefore(n) ==
  /\ announcer[n] = "started" \/ (announcer[n] = "sleeping" /\ slept[n] = Ten)
  /\ announcer' = [announcer EXCEPT ![n] = "announcing"]
  /\ relay' = [relay EXCEPT ![n] = 0]
  /\ failed' = [failed EXCEPT ![n] = {}]
  /\ eventAge' = [eventAge EXCEPT ![n] = 0]
  /\ slept' = [slept EXCEPT ![n] = 0]
  /\ UNCHANGED <<live, stored, downFor, queryVars>>

(* The top of the loop, and the end of time.Sleep: a new event, created    *)
(* now, and signed with the key that NewExit has used already.             *)
CreateEvent(n) ==
  /\ announcer[n] = "started" \/ (announcer[n] = "sleeping" /\ slept[n] = Ten)
  /\ announcer' = [announcer EXCEPT ![n] = "announcing"]
  /\ relay' = [relay EXCEPT ![n] = 1]
  /\ failed' = [failed EXCEPT ![n] = {}]
  /\ eventAge' = [eventAge EXCEPT ![n] = 0]
  /\ slept' = [slept EXCEPT ![n] = 0]
  /\ UNCHANGED <<live, stored, downFor, queryVars>>

(* relay.Publish on the next relay, which then has the announcement.       *)
PublishSucceeds(n) ==
  LET r == relay[n] IN
  /\ r \in live[n]
  /\ stored' = [stored EXCEPT ![n][r] = eventAge[n]]
  /\ UNCHANGED failed

(* It returns an error: there is no connection any more, the relay refuses *)
(* the event, or its reply is lost or late; it may then have the event.    *)
PublishFails(n) ==
  LET r == relay[n] IN
  /\ failed' = [failed EXCEPT ![n] = @ \cup {r}]
  /\ \/ UNCHANGED stored
     \/ r \in live[n] /\ stored' = [stored EXCEPT ![n][r] = eventAge[n]]

(* Variant of PublishEvent that leaves the loop at the first error.        *)
PublishEventOrStop(n) ==
  /\ announcer[n] = "announcing" /\ relay[n] \in Relays
  /\ \/ PublishSucceeds(n) /\ relay' = [relay EXCEPT ![n] = @ + 1]
     \/ PublishFails(n) /\ relay' = [relay EXCEPT ![n] = NRelays + 1]
  /\ UNCHANGED <<announcer, live, eventAge, slept, downFor, queryVars>>

(* One turn of the loop: an error is logged and the loop goes on.  A relay *)
(* that was not connected at the start is not in the loop of the code; the *)
(* model lets it fail there.                                               *)
PublishEvent(n) ==
  /\ announcer[n] = "announcing" /\ relay[n] \in Relays
  /\ PublishSucceeds(n) \/ PublishFails(n)
  /\ relay' = [relay EXCEPT ![n] = @ + 1]
  /\ UNCHANGED <<announcer, live, eventAge, slept, downFor, queryVars>>

Sleep(n) ==
  /\ announcer[n] = "announcing" /\ relay[n] \notin Relays
  /\ announcer' = [announcer EXCEPT ![n] = "sleeping"]
  /\ eventAge' = [eventAge EXCEPT ![n] = 0]
  /\ UNCHANGED <<live, relay, failed, slept, stored, downFor, queryVars>>

LoseConnection(n, r) ==
  /\ r \in live[n]
  /\ live' = [live EXCEPT ![n] = @ \ {r}]
  /\ UNCHANGED <<announcer, relay, failed, eventAge, slept, stored, downFor, queryVars>>

Crash(n) ==
  /\ announcer[n] # "down"
  /\ announcer' = [announcer EXCEPT ![n] = "down"]
  /\ live' = [live EXCEPT ![n] = {}]
  /\ relay' = [relay EXCEPT ![n] = 1]
  /\ failed' = [failed EXCEPT ![n] = {}]
  /\ eventAge' = [eventAge EXCEPT ![n] = 0]
  /\ slept' = [slept EXCEPT ![n] = 0]
  /\ UNCHANGED <<stored, downFor, queryVars>>

-----------------------------------------------------------------------------
(* NostrDNS.Resolve of an entry node, for a name that is not a NWS name.   *)

(* since := now - ten seconds; the query is sent. *)
Resolve ==
  /\ ~ query
  /\ query' = TRUE /\ waited' = 0 /\ answer' = NoNode
  /\ UNCHANGED nodeVars

(* Variant of Matches without the filter and the check of created_at.      *)
MatchesAny(age) == age < Old

(* created_at >= since: the filter's condition, and the check of the code. *)
Matches(age) == age <= Ten + waited

(* QuerySingle returns the first event of any node that a relay hands out. *)
ResolveReturns(n) ==
  /\ query
  /\ \E r \in Relays : Matches(stored[n][r])
  /\ query' = FALSE /\ waited' = 0 /\ answer' = n
  /\ UNCHANGED nodeVars

(* No relay answers, or none has a matching event.                         *)
ResolveFails ==
  /\ query
  /\ query' = FALSE /\ waited' = 0 /\ answer' = NoNode
  /\ UNCHANGED nodeVars

-----------------------------------------------------------------------------
Older(age) == IF age < Old THEN age + 1 ELSE Old

(* A second passes.  Publishing an announcement and querying take at most  *)
(* MaxLatency and MaxWait, and time.Sleep wakes up when it should.         *)
Tick ==
  /\ \A n \in Nodes :
       /\ announcer[n] = "announcing" => eventAge[n] < MaxLatency
       /\ announcer[n] = "sleeping" => slept[n] < Ten
  /\ query => waited < MaxWait
  /\ eventAge' = [n \in Nodes |->
                    IF announcer[n] = "announcing" THEN eventAge[n] + 1 ELSE eventAge[n]]
  /\ slept' = [n \in Nodes |-> IF announcer[n] = "sleeping" THEN slept[n] + 1 ELSE slept[n]]
  /\ stored' = [n \in Nodes |-> [r \in Relays |-> Older(stored[n][r])]]
  /\ downFor' = [n \in Nodes |-> IF announcer[n] = "down" THEN Older(downFor[n]) ELSE 0]
  /\ waited' = IF query THEN waited + 1 ELSE waited
  /\ UNCHANGED <<announcer, live, relay, failed, query, answer>>

Announcer(n) == CreateEvent(n) \/ PublishEvent(n) \/ Sleep(n)

Next ==
  \/ \E n \in Nodes :
       \/ \E connected \in SUBSET Relays : Start(n, connected)
       \/ Announcer(n) \/ Crash(n) \/ ResolveReturns(n)
       \/ \E r \in Relays : LoseConnection(n, r)
  \/ Resolve \/ ResolveFails \/ Tick

SafetySpec == Init /\ [][Next]_vars

(* Time passes, and the goroutine of a running node goes on.               *)
Fairness ==
  /\ WF_vars(Tick)
  /\ WF_vars(ResolveFails)
  /\ \A n \in Nodes : WF_vars(Announcer(n))

Spec == SafetySpec /\ Fairness

-----------------------------------------------------------------------------
(* An entry node only learns of exit nodes that were running when it       *)
(* asked, or at most ten seconds before, whatever relays still store and   *)
(* however long an announcement was on its way (dns.go:39-49).             *)
ResolvedWasAlive ==
  [][\A n \in Nodes : (query /\ ~ query' /\ answer' = n) => downFor[n] <= Ten + waited]_vars

(* The window in which a running node is not found is no longer than       *)
(* publishing takes: between two announcements, a connected relay that did *)
(* not refuse the latest one has one that is at most ten seconds and that  *)
(* latency old (nostr.go:19-43), however many other relays have failed.    *)
GapBounded ==
  \A n \in Nodes : \A r \in live[n] \ failed[n] :
    announcer[n] = "sleeping" => stored[n][r] <= Ten + MaxLatency

(* A relay that stays connected, and on which publishing does not fail, is *)
(* announced to again and again: that another one is lost, refuses or is   *)
(* too late does not end that (the comment at nostr.go:39).                *)
AnnouncedWhileConnected ==
  \A n \in Nodes : \A r \in Relays :
    <>[](announcer[n] # "down" /\ r \in live[n] \ failed[n]) => []<>(stored[n][r] <= MaxLatency)
=============================================================================
