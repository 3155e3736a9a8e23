----------------------------- MODULE MCSession -----------------------------
(* A session for every configuration and every kind of destination.        *)
EXTENDS Session

MCUrls == {"ws://short", "wss://39", "wss://40"}
MCUrlLength == [u \in MCUrls |->
                  CASE u = "ws://short" -> 20 [] u = "wss://39" -> 39 [] OTHER -> 40]
MCPubKeys == {"key1"}
MCConfigs ==
  [credentials : BOOLEAN, permit : {{"connect", "bind", "associate"}}, reverse : BOOLEAN]
  \cup {[credentials |-> FALSE, permit |-> {}, reverse |-> FALSE]}
MCRelayLists ==
  {<<>>, <<"ws://short">>, <<"wss://39", "ws://short">>, <<"wss://40">>,
   <<"wss://39", "wss://39", "wss://39">>,
   <<"wss://39", "wss://39", "wss://39", "ws://short">>}
MCDefaultRelays == <<"ws://short">>
MCOffers == {{"noauth"}, {"noauth", "userpass"}, {"gssapi"}}

MCHosts ==
  {Domain(getDomain(relays, "key1")) : relays \in MCRelayLists}
  \cup {Domain(<<Word("www", 3), KeyLabel("key1"), Nostr>>),
        Domain(<<KeyLabel("key1"), Nostr>>), Domain(<<Word("service", 7), Nostr>>),
        Domain(<<Nostr>>),
        Profile("key1", <<"ws://short">>), PubKey("key1"), BadProfile,
        Public("ipv4"), Public("ipv6"), Address("ipv4"), Address("ipv6"), NoHost,
        [type |-> "unknown"]}

MCRequests ==
  {Request("connect", host) : host \in MCHosts}
  \cup {Request(command, Public("ipv4")) : command \in {"bind", "associate", "resolve"}}
=============================================================================
