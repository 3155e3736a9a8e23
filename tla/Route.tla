------------------------------- MODULE Route -------------------------------
(***************************************************************************)
(* Where a destination leads: the domain that an exit node prints          *)
(* (getDomain, exit/exit.go), what protocol.Parse makes of a destination   *)
(* (protocol/domain.go), to which key and relays an entry node sends its   *)
(* events (netstr/dial.go, parseDestination in netstr/conn.go), and what   *)
(* an exit node dials (processMessage, exit/exit.go).                      *)
(*                                                                         *)
(* A host name is a sequence of labels; a label has a text, which is       *)
(* either a word or what its base32 encoding stands for, and a length in   *)
(* characters.  Characters other than letters and digits are left out, and *)
(* every public suffix is one label: only names under .nostr are parsed,   *)
(* all others have been resolved to an address before.                     *)
(***************************************************************************)
EXTENDS Naturals, SequencesExt

CONSTANTS Urls,       \* relay URLs
          UrlLength,  \* and their lengths in bytes
          PubKeys,    \* public keys of exit nodes
          NoUrl,      \* the empty URL
          NoKey,      \* the empty public key
          Failed      \* an error

(* The key and the relays of an entry node's events.                       *)
Targets == [key : PubKeys \cup {NoKey}, relays : Seq(Urls \cup {NoUrl})]

ASSUME RouteAssumption ==
  /\ UrlLength \in [Urls -> Nat \ {0}]
  /\ NoUrl \notin Urls /\ NoKey \notin PubKeys /\ Failed \notin Targets

-----------------------------------------------------------------------------
(* Host names.                                                             *)

Word(text, len) == [text |-> text, len |-> len]
Nostr == Word("nostr", 5)

(* Characters of the unpadded base32 encoding of n bytes.                  *)
Base32Length(n) == (8 * n + 4) \div 5

UrlLabel(url) == Word(url, Base32Length(UrlLength[url]))
KeyLabel(key) == Word(key, Base32Length(32))

(* exit.getDomain: a label per relay, the key's, and the TLD.  With no     *)
(* relay the name begins with a dot, that is, an empty label.              *)
getDomain(relays, key) ==
  (IF relays = <<>> THEN <<Word("", 0)>>
   ELSE [i \in 1..Len(relays) |-> UrlLabel(relays[i])])
  \o <<KeyLabel(key), Nostr>>

(* The characters of a name, its dots included.                            *)
NameLength(labels) ==
  Len(labels) - 1 + SumFunction([i \in DOMAIN labels |-> labels[i].len])

(* Variant of IsDomainName that takes the limit of a label to be excluded. *)
IsDomainNameStrict(labels) ==
  /\ Len(labels) >= 2
  /\ NameLength(labels) <= 253
  /\ \A i \in 1..Len(labels) : labels[i].len \in 1..62

(* A name without a trailing dot: at least two labels of 1 to 63           *)
(* characters and 253 in all.                                              *)
IsDomainName(labels) ==
  /\ Len(labels) >= 2
  /\ NameLength(labels) <= 253
  /\ \A i \in 1..Len(labels) : labels[i].len \in 1..63

-----------------------------------------------------------------------------
(* Destinations, by what their text is.                                    *)

Domain(labels) == [type |-> "domain", labels |-> labels]
Address(ip) == [type |-> ip, labels |-> <<>>]              \* with its port
Profile(key, relays) == [type |-> "nprofile", key |-> key, relays |-> relays]
PubKey(key) == [type |-> "npub", key |-> key, relays |-> <<>>]
BadProfile == [type |-> "badprofile"]          \* begins with npub or nprofile
Public(ip) == [type |-> "public", ip |-> ip]   \* any other name: its address
NoHost == [type |-> "empty"]

Addresses == {"ipv4", "ipv6"}

(* protocol.Parse: an address, or a domain that has an eTLD and a label.   *)
(* A profile is a single label, which it refuses, as it does the empty     *)
(* string and a name with an empty label.                                  *)
Parses(host) ==
  \/ host.type \in Addresses
  \/ /\ host.type = "domain"
     /\ Len(host.labels) >= 2
     /\ \A i \in 1..Len(host.labels) : host.labels[i].len > 0

TLD(host) == IF host.type = "domain" THEN Last(host.labels).text ELSE ""
Name(host) == host.labels[Len(host.labels) - 1].text
SubName(host) == SubSeq(host.labels, 1, Len(host.labels) - 2)

-----------------------------------------------------------------------------
(* The entry node: the key and the relays of its events.                   *)

Target(key, relays) == [key |-> key, relays |-> relays]

(* The subdomains that are base32.  strings.Split of no subdomain is one   *)
(* empty string, which decodes to the empty URL.                           *)
DecodedRelays(labels) ==
  IF labels = <<>> THEN <<NoUrl>>
  ELSE LET decoded[n \in 0..Len(labels)] ==     \* of the first n subdomains
             IF n = 0 THEN <<>>
             ELSE IF labels[n].text \notin Urls THEN decoded[n - 1]
             ELSE Append(decoded[n - 1], labels[n].text)
       IN decoded[Len(labels)]

(* An IPv6 address keeps its brackets in url.Name, which net.ParseIP       *)
(* refuses.                                                                *)
parseDestinationDomain(host, targetPublicKey, defaultRelays) ==
  CASE ~ Parses(host) -> Failed
    [] host.type \in Addresses ->
         IF host.type = "ipv4" THEN Target(targetPublicKey, defaultRelays) ELSE Failed
    [] OTHER ->
         IF ~ IsDomainName(host.labels) THEN Failed
         ELSE IF TLD(host) # "nostr" THEN Target(targetPublicKey, defaultRelays)
         ELSE IF Name(host) \notin PubKeys THEN Failed
         ELSE Target(Name(host), DecodedRelays(SubName(host)))

(* NostrConnection.parseDestination *)
parseDestination(host, targetPublicKey, defaultRelays) ==
  CASE host.type \in {"npub", "nprofile"} -> Target(host.key, host.relays)
    [] host.type = "badprofile" -> Failed
    [] OTHER -> parseDestinationDomain(host, targetPublicKey, defaultRelays)

(* Variant of dialTarget that does not look at what Resolve has found.     *)
dialTargetUnresolved(host, targetPublicKey, defaultRelays) ==
  parseDestination(host, NoKey, defaultRelays)

(* DialSocks: the exit node that Resolve has found, or the destination's.  *)
dialTarget(host, targetPublicKey, defaultRelays) ==
  IF targetPublicKey # NoKey THEN Target(targetPublicKey, defaultRelays)
  ELSE parseDestination(host, targetPublicKey, defaultRelays)

(* AddrSpec.Address: what the name has been resolved to, if anything.      *)
RealAddress(host) == IF host.type = "public" THEN Address(host.ip) ELSE host

-----------------------------------------------------------------------------
(* The exit node.                                                          *)

Backend(key) == [type |-> "backend", key |-> key]

(* processMessage: its own backend for names under .nostr, otherwise the   *)
(* destination itself; a destination that Parse refuses is given up.       *)
routeAtExit(host, key) ==
  CASE ~ Parses(host) -> Failed
    [] Parses(host) /\ TLD(host) = "nostr" -> Backend(key)
    [] OTHER -> host

-----------------------------------------------------------------------------
(* What getDomain can encode in a host name.                               *)
Encodable(relays) ==
  /\ relays # <<>>
  /\ \A i \in 1..Len(relays) : UrlLength[relays[i]] <= 39
  /\ NameLength(getDomain(relays, NoKey)) <= 253
=============================================================================
