---------------------------- MODULE SessionProofs ----------------------------
(***************************************************************************)
(* A session, for every set of configurations, requests and relays:        *)
(* nothing of the client's stream is lost or reordered between the         *)
(* bufio.Reader of the handshake and Proxy, an exit node dials only what   *)
(* an authenticated client has asked for, and Write goes where DialSocks   *)
(* went; every variable keeps its type, and the names that exit nodes      *)
(* print lead to them.                                                     *)
(*                                                                         *)
(* That bufConn is empty when Proxy starts is a property of what the       *)
(* client sends: behind a request there is only data (OrderInv), and data  *)
(* is not sent before the success reply unless early is set (EarlyInv).    *)
(* DialsWhatWasAsked looks back from the exit node to the login and the    *)
(* request; AuthInv and DialInv carry both along.                          *)
(*                                                                         *)
(* What DecodedRelays returns is shown by induction over its loop, with a  *)
(* set in the place of a predicate (SetInduction).                         *)
(***************************************************************************)
EXTENDS Session, TLAPS, WellFoundedInduction

Messages ==
  {Hello(methods) : methods \in Offers} \cup {Login(valid) : valid \in BOOLEAN}
  \cup Requests \cup {Data(n) : n \in Nat} \cup {Malformed}

Dialed == {"dialing", "waiting", "proxying"}
Asked == {"resolving", "switch"} \cup Dialed

TypeInv ==
  /\ config \in Configs
  /\ client \in {"open", "closed"} /\ early \in BOOLEAN
  /\ pc \in {"greeting", "login", "request", "closed"} \cup Asked
  /\ answer \in Replies \cup {None}
  /\ {sent, wire, bufConn, handled, forwarded} \subseteq Seq(Messages)
  /\ targetKey \in PubKeys \cup {NoKey}

StreamInv ==
  /\ pc # "closed" => handled \o bufConn \o forwarded \o wire = sent
  /\ pc \notin {"proxying", "closed"} => forwarded = <<>>

(* The messages come in the order of the protocol.                         *)
OrderInv ==
  \A i, j \in 1..Len(sent) :
    i < j => \/ Rank[sent[i].kind] < Rank[sent[j].kind]
             \/ sent[j].kind = "data" /\ Rank[sent[i].kind] <= 4

EarlyInv ==
  /\ ~ early /\ answer # "success" =>
       \A i \in 1..Len(sent) : sent[i].kind \notin {"data", "malformed"}
  /\ answer = "success" => pc \in {"waiting", "proxying", "closed"}
  /\ pc \in Asked /\ ~ early => bufConn = <<>>

(* What is known when the loop of DialSocks is reached, and from then on   *)
(* as long as some relay has the CONNECT.                                  *)
DialInv ==
  /\ pc \in {"greeting", "login", "request", "resolving"} => targetKey = NoKey
  /\ pc \in {"greeting", "login", "request", "resolving", "switch"} => published = {}
  /\ pc \in Asked =>
       asked \in Requests /\ (targetKey # NoKey => asked.host.type = "public")
  /\ pc \in Dialed \/ published # {} =>
       /\ asked \in Requests
       /\ target = dialTarget(Addr, targetKey, DefaultRelays) /\ target # Failed
       /\ asked.command = "connect" /\ Allowed
       /\ targetKey # NoKey => asked.host.type = "public"

AuthInv ==
  /\ pc = "greeting" => handled = <<>>
  /\ pc \in {"login", "request"} \cup Asked \/ published # {} =>
       handled # <<>> /\ Head(handled).kind = "hello"
  /\ (pc \in {"request"} \cup Asked \/ published # {}) /\ config.credentials =>
       \E i \in 1..Len(handled) : handled[i] = Login(TRUE)

ServedInv == served # None => published # {}

IInv ==
  /\ TypeInv
  /\ StreamInv
  /\ OrderInv
  /\ EarlyInv
  /\ DialInv
  /\ AuthInv
  /\ ServedInv
  /\ DialsWhatWasAsked

Before == {"greeting", "login", "request", "resolving", "switch"}

(* What TypeOK says beyond TypeInv, and that the loop of DialSocks has not *)
(* begun before handleConnect.                                             *)
DialTypes ==
  /\ exitRelays \in [PubKeys -> RelayLists]
  /\ asked \in Requests \cup {None}
  /\ target \in Targets \cup {None}
  /\ target # None => relay \in 1..(Len(target.relays) + 1)
  /\ published \subseteq (IF target = None THEN {} ELSE DOMAIN target.relays)
  /\ pc \in Before => relay = 1
  /\ pc \in Dialed => target # None

-----------------------------------------------------------------------------
(* Induction over numbers, with a set in place of a predicate: the library *)
(* has it for predicates, which the provers cannot instantiate.            *)
(* A set of numbers that is not empty has a least element.                 *)
LEMMA NatLeast ==
  ASSUME NEW T \in SUBSET Nat, T # {}
  PROVE  \E x \in T : \A y \in T : ~ (y < x)
<1> DEFINE R == {p \in Nat \X Nat : p[1] < p[2]}
<1>1. IsWellFoundedOn(OpToRel(<, Nat), Nat)
  BY NatLessThanWellFounded
<1>2. OpToRel(<, Nat) = R
  BY DEF OpToRel
<1>3. IsWellFoundedOn(R, Nat)
  BY <1>1, <1>2
<1> HIDE DEF R
<1>4. \E x \in T : \A y \in T : ~ (<<y, x>> \in R)
  BY <1>3, WFMin
<1> QED
  BY <1>4 DEF R

(* A set with 0 and the successor of each of its numbers has all numbers.  *)
LEMMA SetInduction ==
  ASSUME NEW S, 0 \in S, \A n \in Nat : n \in S => n + 1 \in S
  PROVE  \A n \in Nat : n \in S
<1> SUFFICES ASSUME Nat \ S # {}
             PROVE  FALSE
  OBVIOUS
<1>1. PICK x \in Nat \ S : \A y \in Nat \ S : ~ (y < x)
  BY NatLeast
<1>2. x # 0 /\ x - 1 \in Nat
  OBVIOUS
<1>3. x - 1 \in S
  BY <1>1, <1>2
<1> QED
  BY <1>2, <1>3

(* One turn of the loop over the subdomains, and the results of the first  *)
(* m turns, of which DecodedRelays is the last.                            *)
DecodeNext(labels, n, before) ==
  IF labels[n].text \notin Urls THEN before ELSE Append(before, labels[n].text)

Decoding(d, labels, m) ==
  [n \in 0..m |-> IF n = 0 THEN <<>> ELSE DecodeNext(labels, n, d[n - 1])]

(* The loop has a result for every number of turns.                        *)
LEMMA DecodedPrefix ==
  ASSUME NEW labels
  PROVE  \A m \in Nat : \E d : d = Decoding(d, labels, m)
<1> DEFINE S == {m \in Nat : \E d : d = Decoding(d, labels, m)}
<1>1. 0 \in S
  <2>1. [n \in 0..0 |-> <<>>] = Decoding([n \in 0..0 |-> <<>>], labels, 0)
    BY DEF Decoding
  <2> QED
    BY <2>1
<1>2. ASSUME NEW m \in Nat, m \in S
      PROVE  m + 1 \in S
  <2>1. PICK d : d = Decoding(d, labels, m)
    BY <1>2
  <2> DEFINE e == [n \in 0..(m + 1) |-> IF n = m + 1 THEN DecodeNext(labels, n, d[m]) ELSE d[n]]
  <2>2. ASSUME NEW n \in 0..(m + 1)
        PROVE  e[n] = IF n = 0 THEN <<>> ELSE DecodeNext(labels, n, e[n - 1])
    <3>1. CASE n = m + 1
      BY <3>1
    <3>2. CASE n # m + 1
      <4>1. n \in 0..m /\ e[n] = d[n]
        BY <3>2
      <4>2. d[n] = IF n = 0 THEN <<>> ELSE DecodeNext(labels, n, d[n - 1])
        BY <2>1, <4>1 DEF Decoding
      <4>3. n # 0 => e[n - 1] = d[n - 1]
        BY <4>1
      <4> QED
        BY <4>1, <4>2, <4>3
    <3> QED
      BY <3>1, <3>2
  <2>3. e = Decoding(e, labels, m + 1)
    <3>1. e = [n \in 0..(m + 1) |-> e[n]]
      OBVIOUS
    <3> HIDE DEF e
    <3> QED
      BY <2>2, <3>1 DEF Decoding
  <2> HIDE DEF e
  <2>4. \E x : x = Decoding(x, labels, m + 1)
    BY <2>3
  <2> QED
    BY <2>4
<1> HIDE DEF S
<1>3. \A m \in Nat : m \in S
  BY <1>1, <1>2, SetInduction
<1> QED
  BY <1>3 DEF S

(* DecodedRelays is the last value of a function that satisfies its        *)
(* recursive equation.                                                     *)
LEMMA DecodedRelaysIs ==
  ASSUME NEW L, NEW labels \in Seq(L), labels # <<>>
  PROVE  \E d : /\ d = Decoding(d, labels, Len(labels))
                /\ DecodedRelays(labels) = d[Len(labels)]
<1> DEFINE F(d) == Decoding(d, labels, Len(labels))
<1>1. \E d : d = F(d)
  <2>1. Len(labels) \in Nat
    OBVIOUS
  <2> QED
    BY <2>1, DecodedPrefix
<1>2. (CHOOSE d : d = F(d)) = F(CHOOSE d : d = F(d))
  BY <1>1
<1>3. DecodedRelays(labels) = (CHOOSE d : d = F(d))[Len(labels)]
  BY DEF DecodedRelays, DecodeNext, Decoding
<1> QED
  BY <1>2, <1>3

(* It is a list of URLs; when all subdomains are URLs, it has them all, in *)
(* their order.                                                            *)
LEMMA DecodedRelaysType ==
  ASSUME NEW L, NEW labels \in Seq(L)
  PROVE  /\ DecodedRelays(labels) \in Seq(Urls \cup {NoUrl})
         /\ labels # <<>> /\ (\A i \in 1..Len(labels) : labels[i].text \in Urls)
              => DecodedRelays(labels) = [i \in 1..Len(labels) |-> labels[i].text]
<1>1. CASE labels = <<>>
  BY <1>1 DEF DecodedRelays
<1>2. CASE labels # <<>>
  <2>1. PICK d : /\ d = Decoding(d, labels, Len(labels))
                 /\ DecodedRelays(labels) = d[Len(labels)]
    BY <1>2, DecodedRelaysIs
  <2>2. Len(labels) \in Nat
    OBVIOUS
  <2>3. /\ d[0] = <<>>
        /\ \A n \in 1..Len(labels) : d[n] = DecodeNext(labels, n, d[n - 1])
    BY <2>1, <2>2 DEF Decoding
  <2> DEFINE S == {n \in Nat : n <= Len(labels) => d[n] \in Seq(Urls)}
  <2>4. \A n \in Nat : n \in S
    <3>1. 0 \in S
      <4>1. <<>> \in Seq(Urls)
        OBVIOUS
      <4> QED
        BY <2>3, <4>1
    <3>2. ASSUME NEW n \in Nat, n \in S
          PROVE  n + 1 \in S
      <4>1. SUFFICES ASSUME n + 1 <= Len(labels)
                     PROVE  d[n + 1] \in Seq(Urls)
        OBVIOUS
      <4>2. d[n] \in Seq(Urls) /\ d[n + 1] = DecodeNext(labels, n + 1, d[n])
        BY <2>2, <2>3, <3>2, <4>1
      <4> QED
        BY <4>2 DEF DecodeNext
    <3> HIDE DEF S
    <3> QED
      BY <3>1, <3>2, SetInduction
  <2>5. DecodedRelays(labels) \in Seq(Urls \cup {NoUrl})
    BY <2>1, <2>2, <2>4
  <2>6. ASSUME \A i \in 1..Len(labels) : labels[i].text \in Urls
        PROVE  DecodedRelays(labels) = [i \in 1..Len(labels) |-> labels[i].text]
    <3> DEFINE T == {n \in Nat : n <= Len(labels) => d[n] = [i \in 1..n |-> labels[i].text]}
    <3>1. 0 \in T
      BY <2>3
    <3>2. ASSUME NEW n \in Nat, n \in T
          PROVE  n + 1 \in T
      <4>1. SUFFICES ASSUME n + 1 <= Len(labels)
                     PROVE  d[n + 1] = [i \in 1..(n + 1) |-> labels[i].text]
        OBVIOUS
      <4>2. d[n] = [i \in 1..n |-> labels[i].text] /\ n + 1 \in 1..Len(labels)
        BY <2>2, <3>2, <4>1
      <4>3. labels[n + 1].text \in Urls /\ d[n + 1] = Append(d[n], labels[n + 1].text)
        <5>1. labels[n + 1].text \in Urls /\ (n + 1) - 1 = n
          BY <2>6, <4>2
        <5>2. d[n + 1] = DecodeNext(labels, n + 1, d[(n + 1) - 1])
          BY <2>3, <4>2
        <5> QED
          BY <5>1, <5>2 DEF DecodeNext
      <4>4. d[n] \in Seq(Urls) /\ Len(d[n]) = n
        BY <2>2, <2>4, <4>1, <4>2
      <4>5. /\ Append(d[n], labels[n + 1].text) \in Seq(Urls)
            /\ Len(Append(d[n], labels[n + 1].text)) = n + 1
        BY <4>3, <4>4
      <4>6. \A i \in 1..(n + 1) : Append(d[n], labels[n + 1].text)[i] = labels[i].text
        BY <4>2, <4>4
      <4> QED
        BY <4>3, <4>5, <4>6
    <3>3. \A n \in Nat : n \in T
      <4> HIDE DEF T
      <4> QED
        BY <3>1, <3>2, SetInduction
    <3> QED
      BY <2>1, <2>2, <3>3
  <2> QED
    BY <1>2, <2>5, <2>6
<1> QED
  BY <1>1, <1>2

(* 39 bytes are the most that fit in a label of 63 characters.             *)
LEMMA Base32Limits ==
  /\ \A n \in Nat : Base32Length(n) \in Nat /\ (Base32Length(n) <= 63 <=> n <= 39)
  /\ \A n \in Nat \ {0} : Base32Length(n) >= 1
  /\ Base32Length(32) = 52
  BY DEF Base32Length

(* The labels that getDomain prints.                                       *)
LEMMA PrintedLabels ==
  ASSUME NEW relays \in Seq(Urls), relays # <<>>, NEW key
  PROVE  /\ Len(relays) \in Nat \ {0}
         /\ getDomain(relays, key) =
              [i \in 1..(Len(relays) + 2) |->
                 IF i <= Len(relays) THEN UrlLabel(relays[i])
                 ELSE IF i = Len(relays) + 1 THEN KeyLabel(key) ELSE Nostr]
         /\ Len(getDomain(relays, key)) = Len(relays) + 2
         /\ SubSeq(getDomain(relays, key), 1, Len(relays)) =
              [i \in 1..Len(relays) |-> UrlLabel(relays[i])]
<1> DEFINE n == Len(relays)
           front == [i \in 1..n |-> UrlLabel(relays[i])]
           back == <<KeyLabel(key), Nostr>>
           L == [i \in 1..(n + 2) |->
                 IF i <= n THEN UrlLabel(relays[i])
                 ELSE IF i = n + 1 THEN KeyLabel(key) ELSE Nostr]
           A == {UrlLabel(u) : u \in Urls} \cup {KeyLabel(key), Nostr}
<1>1. n \in Nat \ {0}
  OBVIOUS
<1>2. front \in Seq(A) /\ Len(front) = n /\ back \in Seq(A) /\ Len(back) = 2
  BY <1>1
<1>3. getDomain(relays, key) = front \o back
  BY DEF getDomain
<1> HIDE DEF A
<1>4. /\ front \o back \in Seq(A) /\ Len(front \o back) = n + 2
      /\ \A i \in 1..(n + 2) : (front \o back)[i] = IF i <= n THEN front[i] ELSE back[i - n]
  BY <1>1, <1>2
<1>5. front \o back = L
  <2>1. ASSUME NEW i \in 1..(n + 2)
        PROVE  (front \o back)[i] = L[i]
    <3>1. CASE i <= n
      BY <1>1, <1>4, <3>1
    <3>2. CASE i = n + 1
      BY <1>1, <1>4, <3>2
    <3>3. CASE i = n + 2
      BY <1>1, <1>4, <3>3
    <3> QED
      BY <1>1, <3>1, <3>2, <3>3
  <2> QED
    BY <1>4, <2>1
<1>6. SubSeq(L, 1, n) = front
  BY <1>1
<1> QED
  BY <1>1, <1>3, <1>4, <1>5, <1>6

LEMMA WordFields ==
  \A text, len : Word(text, len).text = text /\ Word(text, len).len = len
  BY DEF Word

(* A name that begins with a dot is not parsed.                            *)
LEMMA EmptyLabel ==
  ASSUME NEW first, NEW second, NEW third, first.len = 0
  PROVE  ~ Parses(Domain(<<first>> \o <<second, third>>))
<1> DEFINE labels == <<first>> \o <<second, third>>
<1>1. Len(labels) = 3 /\ labels[1] = first
  OBVIOUS
<1> HIDE DEF labels
<1>2. labels[1].len = 0
  BY <1>1
<1>3. ~ (\A i \in 1..Len(labels) : labels[i].len > 0)
  BY <1>1, <1>2
<1>4. Domain(labels).type = "domain" /\ Domain(labels).labels = labels
  BY DEF Domain
<1>5. ~ Parses(Domain(labels))
  BY <1>3, <1>4 DEF Parses, Addresses
<1> QED
  BY <1>5 DEF labels

(* parseDestination is the inverse of getDomain where the name is valid,   *)
(* and fails where it is not.                                              *)
LEMMA PrintedRoute ==
  ASSUME NEW relays \in Seq(Urls), NEW key \in PubKeys
  PROVE  Encodable(relays) <=>
           dialTarget(Domain(getDomain(relays, key)), NoKey, DefaultRelays) = Target(key, relays)
<1> DEFINE labels == getDomain(relays, key)
           host == Domain(labels)
           n == Len(relays)
<1>1. /\ host.type = "domain" /\ host.labels = labels
      /\ dialTarget(host, NoKey, DefaultRelays) =
           parseDestinationDomain(host, NoKey, DefaultRelays)
  BY DEF Domain, dialTarget, parseDestination
<1>a. Failed # Target(key, relays)
  <2>1. Target(key, relays) \in Targets
    BY DEF Target, Targets
  <2> QED
    BY <2>1, RouteAssumption DEF RouteAssumption
<1>2. CASE relays = <<>>
  <2>1. labels = <<Word("", 0)>> \o <<KeyLabel(key), Nostr>>
    BY <1>2 DEF getDomain
  <2>2. ~ Parses(host)
    BY <2>1, WordFields, EmptyLabel
  <2>3. parseDestinationDomain(host, NoKey, DefaultRelays) = Failed
    BY <1>1, <2>2 DEF parseDestinationDomain, Addresses
  <2> QED
    BY <1>1, <1>2, <1>a, <2>3 DEF Encodable, host
<1>3. CASE relays # <<>>
  <2>1. /\ n \in Nat \ {0} /\ Len(labels) = n + 2
        /\ labels = [i \in 1..(n + 2) |->
                       IF i <= n THEN UrlLabel(relays[i])
                       ELSE IF i = n + 1 THEN KeyLabel(key) ELSE Nostr]
        /\ SubSeq(labels, 1, n) = [i \in 1..n |-> UrlLabel(relays[i])]
    BY <1>3, PrintedLabels
  <2> HIDE DEF labels
  <2>2. /\ labels[n + 1] = KeyLabel(key) /\ labels[n + 2] = Nostr
        /\ \A i \in 1..n : labels[i] = UrlLabel(relays[i])
    BY <2>1
  <2>3. /\ labels[n + 1].text = key /\ labels[n + 1].len = 52
        /\ labels[n + 2].text = "nostr" /\ labels[n + 2].len = 5
        /\ \A i \in 1..n : /\ labels[i].text = relays[i]
                           /\ labels[i].len = Base32Length(UrlLength[relays[i]])
    <3>1. labels[n + 1].text = key /\ labels[n + 1].len = 52
      BY <2>2, Base32Limits DEF KeyLabel, Word
    <3>2. labels[n + 2].text = "nostr" /\ labels[n + 2].len = 5
      BY <2>2 DEF Nostr, Word
    <3>3. ASSUME NEW i \in 1..n
          PROVE  /\ labels[i].text = relays[i]
                 /\ labels[i].len = Base32Length(UrlLength[relays[i]])
      BY <2>2, WordFields DEF UrlLabel
    <3> QED
      BY <3>1, <3>2, <3>3
  <2>4. \A i \in 1..n : relays[i] \in Urls /\ UrlLength[relays[i]] \in Nat \ {0}
    BY RouteAssumption DEF RouteAssumption
  <2>5. /\ \A i \in 1..n : /\ labels[i].len \in Nat /\ labels[i].len >= 1
                           /\ labels[i].len <= 63 <=> UrlLength[relays[i]] <= 39
        /\ \A i \in 1..(n + 2) : i \in 1..n \/ i = n + 1 \/ i = n + 2
    <3>1. ASSUME NEW i \in 1..n
          PROVE  /\ labels[i].len \in Nat /\ labels[i].len >= 1
                 /\ labels[i].len <= 63 <=> UrlLength[relays[i]] <= 39
      <4>1. UrlLength[relays[i]] \in Nat \ {0}
        BY <2>4
      <4>2. labels[i].len = Base32Length(UrlLength[relays[i]])
        BY <2>3
      <4>3. /\ Base32Length(UrlLength[relays[i]]) \in Nat
            /\ Base32Length(UrlLength[relays[i]]) >= 1
            /\ Base32Length(UrlLength[relays[i]]) <= 63 <=> UrlLength[relays[i]] <= 39
        BY <4>1, Base32Limits
      <4> QED
        BY <4>2, <4>3
    <3>2. \A i \in 1..(n + 2) : i \in 1..n \/ i = n + 1 \/ i = n + 2
      <4>1. n \in Nat
        BY <2>1
      <4> QED
        BY <4>1
    <3> QED
      BY <3>1, <3>2
  <2>6. Parses(host)
    <3>1. \A i \in 1..(n + 2) : labels[i].len > 0
      BY <2>3, <2>5
    <3> QED
      BY <1>1, <2>1, <3>1 DEF Parses
  <2>7. NameLength(labels) = NameLength(getDomain(relays, NoKey))
    <3> DEFINE other == getDomain(relays, NoKey)
    <3>1. /\ Len(other) = n + 2
          /\ other = [i \in 1..(n + 2) |->
                       IF i <= n THEN UrlLabel(relays[i])
                       ELSE IF i = n + 1 THEN KeyLabel(NoKey) ELSE Nostr]
      BY <1>3, PrintedLabels
    <3>2. DOMAIN labels = 1..(n + 2) /\ DOMAIN other = 1..(n + 2)
      BY <2>1, <3>1
    <3>3. \A i \in 1..(n + 2) : labels[i].len = other[i].len
      BY <2>1, <3>1 DEF KeyLabel, Word
    <3>4. [i \in DOMAIN labels |-> labels[i].len] = [i \in DOMAIN other |-> other[i].len]
      BY <3>2, <3>3
    <3> HIDE DEF other
    <3> QED
      BY <2>1, <3>1, <3>4 DEF NameLength, other
  <2>8. IsDomainName(labels) <=> Encodable(relays)
    <3>1. (\A i \in 1..(n + 2) : labels[i].len \in 1..63) <=>
            \A i \in 1..n : UrlLength[relays[i]] <= 39
      <4>1. ASSUME \A i \in 1..(n + 2) : labels[i].len \in 1..63, NEW i \in 1..n
            PROVE  UrlLength[relays[i]] <= 39
        <5>1. i \in 1..(n + 2)
          BY <2>1
        <5>2. labels[i].len \in 1..63
          BY <4>1, <5>1
        <5>3. labels[i].len <= 63 <=> UrlLength[relays[i]] <= 39
          BY <2>5, <4>1
        <5>4. \A x \in 1..63 : x <= 63
          OBVIOUS
        <5>5. labels[i].len <= 63
          BY <5>2, <5>4
        <5> QED
          BY <5>3, <5>5
      <4>2. ASSUME \A i \in 1..n : UrlLength[relays[i]] <= 39, NEW i \in 1..(n + 2)
            PROVE  labels[i].len \in 1..63
        <5>1. CASE i \in 1..n
          <6>1. UrlLength[relays[i]] <= 39
            BY <4>2, <5>1
          <6>2. /\ labels[i].len \in Nat /\ labels[i].len >= 1
                /\ labels[i].len <= 63 <=> UrlLength[relays[i]] <= 39
            BY <2>5, <5>1
          <6>3. labels[i].len <= 63
            BY <6>1, <6>2
          <6>4. \A x \in Nat : x >= 1 /\ x <= 63 => x \in 1..63
            OBVIOUS
          <6> QED
            BY <6>2, <6>3, <6>4
        <5>2. CASE i = n + 1
          BY <2>3, <5>2
        <5>3. CASE i = n + 2
          BY <2>3, <5>3
        <5> QED
          BY <2>5, <4>2, <5>1, <5>2, <5>3
      <4> QED
        BY <4>1, <4>2
    <3>2. Len(labels) >= 2
      BY <2>1
    <3> QED
      BY <1>3, <2>1, <2>7, <3>1, <3>2 DEF IsDomainName, Encodable
  <2>9. TLD(host) = "nostr" /\ Name(host) = key
    BY <1>1, <2>1, <2>3 DEF TLD, Name, Last
  <2>10. DecodedRelays(SubName(host)) = relays
    <3> DEFINE sub == [i \in 1..n |-> UrlLabel(relays[i])]
    <3>1. SubName(host) = sub
      BY <1>1, <2>1 DEF SubName
    <3>2. sub \in Seq({UrlLabel(u) : u \in Urls}) /\ Len(sub) = n /\ sub # <<>>
      BY <2>1, <2>4
    <3>3. \A i \in 1..n : sub[i].text = relays[i] /\ sub[i].text \in Urls
      BY <2>4 DEF UrlLabel, Word
    <3> HIDE DEF sub
    <3>4. DecodedRelays(sub) = [i \in 1..Len(sub) |-> sub[i].text]
      BY <3>2, <3>3, DecodedRelaysType
    <3>5. [i \in 1..n |-> sub[i].text] = relays
      BY <2>1, <3>3
    <3> QED
      BY <3>1, <3>2, <3>4, <3>5
  <2> HIDE DEF host
  <2>11. parseDestinationDomain(host, NoKey, DefaultRelays) =
           IF IsDomainName(labels) THEN Target(key, relays) ELSE Failed
    BY <1>1, <2>6, <2>9, <2>10 DEF parseDestinationDomain, Addresses
  <2> QED
    BY <1>1, <1>a, <2>8, <2>11 DEF host, labels
<1> QED
  BY <1>2, <1>3

-----------------------------------------------------------------------------
(* Messages and their sequences.                                           *)
LEMMA Kinds ==
  /\ \A m \in Messages :
       /\ m.kind \in {"hello", "login", "request", "data", "malformed"}
       /\ m.kind = "request" => m \in Requests
       /\ m.kind = "login" /\ m.valid => m = Login(TRUE)
  /\ Rank["hello"] = 1 /\ Rank["login"] = 2 /\ Rank["request"] = 3
  /\ Rank["data"] = 4 /\ Rank["malformed"] = 5
<1>1. \A m \in Messages :
        /\ m.kind \in {"hello", "login", "request", "data", "malformed"}
        /\ m.kind = "request" => m \in Requests
        /\ m.kind = "login" => \E valid \in BOOLEAN : m = Login(valid)
  BY SessionAssumption DEF SessionAssumption, Messages, Hello, Login, Data, Malformed
<1>2. \A valid \in BOOLEAN : Login(valid).valid => valid = TRUE
  BY DEF Login
<1> QED
  BY <1>1, <1>2 DEF Rank

LEMMA RankType == \A m \in Messages : Rank[m.kind] \in 1..5
<1> SUFFICES ASSUME NEW m \in Messages
             PROVE  Rank[m.kind] \in 1..5
  OBVIOUS
<1>1. m.kind \in {"hello", "login", "request", "data", "malformed"}
  BY Kinds
<1> QED
  BY <1>1, Kinds

LEMMA LateKinds ==
  \A m \in Messages : Rank[m.kind] > 3 => m.kind \in {"data", "malformed"}
<1> SUFFICES ASSUME NEW m \in Messages, Rank[m.kind] > 3
             PROVE  m.kind \in {"data", "malformed"}
  OBVIOUS
<1>1. m.kind \in {"hello", "login", "request", "data", "malformed"}
  BY Kinds
<1>2. ~ (1 > 3) /\ ~ (2 > 3) /\ ~ (3 > 3)
  OBVIOUS
<1> QED
  BY <1>1, <1>2, Kinds

LEMMA NextMessage ==
  ASSUME NEW S, NEW a \in Seq(S), NEW b \in Seq(S), NEW c \in Seq(S), b # <<>>, a # <<>>
  PROVE  /\ Len(a) \in 1..Len((a \o b) \o c) /\ Len(a) + 1 \in 1..Len((a \o b) \o c)
         /\ ((a \o b) \o c)[Len(a)] = a[Len(a)] /\ ((a \o b) \o c)[Len(a) + 1] \in S
<1>1. /\ a \o b \in Seq(S) /\ Len(a \o b) = Len(a) + Len(b)
      /\ Len(b) \in Nat \ {0} /\ Len(a) \in Nat \ {0} /\ Len(c) \in Nat
      /\ (a \o b)[Len(a)] = a[Len(a)] /\ (a \o b)[Len(a) + 1] = b[1] /\ b[1] \in S
  OBVIOUS
<1>2. ASSUME NEW s \in Seq(S), NEW i \in 1..Len(s)
      PROVE  i \in 1..Len(s \o c) /\ (s \o c)[i] = s[i]
  OBVIOUS
<1> QED
  BY <1>1, <1>2

LEMMA ConcatAppend ==
  \A a, b \in Seq(Messages), m \in Messages : a \o Append(b, m) = Append(a \o b, m)
OBVIOUS

LEMMA FillKeeps ==
  ASSUME NEW S, NEW h \in Seq(S), NEW w \in Seq(S), NEW n \in 1..Len(w)
  PROVE  /\ SubSeq(w, 1, n) \in Seq(S) /\ SubSeq(w, n + 1, Len(w)) \in Seq(S)
         /\ h \o SubSeq(w, 1, n) \o <<>> \o SubSeq(w, n + 1, Len(w)) = h \o <<>> \o <<>> \o w
<1> DEFINE x == SubSeq(w, 1, n)
           y == SubSeq(w, n + 1, Len(w))
<1>1. x \in Seq(S) /\ y \in Seq(S) /\ x \o y = w
  OBVIOUS
<1> HIDE DEF x, y
<1>2. \A a, b, c \in Seq(S) : (a \o b) \o c = a \o (b \o c)
  OBVIOUS
<1>3. h \o x \in Seq(S)
  BY <1>1
<1>4. \A s \in Seq(S) : s \o <<>> = s
  OBVIOUS
<1>5. h \o x \o <<>> \o y = h \o <<>> \o <<>> \o w
  <2>1. h \o x \o y = h \o w
    BY <1>1, <1>2, Zenon
  <2>2. h \o x \o <<>> = h \o x /\ h \o <<>> \o <<>> = h
    <3>1. h \o <<>> = h
      BY <1>4, Zenon
    <3> QED
      BY <1>4, <1>3, <3>1, Zenon
  <2> QED
    BY <2>1, <2>2, Zenon
<1> QED
  BY <1>1, <1>5 DEF x, y

LEMMA TakeKeeps ==
  ASSUME NEW S, NEW a \in Seq(S), NEW b \in Seq(S), b # <<>>
  PROVE  /\ Head(b) \in S /\ Append(a, Head(b)) \in Seq(S) /\ Tail(b) \in Seq(S)
         /\ Append(a, Head(b)) \o Tail(b) = a \o b
         /\ Len(Append(a, Head(b))) = Len(a) + 1 /\ Append(a, Head(b)) # <<>>
         /\ \A i \in 1..Len(a) : Append(a, Head(b))[i] = a[i]
         /\ Append(a, Head(b))[Len(a) + 1] = Head(b)
         /\ Head(Append(a, Head(b))) = IF a = <<>> THEN Head(b) ELSE Head(a)
<1>1. Head(b) \in S /\ Tail(b) \in Seq(S)
  OBVIOUS
<1>2. Append(a, Head(b)) \o Tail(b) = a \o b
  OBVIOUS
<1>3. ASSUME NEW m \in S
      PROVE  /\ Append(a, m) \in Seq(S) /\ Len(Append(a, m)) = Len(a) + 1
             /\ Append(a, m) # <<>> /\ Append(a, m)[Len(a) + 1] = m
             /\ \A i \in 1..Len(a) : Append(a, m)[i] = a[i]
             /\ Head(Append(a, m)) = IF a = <<>> THEN m ELSE Head(a)
  OBVIOUS
<1> QED
  BY <1>1, <1>2, <1>3

LEMMA ForwardKeeps ==
  \A a, f, w \in Seq(Messages) :
    w # <<>> => (a \o Append(f, Head(w))) \o Tail(w) = (a \o f) \o w
<1>1. \A p, q, r \in Seq(Messages) : (p \o q) \o r = p \o (q \o r)
  OBVIOUS
<1> SUFFICES ASSUME NEW a \in Seq(Messages), NEW f \in Seq(Messages), NEW w \in Seq(Messages),
                    w # <<>>
             PROVE  (a \o Append(f, Head(w))) \o Tail(w) = (a \o f) \o w
  OBVIOUS
<1> DEFINE x == Append(f, Head(w))
           y == Tail(w)
<1>2. x \in Seq(Messages) /\ y \in Seq(Messages) /\ x \o y = f \o w
  BY TakeKeeps
<1> HIDE DEF x, y
<1>3. (a \o x) \o y = a \o (x \o y)
  BY <1>1, <1>2, Zenon
<1>4. (a \o f) \o w = a \o (f \o w)
  BY <1>1, Zenon
<1>5. (a \o x) \o y = (a \o f) \o w
  BY <1>2, <1>3, <1>4, Zenon
<1> QED
  BY <1>5 DEF x, y

LEMMA InitIInv == Init => IInv
<1> SUFFICES ASSUME Init
             PROVE  IInv
  OBVIOUS
<1>1. TypeInv
  <2>1. <<>> \in Seq(Messages)
    OBVIOUS
  <2> QED
    BY <2>1 DEF Init, TypeInv
<1>2. StreamInv
  BY DEF Init, StreamInv
<1>3. OrderInv /\ EarlyInv
  <2>1. sent = <<>> /\ Len(sent) = 0 /\ 1..Len(sent) = {} /\ answer = None /\ pc = "greeting"
    BY DEF Init
  <2>2. answer # "success"
    BY <2>1, SessionAssumption DEF SessionAssumption, Replies
  <2> QED
    BY <2>1, <2>2 DEF OrderInv, EarlyInv, Asked, Dialed
<1>4. DialInv /\ AuthInv /\ ServedInv /\ DialsWhatWasAsked
  BY DEF Init, DialInv, AuthInv, ServedInv, DialsWhatWasAsked, Asked, Dialed
<1> QED
  BY <1>1, <1>2, <1>3, <1>4 DEF IInv

-----------------------------------------------------------------------------
LEMMA EndStep ==
  ASSUME IInv, ClientCloses \/ ReadEnds \/ ProxyEnds
  PROVE  IInv'
<1> USE DEF ClientCloses, ReadEnds, ProxyEnds, Handshake, readVars, dialVars, clientVars,
       Asked, Dialed
<1>1. TypeInv'
  BY DEF IInv, TypeInv, Replies
<1>2. StreamInv'
  BY DEF IInv, StreamInv, TypeInv
<1>3. OrderInv'
  BY DEF IInv, OrderInv
<1>4. EarlyInv'
  BY DEF IInv, EarlyInv, TypeInv
<1>5. DialInv'
  BY DEF IInv, DialInv, Addr, Allowed
<1>6. AuthInv'
  BY DEF IInv, AuthInv
<1>7. ServedInv'
  BY DEF IInv, ServedInv
<1>8. DialsWhatWasAsked'
  BY DEF IInv, DialsWhatWasAsked, Authenticated
<1> QED
  BY <1>1, <1>2, <1>3, <1>4, <1>5, <1>6, <1>7, <1>8 DEF IInv

LEMMA RefuseStep ==
  ASSUME IInv, HandleBindAssociate \/ HandleUnsupported \/ DialFails
  PROVE  IInv'
<1> USE DEF HandleBindAssociate, HandleUnsupported, DialFails, Refuse, readVars, dialVars,
       Dialing, clientVars, Asked, Dialed
<1>1. TypeInv'
  BY DEF IInv, TypeInv, Replies
<1>2. StreamInv'
  BY DEF IInv, StreamInv, TypeInv
<1>3. OrderInv'
  BY DEF IInv, OrderInv
<1>4. EarlyInv'
  BY DEF IInv, EarlyInv, TypeInv
<1>5. DialInv'
  BY DEF IInv, DialInv, Addr, Allowed
<1>6. AuthInv'
  BY DEF IInv, AuthInv
<1>7. ServedInv'
  BY DEF IInv, ServedInv
<1>8. DialsWhatWasAsked'
  BY DEF IInv, DialsWhatWasAsked, Authenticated
<1> QED
  BY <1>1, <1>2, <1>3, <1>4, <1>5, <1>6, <1>7, <1>8 DEF IInv

LEMMA ResolveStep ==
  ASSUME IInv, Resolve
  PROVE  IInv'
<1> USE DEF Resolve, Refuse, readVars, clientVars, Asked, Dialed
<1>1. TypeInv'
  BY DEF IInv, TypeInv, Replies
<1>2. StreamInv'
  BY DEF IInv, StreamInv, TypeInv
<1>3. OrderInv'
  BY DEF IInv, OrderInv
<1>4. EarlyInv'
  BY DEF IInv, EarlyInv, TypeInv
<1>5. DialInv'
  BY DEF IInv, DialInv, Addr, Allowed
<1>6. AuthInv'
  BY DEF IInv, AuthInv
<1>7. ServedInv'
  BY DEF IInv, ServedInv
<1>8. DialsWhatWasAsked'
  BY DEF IInv, DialsWhatWasAsked, Authenticated
<1> QED
  BY <1>1, <1>2, <1>3, <1>4, <1>5, <1>6, <1>7, <1>8 DEF IInv

LEMMA DialStep ==
  ASSUME IInv, DialPublishes \/ DialSkips \/ ReplySuccess \/ ReceiveTarget
  PROVE  IInv'
<1> USE DEF DialPublishes, DialSkips, ReplySuccess, ReceiveTarget, WriteThen, readVars,
       dialVars, Dialing, clientVars, Asked, Dialed
<1>1. TypeInv'
  BY DEF IInv, TypeInv, Replies
<1>2. StreamInv'
  BY DEF IInv, StreamInv, TypeInv
<1>3. OrderInv'
  BY DEF IInv, OrderInv
<1>4. EarlyInv'
  BY DEF IInv, EarlyInv, TypeInv
<1>5. DialInv'
  BY DEF IInv, DialInv, Addr, Allowed
<1>6. AuthInv'
  BY DEF IInv, AuthInv
<1>7. ServedInv'
  BY DEF IInv, ServedInv
<1>8. DialsWhatWasAsked'
  BY DEF IInv, DialsWhatWasAsked, Authenticated
<1> QED
  BY <1>1, <1>2, <1>3, <1>4, <1>5, <1>6, <1>7, <1>8 DEF IInv

(* The loop of DialSocks starts with what has been asked for and allowed.  *)
LEMMA HandleConnectStep ==
  ASSUME IInv, HandleConnect
  PROVE  IInv'
<1> USE DEF HandleConnect, Refuse, readVars, Allowed, clientVars, Asked, Dialed
<1>1. TypeInv'
  BY DEF IInv, TypeInv, Replies
<1>2. StreamInv'
  BY DEF IInv, StreamInv, TypeInv
<1>3. OrderInv'
  BY DEF IInv, OrderInv
<1>4. EarlyInv'
  BY DEF IInv, EarlyInv, TypeInv
<1>5. DialInv'
  <2>1. CASE pc' = "dialing"
    <3>1. /\ target' = dialTarget(Addr, targetKey, DefaultRelays) /\ target' # Failed
          /\ pc = "switch" /\ asked.command = "connect" /\ Allowed
          /\ UNCHANGED <<asked, targetKey, published, config>>
      BY <2>1
    <3> QED
      BY <2>1, <3>1 DEF IInv, DialInv, Addr
  <2>2. CASE pc' # "dialing"
    BY <2>2 DEF IInv, DialInv, Addr
  <2> QED
    BY <2>1, <2>2
<1>6. AuthInv'
  BY DEF IInv, AuthInv
<1>7. ServedInv'
  BY DEF IInv, ServedInv
<1>8. DialsWhatWasAsked'
  BY DEF IInv, DialsWhatWasAsked, Authenticated
<1> QED
  BY <1>1, <1>2, <1>3, <1>4, <1>5, <1>6, <1>7, <1>8 DEF IInv

LEMMA FillStep ==
  ASSUME IInv, Fill
  PROVE  IInv'
<1> USE DEF Fill, Handshake, dialVars, clientVars, Asked, Dialed
<1>a. PICK n \in 1..Len(wire) :
        bufConn' = SubSeq(wire, 1, n) /\ wire' = SubSeq(wire, n + 1, Len(wire))
  OBVIOUS
<1>b. /\ bufConn = <<>>
      /\ bufConn' \in Seq(Messages) /\ wire' \in Seq(Messages)
      /\ handled \o bufConn' \o <<>> \o wire' = handled \o <<>> \o <<>> \o wire
  <2>1. handled \in Seq(Messages) /\ wire \in Seq(Messages) /\ bufConn = <<>>
    BY DEF IInv, TypeInv
  <2>2. n \in 1..Len(wire)
    OBVIOUS
  <2>3. /\ SubSeq(wire, 1, n) \in Seq(Messages) /\ SubSeq(wire, n + 1, Len(wire)) \in Seq(Messages)
        /\ handled \o SubSeq(wire, 1, n) \o <<>> \o SubSeq(wire, n + 1, Len(wire))
             = handled \o <<>> \o <<>> \o wire
    BY ONLY <2>1, <2>2, FillKeeps, Zenon
  <2> QED
    BY <1>a, <2>1, <2>3
<1>1. TypeInv'
  BY <1>b DEF IInv, TypeInv
<1>2. StreamInv'
  BY <1>b DEF IInv, StreamInv
<1>3. OrderInv'
  BY DEF IInv, OrderInv
<1>4. EarlyInv'
  BY DEF IInv, EarlyInv, TypeInv
<1>5. DialInv'
  BY DEF IInv, DialInv, Addr, Allowed
<1>6. AuthInv'
  BY DEF IInv, AuthInv
<1>7. ServedInv'
  BY DEF IInv, ServedInv
<1>8. DialsWhatWasAsked'
  BY DEF IInv, DialsWhatWasAsked, Authenticated
<1> QED
  BY <1>1, <1>2, <1>3, <1>4, <1>5, <1>6, <1>7, <1>8 DEF IInv

(* One message goes from the bufio.Reader to the handshake, which has not  *)
(* dialed yet.                                                             *)
Takes(at) ==
  /\ pc = at /\ Head(bufConn) \in Messages /\ bufConn \in Seq(Messages) /\ bufConn # <<>>
  /\ handled' = Append(handled, Head(bufConn)) /\ handled' \in Seq(Messages)
  /\ Len(handled') = Len(handled) + 1 /\ handled' # <<>>
  /\ \A i \in 1..Len(handled) : handled'[i] = handled[i]
  /\ handled'[Len(handled) + 1] = Head(bufConn)
  /\ Head(handled') = IF handled = <<>> THEN Head(bufConn) ELSE Head(handled)
  /\ handled \in Seq(Messages) /\ bufConn' \in Seq(Messages)
  /\ UNCHANGED <<clientVars, wire, dialVars, served, forwarded>>
  /\ forwarded = <<>> /\ handled' \o bufConn' \o forwarded \o wire = sent
  /\ published = {} /\ served = None /\ targetKey = NoKey /\ answer # "success"

LEMMA ReadMessageStep ==
  ASSUME IInv, NEW at \in {"greeting", "login", "request"}, ReadMessage(at)
  PROVE  Takes(at)
<1>1. /\ pc = at /\ bufConn # <<>>
      /\ handled' = Append(handled, Head(bufConn)) /\ bufConn' = Tail(bufConn)
      /\ UNCHANGED <<clientVars, wire, dialVars, served, forwarded>>
  BY DEF ReadMessage
<1>2. handled \in Seq(Messages) /\ bufConn \in Seq(Messages)
  BY DEF IInv, TypeInv
<1>3. handled' \o bufConn' = handled \o bufConn
  BY <1>1, <1>2, TakeKeeps
<1>4. forwarded = <<>> /\ handled \o bufConn \o forwarded \o wire = sent
  BY <1>1 DEF IInv, StreamInv
<1>5. published = {} /\ served = None /\ targetKey = NoKey /\ answer # "success"
  BY <1>1 DEF IInv, DialInv, ServedInv, EarlyInv
<1>6. handled' \o bufConn' \o forwarded \o wire = sent
  BY <1>3, <1>4
<1>7. /\ Head(bufConn) \in Messages /\ handled' \in Seq(Messages) /\ bufConn' \in Seq(Messages)
      /\ Len(handled') = Len(handled) + 1 /\ handled' # <<>>
      /\ \A i \in 1..Len(handled) : handled'[i] = handled[i]
      /\ handled'[Len(handled) + 1] = Head(bufConn)
      /\ Head(handled') = IF handled = <<>> THEN Head(bufConn) ELSE Head(handled)
  BY <1>1, <1>2, TakeKeeps
<1> QED
  BY <1>1, <1>2, <1>4, <1>5, <1>6, <1>7 DEF Takes

LEMMA ReadGreetingStep ==
  ASSUME IInv, ReadGreeting
  PROVE  IInv'
<1> USE DEF Takes, ReadGreeting, WriteThen, clientVars, Asked, Dialed
<1>a. Takes("greeting")
  BY ReadMessageStep DEF ReadGreeting
<1>1. TypeInv'
  BY <1>a DEF IInv, TypeInv, Replies, dialVars
<1>2. StreamInv'
  BY <1>a DEF IInv, StreamInv, TypeInv
<1>3. OrderInv'
  <2>1. UNCHANGED sent
    BY <1>a
  <2> QED
    BY <2>1 DEF IInv, OrderInv
<1>4. EarlyInv'
  BY <1>a DEF IInv, EarlyInv, TypeInv
<1>5. DialInv'
  BY <1>a DEF IInv, DialInv, dialVars
<1>6. AuthInv'
  <2>1. handled = <<>> /\ pc' \in {"login", "request", "closed"}
    BY <1>a DEF IInv, AuthInv
  <2>2. pc' # "closed" => Head(bufConn).kind = "hello"
    BY <1>a
  <2>3. pc' = "request" => ~ config.credentials
    BY <1>a
  <2> QED
    BY <1>a, <2>1, <2>2, <2>3 DEF AuthInv, dialVars
<1>7. ServedInv'
  BY <1>a DEF ServedInv
<1>8. DialsWhatWasAsked'
  BY <1>a DEF DialsWhatWasAsked
<1> QED
  BY <1>1, <1>2, <1>3, <1>4, <1>5, <1>6, <1>7, <1>8 DEF IInv

LEMMA ReadLoginStep ==
  ASSUME IInv, ReadLogin
  PROVE  IInv'
<1> USE DEF Takes, ReadLogin, WriteThen, clientVars, Asked, Dialed
<1>a. Takes("login")
  BY ReadMessageStep DEF ReadLogin
<1>1. TypeInv'
  BY <1>a DEF IInv, TypeInv, Replies, dialVars
<1>2. StreamInv'
  BY <1>a DEF IInv, StreamInv, TypeInv
<1>3. OrderInv'
  <2>1. UNCHANGED sent
    BY <1>a
  <2> QED
    BY <2>1 DEF IInv, OrderInv
<1>4. EarlyInv'
  BY <1>a DEF IInv, EarlyInv, TypeInv
<1>5. DialInv'
  BY <1>a DEF IInv, DialInv, dialVars
<1>6. AuthInv'
  <2>1. pc' \in {"request", "closed"} /\ handled # <<>> /\ Head(handled).kind = "hello"
    BY <1>a DEF IInv, AuthInv
  <2>2. pc' = "request" => Head(bufConn) = Login(TRUE)
    BY <1>a, Kinds
  <2>3. /\ handled'[Len(handled')] = Head(bufConn) /\ Len(handled') \in 1..Len(handled')
        /\ handled' # <<>> /\ Head(handled').kind = "hello"
        /\ pc' \in {"request", "closed"} /\ published' = {}
    BY <1>a, <2>1 DEF dialVars
  <2> QED
    BY <2>2, <2>3 DEF AuthInv
<1>7. ServedInv'
  BY <1>a DEF ServedInv
<1>8. DialsWhatWasAsked'
  BY <1>a DEF DialsWhatWasAsked
<1> QED
  BY <1>1, <1>2, <1>3, <1>4, <1>5, <1>6, <1>7, <1>8 DEF IInv

(* Behind the request there is nothing in the bufio.Reader, or the client  *)
(* was early.                                                              *)
LEMMA ReadRequestStep ==
  ASSUME IInv, ReadRequest
  PROVE  IInv'
<1> USE DEF Takes, ReadRequest, Refuse, clientVars, Asked, Dialed
<1>a. Takes("request")
  BY ReadMessageStep DEF ReadRequest
<1>1. TypeInv'
  BY <1>a DEF IInv, TypeInv, Replies, dialVars
<1>2. StreamInv'
  BY <1>a DEF IInv, StreamInv, TypeInv
<1>3. OrderInv'
  <2>1. UNCHANGED sent
    BY <1>a
  <2> QED
    BY <2>1 DEF IInv, OrderInv
<1>4. EarlyInv'
  <2>1. ASSUME pc' = "resolving", ~ early, bufConn' # <<>>
        PROVE  FALSE
    <3> DEFINE i == Len(handled) + 1
    <3>1. Head(bufConn).kind = "request"
      BY <1>a, <2>1 DEF IsRequest
    <3>2. /\ i \in 1..Len(sent) /\ i + 1 \in 1..Len(sent)
          /\ sent[i] = Head(bufConn) /\ sent[i + 1] \in Messages
      <4>1. /\ wire \in Seq(Messages) /\ bufConn' \in Seq(Messages) /\ bufConn' # <<>>
            /\ handled' \o bufConn' \o wire = sent /\ handled' \in Seq(Messages)
            /\ Len(handled') = i /\ handled'[i] = Head(bufConn) /\ i \in Nat \ {0}
        <5>1. wire \in Seq(Messages) /\ handled' \in Seq(Messages) /\ bufConn' \in Seq(Messages)
          BY <1>a DEF IInv, TypeInv
        <5>2. (handled' \o bufConn') \o <<>> = handled' \o bufConn'
          BY <5>1
        <5>3. handled' \o bufConn' \o forwarded \o wire = sent /\ forwarded = <<>>
          BY <1>a
        <5>4. Len(handled') = i /\ handled'[i] = Head(bufConn) /\ i \in Nat \ {0}
          BY <1>a
        <5> QED
          BY <2>1, <5>1, <5>2, <5>3, <5>4
      <4>2. /\ i \in 1..Len((handled' \o bufConn') \o wire)
            /\ i + 1 \in 1..Len((handled' \o bufConn') \o wire)
            /\ ((handled' \o bufConn') \o wire)[i] = handled'[i]
            /\ ((handled' \o bufConn') \o wire)[i + 1] \in Messages
        <5> HIDE DEF i
        <5>1. handled' # <<>>
          BY <4>1
        <5> QED
          BY ONLY <4>1, <5>1, NextMessage
      <4> QED
        BY <4>1, <4>2
    <3>3. sent[i + 1].kind \in {"data", "malformed"}
      <4>1. Rank[sent[i].kind] = 3 /\ i < i + 1
        BY <1>a, <3>1, <3>2, Kinds
      <4>2. Rank[sent[i + 1].kind] > 3 \/ sent[i + 1].kind = "data"
        BY <3>2, <4>1 DEF IInv, OrderInv
      <4> QED
        BY <3>2, <4>2, LateKinds
    <3> QED
      BY <1>a, <2>1, <3>2, <3>3 DEF IInv, EarlyInv
  <2>2. pc' \in {"resolving", "closed"} /\ answer' # "success"
    BY <1>a DEF IInv, TypeInv
  <2> QED
    BY <1>a, <2>1, <2>2 DEF IInv, EarlyInv
<1>5. DialInv'
  <2>1. \/ pc' = "closed"
        \/ pc' = "resolving" /\ asked' \in Requests
    <3>1. Head(bufConn) \in Messages
      BY <1>a
    <3>2. IsRequest(Head(bufConn)) => Head(bufConn) \in Requests
      BY <3>1, Kinds DEF IsRequest
    <3>3. \/ pc' = "closed"
          \/ pc' = "resolving" /\ asked' = Head(bufConn) /\ IsRequest(Head(bufConn))
      OBVIOUS
    <3> QED
      BY <3>2, <3>3
  <2> QED
    BY <1>a, <2>1 DEF IInv, DialInv, dialVars
<1>6. AuthInv'
  <2>1. pc' \in {"resolving", "closed"} /\ handled # <<>> /\ Head(handled).kind = "hello"
    BY <1>a DEF IInv, AuthInv
  <2>2. config.credentials => \E i \in 1..Len(handled) : handled[i] = Login(TRUE)
    BY <1>a DEF IInv, AuthInv
  <2>3. config'.credentials => \E i \in 1..Len(handled') : handled'[i] = Login(TRUE)
    <3>1. 1..Len(handled) \subseteq 1..Len(handled') /\ config' = config
      BY <1>a
    <3> QED
      BY <1>a, <2>2, <3>1
  <2>4. handled' # <<>> /\ Head(handled').kind = "hello" /\ pc' # "greeting"
    BY <1>a, <2>1
  <2> QED
    BY <2>3, <2>4 DEF AuthInv
<1>7. ServedInv'
  BY <1>a DEF ServedInv
<1>8. DialsWhatWasAsked'
  BY <1>a DEF DialsWhatWasAsked
<1> QED
  BY <1>1, <1>2, <1>3, <1>4, <1>5, <1>6, <1>7, <1>8 DEF IInv

LEMMA ForwardStep ==
  ASSUME IInv, Forward
  PROVE  IInv'
<1> USE DEF Forward, dialVars, clientVars, Asked, Dialed
<1>a. /\ wire # <<>> /\ wire \in Seq(Messages) /\ forwarded \in Seq(Messages)
      /\ handled \o bufConn \in Seq(Messages)
  BY DEF IInv, TypeInv
<1>b. /\ Append(forwarded, Head(wire)) \in Seq(Messages) /\ Tail(wire) \in Seq(Messages)
      /\ Append(forwarded, Head(wire)) \o Tail(wire) = forwarded \o wire
  BY ONLY <1>a, TakeKeeps
<1>c. (handled \o bufConn) \o Append(forwarded, Head(wire)) \o Tail(wire)
        = (handled \o bufConn) \o forwarded \o wire
  BY ONLY <1>a, ForwardKeeps, Zenon
<1>d. /\ forwarded' \in {forwarded, Append(forwarded, Head(wire))} /\ wire' = Tail(wire)
      /\ pc' # "closed" => forwarded' = Append(forwarded, Head(wire)) /\ pc' = pc
      /\ pc = "proxying" /\ pc' \in {pc, "closed"}
  OBVIOUS
<1>1. TypeInv'
  BY <1>a, <1>b, <1>d DEF IInv, TypeInv, Replies
<1>2. StreamInv'
  BY <1>b, <1>c, <1>d DEF IInv, StreamInv
<1>3. OrderInv'
  BY DEF IInv, OrderInv
<1>4. EarlyInv'
  BY DEF IInv, EarlyInv, TypeInv
<1>5. DialInv'
  BY DEF IInv, DialInv, Addr, Allowed
<1>6. AuthInv'
  BY DEF IInv, AuthInv
<1>7. ServedInv'
  BY DEF IInv, ServedInv
<1>8. DialsWhatWasAsked'
  BY DEF IInv, DialsWhatWasAsked, Authenticated
<1> QED
  BY <1>1, <1>2, <1>3, <1>4, <1>5, <1>6, <1>7, <1>8 DEF IInv

LEMMA SendStep ==
  ASSUME IInv, NEW m \in Messages, ClientSends(m)
  PROVE  IInv'
<1> USE DEF ClientSends, dialVars, clientVars, Asked, Dialed
<1>a. /\ sent' = Append(sent, m) /\ wire' = Append(wire, m)
      /\ sent \in Seq(Messages) /\ wire \in Seq(Messages)
      /\ handled \o bufConn \o forwarded \in Seq(Messages)
  BY DEF IInv, TypeInv
<1>b. /\ Len(sent') = Len(sent) + 1 /\ sent'[Len(sent) + 1] = m
      /\ \A i \in 1..Len(sent) : sent'[i] = sent[i] /\ sent[i] \in Messages
      /\ sent' \in Seq(Messages) /\ Len(sent) \in Nat
  BY <1>a
<1>1. TypeInv'
  BY <1>a, <1>b DEF IInv, TypeInv, Replies
<1>2. StreamInv'
  <2>1. (handled \o bufConn \o forwarded) \o Append(wire, m)
          = Append((handled \o bufConn \o forwarded) \o wire, m)
    <3>1. m \in Messages
      OBVIOUS
    <3> QED
      BY ONLY <1>a, <3>1, ConcatAppend, Zenon
  <2> QED
    BY <1>a, <2>1 DEF IInv, StreamInv
<1>3. OrderInv'
  <2> SUFFICES ASSUME NEW i \in 1..Len(sent'), NEW j \in 1..Len(sent'), i < j
               PROVE  \/ Rank[sent'[i].kind] < Rank[sent'[j].kind]
                      \/ sent'[j].kind = "data" /\ Rank[sent'[i].kind] <= 4
    BY DEF OrderInv
  <2>1. CASE j \in 1..Len(sent)
    <3>1. i \in 1..Len(sent)
      BY <1>b, <2>1
    <3> QED
      BY <1>b, <2>1, <3>1 DEF IInv, OrderInv
  <2>2. CASE j = Len(sent) + 1
    <3>1. i \in 1..Len(sent) /\ Len(sent) \in 1..Len(sent) /\ sent # <<>>
      BY <1>a, <1>b, <2>2
    <3>2. \/ Rank[sent[Len(sent)].kind] < Rank[m.kind]
          \/ sent[Len(sent)].kind = "data" /\ m.kind = "data"
      BY <3>1 DEF Last
    <3>3. \/ i = Len(sent)
          \/ Rank[sent[i].kind] < Rank[sent[Len(sent)].kind]
          \/ sent[Len(sent)].kind = "data" /\ Rank[sent[i].kind] <= 4
      BY <3>1 DEF IInv, OrderInv
    <3>4. sent[i] \in Messages /\ sent[Len(sent)] \in Messages
      BY <1>b, <3>1
    <3> DEFINE r == Rank[sent[i].kind]
               last == Rank[sent[Len(sent)].kind]
               new == Rank[m.kind]
    <3>5. r \in 1..5 /\ last \in 1..5 /\ new \in 1..5
      BY <3>4, RankType
    <3>6. /\ sent[Len(sent)].kind = "data" => last = 4
          /\ m.kind = "data" => new = 4
          /\ new = 5 \/ new < 5
      BY <3>5, Kinds
    <3>7. r < new \/ (m.kind = "data" /\ r <= 4)
      <4> HIDE DEF r, last, new
      <4>1. last < new \/ (last = 4 /\ m.kind = "data")
        BY <3>2, <3>6 DEF last, new
      <4>2. r = last \/ r < last \/ (last = 4 /\ r <= 4)
        BY <3>3, <3>6 DEF r, last
      <4> QED
        BY <3>5, <4>1, <4>2
    <3> QED
      BY <1>b, <2>2, <3>1, <3>7
  <2> QED
    BY <1>b, <2>1, <2>2
<1>4. EarlyInv'
  <2>1. ASSUME ~ early', answer' # "success"
        PROVE  \A i \in 1..Len(sent') : sent'[i].kind \notin {"data", "malformed"}
    <3>1. m.kind \notin {"data", "malformed"} /\ ~ early /\ answer # "success"
      BY <2>1 DEF IInv, TypeInv
    <3>2. \A i \in 1..Len(sent') : i \in 1..Len(sent) \/ i = Len(sent) + 1
      BY <1>b
    <3> QED
      BY <1>b, <3>1, <3>2 DEF IInv, EarlyInv
  <2>2. UNCHANGED <<pc, answer, bufConn>> /\ (~ early' => ~ early)
    BY DEF IInv, TypeInv
  <2> QED
    BY <2>1, <2>2 DEF IInv, EarlyInv
<1>5. DialInv'
  BY DEF IInv, DialInv, Addr, Allowed
<1>6. AuthInv'
  BY DEF IInv, AuthInv
<1>7. ServedInv'
  BY DEF IInv, ServedInv
<1>8. DialsWhatWasAsked'
  BY DEF IInv, DialsWhatWasAsked, Authenticated
<1> QED
  BY <1>1, <1>2, <1>3, <1>4, <1>5, <1>6, <1>7, <1>8 DEF IInv

-----------------------------------------------------------------------------
(* What the exit node makes of a destination, if the CONNECT has been sent *)
(* to its key: a host that is an address has no key, and a name has that   *)
(* of its exit node.                                                       *)
LEMMA RouteAgrees ==
  ASSUME NEW host, NEW key \in PubKeys, NEW found, NEW t,
         t = dialTarget(RealAddress(host), found, DefaultRelays), t # Failed, t.key = key,
         found # NoKey => host.type = "public",
         routeAtExit(RealAddress(host), key) # Failed
  PROVE  \/ host.type = "public" /\ routeAtExit(RealAddress(host), key) = Address(host.ip)
         \/ host.type = "domain" /\ routeAtExit(RealAddress(host), key) = Backend(Name(host))
<1> USE DEF routeAtExit, Parses, TLD, Addresses
<1>1. CASE host.type = "public"
  <2>1. RealAddress(host) = Address(host.ip) /\ Len(Address(host.ip).labels) = 0
    BY <1>1 DEF RealAddress, Address
  <2> QED
    BY <1>1, <2>1 DEF Address
<1>2. CASE host.type # "public"
  <2>1. RealAddress(host) = host /\ t = parseDestination(host, NoKey, DefaultRelays)
    BY <1>2 DEF RealAddress, dialTarget
  <2>2. NoKey \notin PubKeys
    BY RouteAssumption DEF RouteAssumption
  <2>3. Parses(host) /\ host.type \in {"ipv4", "ipv6", "domain"}
    BY <2>1
  <2>4. t = parseDestinationDomain(host, NoKey, DefaultRelays)
    BY <2>1, <2>3 DEF parseDestination
  <2>5. host.type = "domain" /\ TLD(host) = "nostr" /\ t.key = Name(host)
    BY <2>2, <2>3, <2>4 DEF parseDestinationDomain, Target
  <2> QED
    BY <2>1, <2>3, <2>5
<1> QED
  BY <1>1, <1>2

LEMMA ExitHandlesStep ==
  ASSUME IInv, NEW key \in PubKeys, ExitHandles(key)
  PROVE  IInv'
<1> USE DEF ExitHandles, Reaches, readVars, dialVars, clientVars, Asked, Dialed
<1>a. published # {} /\ target.key = key /\ served' = routeAtExit(Addr, key)
  OBVIOUS
<1>b. /\ target = dialTarget(Addr, targetKey, DefaultRelays) /\ target # Failed
      /\ asked.command = "connect" /\ Allowed
      /\ targetKey # NoKey => asked.host.type = "public"
  BY <1>a DEF IInv, DialInv
<1>1. TypeInv'
  BY DEF IInv, TypeInv, Replies
<1>2. StreamInv'
  BY DEF IInv, StreamInv, TypeInv
<1>3. OrderInv'
  BY DEF IInv, OrderInv
<1>4. EarlyInv'
  BY DEF IInv, EarlyInv, TypeInv
<1>5. DialInv'
  BY DEF IInv, DialInv, Addr, Allowed
<1>6. AuthInv'
  BY DEF IInv, AuthInv
<1>7. ServedInv'
  BY <1>a DEF ServedInv
<1>8. DialsWhatWasAsked'
  <2> SUFFICES ASSUME served' # Failed
               PROVE  /\ Authenticated /\ asked.command = "connect" /\ "connect" \in config.permit
                      /\ \/ asked.host.type = "public" /\ served' = Address(asked.host.ip)
                         \/ asked.host.type = "domain" /\ served' = Backend(Name(asked.host))
    BY DEF DialsWhatWasAsked, Authenticated
  <2>1. Authenticated
    BY <1>a DEF IInv, AuthInv, Authenticated
  <2>2. \/ asked.host.type = "public" /\ served' = Address(asked.host.ip)
        \/ asked.host.type = "domain" /\ served' = Backend(Name(asked.host))
    BY <1>a, <1>b, RouteAgrees DEF Addr
  <2> QED
    BY <1>b, <2>1, <2>2 DEF Allowed
<1> QED
  BY <1>1, <1>2, <1>3, <1>4, <1>5, <1>6, <1>7, <1>8 DEF IInv

-----------------------------------------------------------------------------
LEMMA ClientStep ==
  ASSUME IInv, Client
  PROVE  IInv'
<1>1. Len(sent) \in Nat
  BY DEF IInv, TypeInv
<1>2. /\ \A methods \in Offers : Hello(methods) \in Messages
      /\ \A valid \in BOOLEAN : Login(valid) \in Messages
      /\ \A request \in Requests : request \in Messages
      /\ Data(Len(sent)) \in Messages /\ Malformed \in Messages
  BY <1>1 DEF Messages
<1>3. CASE \E m \in Messages : ClientSends(m)
  BY <1>3, SendStep
<1>4. CASE ClientCloses
  BY <1>4, EndStep
<1> QED
  BY <1>2, <1>3, <1>4 DEF Client

LEMMA ServerStep ==
  ASSUME IInv, Server
  PROVE  IInv'
<1>1. CASE Fill
  BY <1>1, FillStep
<1>2. CASE ReadGreeting
  BY <1>2, ReadGreetingStep
<1>3. CASE ReadLogin
  BY <1>3, ReadLoginStep
<1>4. CASE ReadRequest
  BY <1>4, ReadRequestStep
<1>5. CASE ReadEnds
  BY <1>5, EndStep
<1>6. CASE Resolve
  BY <1>6, ResolveStep
<1>7. CASE HandleConnect
  BY <1>7, HandleConnectStep
<1>8. CASE HandleBindAssociate \/ HandleUnsupported \/ DialFails
  BY <1>8, RefuseStep
<1>9. CASE DialPublishes \/ DialSkips \/ ReplySuccess \/ ReceiveTarget
  BY <1>9, DialStep
<1>10. CASE Forward
  BY <1>10, ForwardStep
<1> QED
  BY <1>1, <1>2, <1>3, <1>4, <1>5, <1>6, <1>7, <1>8, <1>9, <1>10 DEF Server

LEMMA NextIInv == IInv /\ [Next]_vars => IInv'
<1> SUFFICES ASSUME IInv, [Next]_vars
             PROVE  IInv'
  OBVIOUS
<1>1. CASE Client
  BY <1>1, ClientStep
<1>2. CASE Server
  BY <1>2, ServerStep
<1>3. CASE ProxyEnds
  BY <1>3, EndStep
<1>4. CASE \E key \in PubKeys : ExitHandles(key)
  BY <1>4, ExitHandlesStep
<1>5. CASE UNCHANGED vars
  <2> USE <1>5 DEF vars, clientVars, dialVars
  <2>1. TypeInv' /\ StreamInv' /\ OrderInv' /\ EarlyInv'
    BY DEF IInv, TypeInv, StreamInv, OrderInv, EarlyInv
  <2>2. DialInv' /\ AuthInv' /\ ServedInv' /\ DialsWhatWasAsked'
    BY DEF IInv, DialInv, AuthInv, ServedInv, DialsWhatWasAsked, Addr, Allowed, Authenticated
  <2> QED
    BY <2>1, <2>2 DEF IInv
<1> QED
  BY <1>1, <1>2, <1>3, <1>4, <1>5 DEF Next

LEMMA Invariance == SafetySpec => []IInv
<1>1. Init => IInv
  BY InitIInv
<1>2. IInv /\ [Next]_vars => IInv'
  BY NextIInv
<1> QED
  BY <1>1, <1>2, PTL DEF SafetySpec

-----------------------------------------------------------------------------
(* What the client has sent is handled, forwarded or still on its way, in  *)
(* order, and nothing stays behind in the bufio.Reader when Proxy takes    *)
(* the socket over, if the client has waited for the success reply         *)
(* (socks5.go:196 with request.go:228), for messages of any number.        *)
THEOREM StreamIntactHolds == SafetySpec => []StreamIntact
<1>1. IInv => StreamIntact
  BY DEF IInv, StreamInv, EarlyInv, StreamIntact, Asked, Dialed
<1> QED
  BY <1>1, Invariance, PTL

(* An exit node dials only for a client that has said hello, has given the *)
(* right credentials if the entry node wants any, and is allowed to        *)
(* connect; and only what that client has asked for (auth.go:70-112,       *)
(* request.go:139-155, exit.go:311-321).                                   *)
THEOREM DialsWhatWasAskedHolds == SafetySpec => []DialsWhatWasAsked
<1>1. IInv => DialsWhatWasAsked
  BY DEF IInv
<1> QED
  BY <1>1, Invariance, PTL

(* NostrConnection.Write works out the key and the relays anew, and finds  *)
(* those to which DialSocks has sent the CONNECT, but for public names     *)
(* that have resolved to an IPv6 address (dial.go:42-50, conn.go:166).     *)
THEOREM WriteAgreesWithDialHolds == SafetySpec => []WriteAgreesWithDial
<1>1. ASSUME IInv, pc = "proxying"
      PROVE  WriteTarget = IF Addr.type = "ipv6" THEN Failed ELSE target
  <2>1. /\ target = dialTarget(Addr, targetKey, DefaultRelays) /\ target # Failed
        /\ asked \in Requests /\ (targetKey # NoKey => asked.host.type = "public")
    BY <1>1 DEF IInv, DialInv, Asked, Dialed
  <2>2. CASE targetKey = NoKey
    <3>1. target = parseDestination(Addr, targetKey, DefaultRelays)
      BY <2>1, <2>2 DEF dialTarget
    <3>2. Addr.type # "ipv6"
      BY <2>1, <3>1 DEF parseDestination, parseDestinationDomain, Addresses
    <3> QED
      BY <3>1, <3>2 DEF WriteTarget
  <2>3. CASE targetKey # NoKey
    <3>1. target = Target(targetKey, DefaultRelays)
      BY <2>1, <2>3 DEF dialTarget
    <3>2. Addr = Address(asked.host.ip) /\ asked.host.ip \in Addresses
      BY <2>1, <2>3, SessionAssumption DEF SessionAssumption, Addr, RealAddress
    <3>3. Addr.type \in Addresses
      BY <3>2 DEF Address
    <3>4. WriteTarget = IF Addr.type = "ipv4" THEN Target(targetKey, DefaultRelays) ELSE Failed
      BY <3>3 DEF WriteTarget, parseDestination, parseDestinationDomain, Parses, Addresses
    <3> QED
      BY <3>1, <3>3, <3>4 DEF Addresses
  <2> QED
    BY <2>2, <2>3
<1>2. IInv => WriteAgreesWithDial
  BY <1>1 DEF WriteAgreesWithDial
<1> QED
  BY <1>2, Invariance, PTL

-----------------------------------------------------------------------------
(* The types of what DialSocks works with.                                 *)

(* DialSocks: what dialTarget returns, if it does not fail.                *)
LEMMA TargetType ==
  ASSUME NEW r \in Requests, NEW key \in PubKeys \cup {NoKey},
         NEW t, t = dialTarget(RealAddress(r.host), key, DefaultRelays), t # Failed
  PROVE  t \in Targets
<1> DEFINE host == RealAddress(r.host)
<1>1. DefaultRelays \in Seq(Urls \cup {NoUrl})
  BY SessionAssumption DEF SessionAssumption
<1>2. ASSUME NEW k \in PubKeys \cup {NoKey}, NEW relays \in Seq(Urls \cup {NoUrl})
      PROVE  Target(k, relays) \in Targets
  BY DEF Target, Targets
<1>3. /\ host.type = "domain" => host.labels \in Seq(Range(host.labels))
      /\ host.type \in {"npub", "nprofile"} => host.key \in PubKeys /\ host.relays \in Seq(Urls)
  <2>1. CASE r.host.type = "public"
    BY <2>1, SessionAssumption DEF SessionAssumption, RealAddress, Address, Addresses
  <2>2. CASE r.host.type # "public"
    BY <2>2, SessionAssumption DEF SessionAssumption, RealAddress
  <2> QED
    BY <2>1, <2>2
<1> HIDE DEF host
<1>4. CASE t = Target(key, DefaultRelays)
  BY <1>1, <1>2, <1>4
<1>5. CASE host.type \in {"npub", "nprofile"} /\ t = Target(host.key, host.relays)
  BY <1>2, <1>3, <1>5
<1>6. CASE /\ host.type = "domain" /\ IsDomainName(host.labels) /\ Name(host) \in PubKeys
           /\ t = Target(Name(host), DecodedRelays(SubName(host)))
  <2> DEFINE labels == host.labels
  <2>1. labels \in Seq(Range(labels)) /\ Len(labels) >= 2
    BY <1>3, <1>6 DEF IsDomainName
  <2> HIDE DEF labels
  <2>2. SubSeq(labels, 1, Len(labels) - 2) \in Seq(Range(labels))
    BY <2>1
  <2>3. SubName(host) \in Seq(Range(labels))
    BY <2>2 DEF SubName, labels
  <2> QED
    BY <1>2, <1>6, <2>3, DecodedRelaysType
<1>7. \/ t = Target(key, DefaultRelays)
      \/ host.type \in {"npub", "nprofile"} /\ t = Target(host.key, host.relays)
      \/ /\ host.type = "domain" /\ IsDomainName(host.labels) /\ Name(host) \in PubKeys
         /\ t = Target(Name(host), DecodedRelays(SubName(host)))
  <2>1. CASE key # NoKey
    BY <2>1 DEF dialTarget, host
  <2>2. CASE key = NoKey
    <3>1. t = parseDestination(host, key, DefaultRelays)
      BY <2>2 DEF dialTarget, host
    <3>2. CASE host.type \in {"npub", "nprofile"}
      BY <3>1, <3>2 DEF parseDestination
    <3>3. CASE host.type \notin {"npub", "nprofile"}
      <4>1. t = parseDestinationDomain(host, key, DefaultRelays)
        BY <3>1, <3>3 DEF parseDestination
      <4>2. Parses(host)
        BY <4>1 DEF parseDestinationDomain, Parses
      <4>3. CASE host.type \in Addresses
        BY <4>1, <4>2, <4>3 DEF parseDestinationDomain
      <4>4. CASE host.type \notin Addresses
        <5>1. host.type = "domain"
          BY <4>2, <4>4 DEF Parses
        <5>2. t = IF ~ IsDomainName(host.labels) THEN Failed
                  ELSE IF TLD(host) # "nostr" THEN Target(key, DefaultRelays)
                  ELSE IF Name(host) \notin PubKeys THEN Failed
                  ELSE Target(Name(host), DecodedRelays(SubName(host)))
          BY <4>1, <4>2, <4>4 DEF parseDestinationDomain
        <5> QED
          BY <5>1, <5>2
      <4> QED
        BY <4>3, <4>4
    <3> QED
      BY <3>2, <3>3
  <2> QED
    BY <2>1, <2>2
<1> QED
  BY <1>4, <1>5, <1>6, <1>7

LEMMA DialTypesKept ==
  ASSUME DialTypes, UNCHANGED <<exitRelays, asked, target, relay, published>>,
         pc' \in Before => pc \in Before, pc' \in Dialed => pc \in Dialed
  PROVE  DialTypes'
  BY DEF DialTypes

LEMMA DialTypesStep ==
  ASSUME IInv, DialTypes, [Next]_vars
  PROVE  DialTypes'
<1> USE DEF vars, clientVars, dialVars, readVars, Before, Dialed
<1>1. ASSUME NEW m, ClientSends(m)
      PROVE  DialTypes'
  BY <1>1, DialTypesKept DEF ClientSends
<1>2. CASE ClientCloses
  BY <1>2, DialTypesKept DEF ClientCloses
<1>3. CASE Fill
  BY <1>3, DialTypesKept DEF Fill
<1>4. CASE ReadGreeting
  BY <1>4, DialTypesKept DEF ReadGreeting, ReadMessage, WriteThen
<1>5. CASE ReadLogin
  BY <1>5, DialTypesKept DEF ReadLogin, ReadMessage, WriteThen
<1>6. CASE ReadRequest
  <2>1. bufConn \in Seq(Messages) /\ bufConn # <<>> /\ pc = "request"
    BY <1>6 DEF ReadRequest, ReadMessage, IInv, TypeInv
  <2>2. Head(bufConn) \in Messages
    BY <2>1
  <2>3. asked' = asked \/ (asked' = Head(bufConn) /\ Head(bufConn).kind = "request")
    BY <1>6 DEF ReadRequest, IsRequest
  <2>4. asked' \in Requests \cup {None}
    BY <2>2, <2>3, Kinds DEF DialTypes
  <2>5. UNCHANGED <<exitRelays, target, relay, published>>
    BY <1>6 DEF ReadRequest, ReadMessage
  <2>6. pc' \in {"closed", "resolving"}
    BY <1>6 DEF ReadRequest, Refuse
  <2> QED
    BY <2>1, <2>4, <2>5, <2>6 DEF DialTypes
<1>7. CASE ReadEnds
  BY <1>7, DialTypesKept DEF ReadEnds
<1>8. CASE Resolve
  BY <1>8, DialTypesKept DEF Resolve, Refuse
<1>9. CASE HandleConnect
  <2> DEFINE t == dialTarget(Addr, targetKey, DefaultRelays)
  <2>1. /\ pc = "switch" /\ published = {} /\ relay = 1 /\ asked \in Requests
        /\ targetKey \in PubKeys \cup {NoKey}
    BY <1>9 DEF HandleConnect, IInv, DialInv, TypeInv, Asked, DialTypes
  <2>2. /\ UNCHANGED <<exitRelays, asked, relay, published>>
        /\ \/ target' = target /\ pc' = "closed"
           \/ target' = t /\ t # Failed /\ pc' = "dialing"
    BY <1>9 DEF HandleConnect, Refuse
  <2> HIDE DEF t
  <2>3. CASE target' = target /\ pc' = "closed"
    BY <2>2, <2>3, DialTypesKept
  <2>4. CASE target' = t /\ t # Failed /\ pc' = "dialing"
    <3>1. t \in Targets
      BY <2>1, <2>4, TargetType DEF t, Addr
    <3>2. 1 \in 1..(Len(t.relays) + 1) /\ t # None
      BY <3>1, SessionAssumption DEF SessionAssumption, Targets
    <3> QED
      BY <2>1, <2>2, <2>4, <3>1, <3>2 DEF DialTypes
  <2> QED
    BY <2>2, <2>3, <2>4
<1>10. CASE HandleBindAssociate
  BY <1>10, DialTypesKept DEF HandleBindAssociate, Refuse
<1>11. CASE HandleUnsupported
  BY <1>11, DialTypesKept DEF HandleUnsupported, Refuse
<1>12. CASE DialPublishes \/ DialSkips
  <2>1. /\ pc = "dialing" /\ pc' = pc /\ relay \in DOMAIN target.relays
        /\ UNCHANGED <<exitRelays, asked, target>> /\ relay' = relay + 1
        /\ published' \subseteq published \cup {relay}
    BY <1>12 DEF DialPublishes, DialSkips, Dialing
  <2>2. target # None
    BY <2>1 DEF DialTypes
  <2>3. relay + 1 \in 1..(Len(target.relays) + 1)
    BY <2>1, <2>2 DEF DialTypes, Targets
  <2> QED
    BY <2>1, <2>2, <2>3 DEF DialTypes
<1>13. CASE DialFails
  <2>1. /\ pc = "dialing" /\ pc' = "closed" /\ relay \in DOMAIN target.relays
        /\ UNCHANGED <<exitRelays, asked, targetKey, target, relay>>
        /\ published' \subseteq published \cup {relay}
    BY <1>13 DEF DialFails, Refuse, Dialing, readVars, clientVars
  <2>2. target # None
    BY <2>1 DEF DialTypes
  <2> QED
    BY <2>1, <2>2 DEF DialTypes
<1>14. CASE ReplySuccess
  BY <1>14, DialTypesKept DEF ReplySuccess, WriteThen
<1>15. CASE ReceiveTarget
  BY <1>15, DialTypesKept DEF ReceiveTarget
<1>16. CASE Forward
  BY <1>16, DialTypesKept DEF Forward
<1>17. CASE ProxyEnds
  BY <1>17, DialTypesKept DEF ProxyEnds
<1>18. CASE \E key \in PubKeys : ExitHandles(key)
  BY <1>18, DialTypesKept DEF ExitHandles
<1>19. CASE UNCHANGED vars
  BY <1>19, DialTypesKept
<1>20. Client => DialTypes'
  BY <1>1, <1>2 DEF Client
<1>21. Server => DialTypes'
  BY <1>3, <1>4, <1>5, <1>6, <1>7, <1>8, <1>9, <1>10, <1>11, <1>12, <1>13, <1>14, <1>15, <1>16
     DEF Server
<1> QED
  BY <1>17, <1>18, <1>19, <1>20, <1>21 DEF Next

(* The types hold in every state.                                          *)
LEMMA DialTypesInvariant == SafetySpec => []DialTypes
<1>1. Init => DialTypes
  BY DEF Init, DialTypes, Dialed
<1>2. IInv /\ DialTypes /\ [Next]_vars => DialTypes'
  BY DialTypesStep
<1> QED
  BY <1>1, <1>2, Invariance, PTL DEF SafetySpec

-----------------------------------------------------------------------------
(* The type invariant, for every set of configurations, requests and       *)
(* relays: DialSocks has a target with a key, or none, and a list of       *)
(* URLs; its loop (dial.go:69-79) stays within that list, and published    *)
(* names relays of it only.                                                *)
THEOREM TypeCorrect == SafetySpec => []TypeOK
<1>1. IInv /\ DialTypes => TypeOK
  BY DEF IInv, TypeInv, DialTypes, TypeOK, Asked, Dialed
<1> QED
  BY <1>1, Invariance, DialTypesInvariant, PTL

(* For relays of any number and length, the name that an exit node prints  *)
(* leads an entry node to its key and relays if and only if there are      *)
(* relays, no URL has more than 39 bytes and the name not more than 253    *)
(* characters (exit.go:133-151 with conn.go:286-329).                      *)
THEOREM PrintedDomainWorksHolds == SafetySpec => []PrintedDomainWorks
<1>1. DialTypes => PrintedDomainWorks
  <2> SUFFICES ASSUME DialTypes, NEW key \in PubKeys
               PROVE  Encodable(exitRelays[key]) <=>
                        dialTarget(PrintedHost(key), NoKey, DefaultRelays) =
                          Target(key, exitRelays[key])
    BY DEF PrintedDomainWorks
  <2>1. exitRelays[key] \in Seq(Urls)
    BY SessionAssumption DEF SessionAssumption, DialTypes
  <2> QED
    BY <2>1, PrintedRoute DEF PrintedHost
<1> QED
  BY <1>1, DialTypesInvariant, PTL
=============================================================================
