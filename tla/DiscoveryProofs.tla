--------------------------- MODULE DiscoveryProofs ---------------------------
(***************************************************************************)
(* Discovery, for every set of nodes, number of relays, period and bounds. *)
(* An announcement on a relay is never younger than the time for which its *)
(* node has been down; and while a node publishes or sleeps, every relay   *)
(* that is still connected, and on which the loop has not failed, has what *)
(* the loop has published so far.                                          *)
(***************************************************************************)
EXTENDS Discovery, TLAPS

(* created_at was a moment at which the node was running.                  *)
AgeInv ==
  /\ \A n \in Nodes, r \in Relays : downFor[n] <= stored[n][r]
  /\ \A n \in Nodes : announcer[n] # "down" => downFor[n] = 0

(* What the loop over the relays has done with the current event.          *)
LoopInv ==
  \A n \in Nodes : \A r \in live[n] \ failed[n] :
    /\ (announcer[n] = "announcing" /\ r < relay[n]) => stored[n][r] <= eventAge[n]
    /\ announcer[n] = "sleeping" => stored[n][r] <= MaxLatency + slept[n]

IInv ==
  /\ TypeOK
  /\ AgeInv
  /\ LoopInv

-----------------------------------------------------------------------------
LEMMA AgeFacts ==
  /\ Old \in Nat \ {0}
  /\ \A a \in Ages : Older(a) \in Ages /\ a <= Older(a) /\ Older(a) <= a + 1
  /\ \A a, b \in Ages : a <= b => Older(a) <= Older(b)
  /\ Ages \subseteq Nat /\ 0 \in Ages /\ Old \in Ages
  /\ 0..MaxLatency \subseteq Ages
  BY DiscoveryAssumption DEF Old, Ages, Older

LEMMA InitIInv == Init => IInv
<1> SUFFICES ASSUME Init
             PROVE  IInv
  OBVIOUS
<1>1. 1 \in 1..(NRelays + 1) /\ 0 \in 0..MaxLatency /\ 0 \in 0..Ten /\ 0 \in 0..MaxWait
  BY DiscoveryAssumption
<1>2. TypeOK
  BY <1>1, AgeFacts DEF Init, TypeOK
<1>3. AgeInv
  BY AgeFacts DEF Init, AgeInv
<1>4. QED
  BY <1>2, <1>3 DEF Init, IInv, LoopInv

(* What the types say of the numbers.                                      *)
LEMMA Numbers ==
  ASSUME TypeOK, NEW n \in Nodes
  PROVE  /\ eventAge[n] \in 0..MaxLatency /\ slept[n] \in 0..Ten /\ downFor[n] \in Ages
         /\ relay[n] \in 1..(NRelays + 1) /\ live[n] \subseteq Relays
         /\ failed[n] \subseteq Relays
         /\ \A r \in Relays : stored[n][r] \in Ages
         /\ waited \in 0..MaxWait
  BY DEF TypeOK

(* Every step of a node, of the entry node and of time preserves it.       *)
LEMMA NextIInv == IInv /\ [Next]_vars => IInv'
<1> SUFFICES ASSUME IInv, [Next]_vars
             PROVE  IInv'
  OBVIOUS
<1>a. Ages \subseteq Nat /\ 0 \in Ages /\ 0..MaxLatency \subseteq Ages
  BY AgeFacts
<1>b. /\ 1 \in 1..(NRelays + 1) /\ 0 \in 0..MaxLatency /\ 0 \in 0..Ten /\ 0 \in 0..MaxWait
      /\ MaxLatency \in Nat /\ Ten \in Nat /\ NRelays \in Nat
  BY DiscoveryAssumption
<1> USE <1>a, <1>b DEF IInv, TypeOK, AgeInv, LoopInv, nodeVars, queryVars
<1>1. ASSUME NEW n \in Nodes, NEW connected \in SUBSET Relays, Start(n, connected)
      PROVE  IInv'
  <2>1. TypeOK'
    BY <1>1 DEF Start
  <2>2. AgeInv'
    <3>1. ASSUME NEW k \in Nodes, NEW r \in Relays
          PROVE  downFor'[k] <= stored'[k][r]
      <4>1. stored[k][r] \in Nat /\ stored'[k][r] = stored[k][r]
        BY <1>1, Numbers DEF Start
      <4>2. downFor'[k] = IF k = n THEN 0 ELSE downFor[k]
        BY <1>1 DEF Start
      <4>3. QED
        BY <4>1, <4>2
    <3>2. QED
      BY <1>1, <3>1 DEF Start
  <2>3. LoopInv'
    BY <1>1 DEF Start
  <2>4. QED
    BY <2>1, <2>2, <2>3
<1>2. ASSUME NEW n \in Nodes, CreateEvent(n)
      PROVE  IInv'
  <2>1. TypeOK' /\ AgeInv'
    BY <1>2 DEF CreateEvent
  <2>2. LoopInv'
    <3>1. ASSUME NEW k \in Nodes, NEW q \in live'[k] \ failed'[k]
          PROVE  /\ (announcer'[k] = "announcing" /\ q < relay'[k])
                       => stored'[k][q] <= eventAge'[k]
                 /\ announcer'[k] = "sleeping" => stored'[k][q] <= MaxLatency + slept'[k]
      <4>1. live' = live /\ stored' = stored /\ live[k] \subseteq Relays
        BY <1>2 DEF CreateEvent
      <4>2. q \in Relays /\ ~ (q < 1)
        BY <3>1, <4>1 DEF Relays
      <4>3. CASE k = n
        BY <1>2, <4>2, <4>3 DEF CreateEvent
      <4>4. CASE k # n
        <5>1. /\ announcer'[k] = announcer[k] /\ relay'[k] = relay[k] /\ failed'[k] = failed[k]
              /\ eventAge'[k] = eventAge[k] /\ slept'[k] = slept[k]
          BY <1>2, <4>4 DEF CreateEvent
        <5>2. QED
          BY <3>1, <4>1, <5>1
      <4>5. QED
        BY <4>3, <4>4
    <3>2. QED
      BY <3>1
  <2>3. QED
    BY <2>1, <2>2
<1>3. ASSUME NEW n \in Nodes, PublishEvent(n)
      PROVE  IInv'
  <2> DEFINE r == relay[n]
  <2> DEFINE published == [stored EXCEPT ![n][r] = eventAge[n]]
  <2>1. /\ announcer[n] = "announcing" /\ r \in Relays
        /\ relay' = [relay EXCEPT ![n] = r + 1]
        /\ UNCHANGED <<announcer, live, eventAge, slept, downFor, queryVars>>
    BY <1>3 DEF PublishEvent
  <2>2. eventAge[n] \in Ages /\ eventAge[n] \in Nat /\ r + 1 \in 1..(NRelays + 1) /\ r \in Nat
    BY <2>1 DEF Relays
  <2>o. /\ stored' \in {stored, published}
        /\ \/ stored' = published /\ failed' = failed
           \/ failed' = [failed EXCEPT ![n] = @ \cup {r}]
    BY <1>3 DEF PublishEvent, PublishSucceeds, PublishFails
  <2>3. /\ stored' \in [Nodes -> [Relays -> Ages]]
        /\ failed' \in [Nodes -> SUBSET Relays]
        /\ \A k \in Nodes : failed[k] \subseteq failed'[k]
        /\ \A k \in Nodes, q \in Relays : ~ (k = n /\ q = r) => stored'[k][q] = stored[k][q]
        /\ stored'[n][r] \in {stored[n][r], eventAge[n]}
        /\ stored'[n][r] = eventAge[n] \/ r \in failed'[n]
    <3>1. /\ n \in Nodes
          /\ failed \in [Nodes -> SUBSET Relays]
          /\ stored \in [Nodes -> [Relays -> Ages]]
      OBVIOUS
    <3>2. /\ failed' \in [Nodes -> SUBSET Relays]
          /\ \A k \in Nodes : failed[k] \subseteq failed'[k]
      <4>1. CASE failed' = failed
        BY <3>1, <4>1
      <4>2. CASE failed' = [failed EXCEPT ![n] = @ \cup {r}]
        BY <2>1, <3>1, <4>2
      <4>3. QED
        BY <2>o, <4>1, <4>2
    <3>3. /\ published \in [Nodes -> [Relays -> Ages]]
          /\ \A k \in Nodes, q \in Relays :
               ~ (k = n /\ q = r) => published[k][q] = stored[k][q]
          /\ published[n][r] = eventAge[n]
      BY ONLY <2>1, <2>2, <3>1
    <3>4. stored'[n][r] = eventAge[n] \/ r \in failed'[n]
      <4>1. CASE stored' = published
        BY <3>3, <4>1
      <4>2. CASE failed' = [failed EXCEPT ![n] = @ \cup {r}]
        BY ONLY <3>1, <4>2
      <4>3. QED
        BY <2>o, <4>1, <4>2
    <3>5. HIDE DEF published
    <3>6. QED
      BY ONLY <2>o, <3>1, <3>2, <3>3, <3>4
  <2>4. TypeOK'
    BY <2>1, <2>2, <2>3
  <2>5. AgeInv'
    <3>1. downFor[n] = 0
      BY <2>1
    <3>2. ASSUME NEW k \in Nodes, NEW q \in Relays
          PROVE  downFor[k] <= stored'[k][q]
      <4>1. CASE k = n /\ q = r
        <5>1. downFor[n] <= stored[n][r] /\ downFor[n] <= eventAge[n]
          BY <2>1, <2>2, <3>1
        <5>2. QED
          BY <2>3, <4>1, <5>1
      <4>2. CASE ~ (k = n /\ q = r)
        BY <2>3, <4>2
      <4>3. QED
        BY <4>1, <4>2
    <3>3. QED
      BY <2>1, <3>2
  <2>6. ASSUME NEW k \in Nodes, NEW q \in live'[k] \ failed'[k]
        PROVE  /\ (announcer'[k] = "announcing" /\ q < relay'[k]) => stored'[k][q] <= eventAge'[k]
               /\ announcer'[k] = "sleeping" => stored'[k][q] <= MaxLatency + slept'[k]
    <3>1. q \in live[k] \ failed[k] /\ q \in Relays /\ q \in Nat
      BY <2>1, <2>3, <2>6 DEF Relays
    <3>2. CASE k = n
      <4>1. CASE q = r
        BY <2>1, <2>2, <2>3, <2>6, <3>2, <4>1
      <4>2. CASE q # r
        <5>1. stored'[k][q] = stored[k][q]
          BY <2>3, <3>1, <3>2, <4>2
        <5>2. q < relay'[k] => q < relay[k]
          <6>1. relay'[k] = r + 1 /\ relay[k] = r
            BY <2>1, <3>2
          <6>2. HIDE DEF r
          <6>3. q < r + 1 => q < r
            BY <2>2, <3>1, <4>2
          <6>4. QED
            BY <6>1, <6>3
        <5>3. QED
          BY <2>1, <3>1, <5>1, <5>2
      <4>3. QED
        BY <4>1, <4>2
    <3>3. CASE k # n
      <4>1. stored'[k][q] = stored[k][q] /\ relay'[k] = relay[k]
        BY <2>1, <2>3, <3>1, <3>3
      <4>2. QED
        BY <2>1, <3>1, <4>1
    <3>4. QED
      BY <3>2, <3>3
  <2>7. QED
    BY <2>4, <2>5, <2>6
<1>4. ASSUME NEW n \in Nodes, Sleep(n)
      PROVE  IInv'
  <2>1. TypeOK' /\ AgeInv'
    BY <1>4 DEF Sleep
  <2>2. relay[n] = NRelays + 1 /\ slept[n] \in Nat
    BY <1>4 DEF Sleep, Relays
  <2>3. ASSUME NEW q \in live[n] \ failed[n]
        PROVE  stored[n][q] <= MaxLatency + slept[n]
    <3>1. stored[n][q] <= eventAge[n] /\ stored[n][q] \in Nat
      <4>1. q \in Relays /\ stored[n][q] \in Ages
        BY <2>3, Numbers
      <4>2. q < relay[n] /\ announcer[n] = "announcing"
        BY <1>4, <2>2, <4>1 DEF Sleep, Relays
      <4>3. QED
        BY <2>3, <4>1, <4>2
    <3>2. eventAge[n] \in 0..MaxLatency
      OBVIOUS
    <3>3. QED
      BY <2>2, <3>1, <3>2
  <2>4. LoopInv'
    BY <1>4, <2>3 DEF Sleep
  <2>5. QED
    BY <2>1, <2>4
<1>5. ASSUME NEW n \in Nodes, NEW r \in Relays, LoseConnection(n, r)
      PROVE  IInv'
  BY <1>5 DEF LoseConnection
<1>6. ASSUME NEW n \in Nodes, Crash(n)
      PROVE  IInv'
  BY <1>6 DEF Crash
<1>7. CASE Resolve
  BY <1>7 DEF Resolve
<1>8. ASSUME NEW n \in Nodes, ResolveReturns(n)
      PROVE  IInv'
  BY <1>8 DEF ResolveReturns
<1>9. CASE ResolveFails
  BY <1>9 DEF ResolveFails
<1>10. CASE Tick
  <2>1. TypeOK'
    <3>1. eventAge' \in [Nodes -> 0..MaxLatency]
      <4>1. ASSUME NEW n \in Nodes, announcer[n] = "announcing"
            PROVE  eventAge[n] + 1 \in 0..MaxLatency
        BY <1>10, <4>1, Numbers DEF Tick
      <4>2. QED
        BY <1>10, <4>1 DEF Tick
    <3>2. slept' \in [Nodes -> 0..Ten]
      <4>1. ASSUME NEW n \in Nodes, announcer[n] = "sleeping"
            PROVE  slept[n] + 1 \in 0..Ten
        BY <1>10, <4>1, Numbers DEF Tick
      <4>2. QED
        BY <1>10, <4>1 DEF Tick
    <3>3. \A a \in Ages : Older(a) \in Ages
      BY AgeFacts
    <3>4. stored' \in [Nodes -> [Relays -> Ages]] /\ downFor' \in [Nodes -> Ages]
      BY <1>10, <3>3 DEF Tick
    <3>5. waited' \in 0..MaxWait
      BY <1>10, DiscoveryAssumption DEF Tick
    <3>6. QED
      BY <1>10, <3>1, <3>2, <3>4, <3>5 DEF Tick
  <2>2. ASSUME NEW n \in Nodes, NEW r \in Relays
        PROVE  /\ stored'[n][r] = Older(stored[n][r])
               /\ downFor'[n] = IF announcer[n] = "down" THEN Older(downFor[n]) ELSE 0
    BY <1>10 DEF Tick
  <2>3. AgeInv'
    <3>1. ASSUME NEW n \in Nodes, NEW r \in Relays
          PROVE  downFor'[n] <= stored'[n][r]
      <4>1. stored[n][r] \in Ages /\ downFor[n] \in Ages /\ downFor[n] <= stored[n][r]
        BY Numbers
      <4>2. Older(downFor[n]) <= Older(stored[n][r]) /\ Older(stored[n][r]) \in Nat
        BY <4>1, AgeFacts
      <4>3. CASE announcer[n] = "down"
        <5>1. downFor'[n] = Older(downFor[n]) /\ stored'[n][r] = Older(stored[n][r])
          BY <2>2, <4>3
        <5>2. QED
          BY ONLY <5>1, <4>2
      <4>4. CASE announcer[n] # "down"
        <5>1. downFor'[n] = 0 /\ stored'[n][r] = Older(stored[n][r])
          BY <2>2, <4>4
        <5>2. QED
          BY ONLY <5>1, <4>2, SMT
      <4>5. QED
        BY <4>3, <4>4
    <3>2. ASSUME NEW n \in Nodes, announcer'[n] # "down"
          PROVE  downFor'[n] = 0
      BY <1>10, <3>2 DEF Tick
    <3>3. QED
      BY <3>1, <3>2
  <2>4. ASSUME NEW n \in Nodes, NEW r \in live'[n] \ failed'[n]
        PROVE  /\ (announcer'[n] = "announcing" /\ r < relay'[n]) => stored'[n][r] <= eventAge'[n]
               /\ announcer'[n] = "sleeping" => stored'[n][r] <= MaxLatency + slept'[n]
    <3>1. r \in live[n] \ failed[n] /\ r \in Relays
      BY <1>10, <2>4, Numbers DEF Tick
    <3>2. /\ stored[n][r] \in Nat /\ Older(stored[n][r]) \in Nat
          /\ Older(stored[n][r]) <= stored[n][r] + 1
      BY <3>1, Numbers, AgeFacts
    <3>3. stored'[n][r] <= stored[n][r] + 1 /\ stored'[n][r] \in Nat
      BY <2>2, <3>1, <3>2
    <3>4. eventAge[n] \in Nat /\ slept[n] \in Nat
      BY Numbers
    <3>5. CASE announcer[n] = "announcing"
      <4>1. eventAge'[n] = eventAge[n] + 1 /\ announcer'[n] = "announcing" /\ relay'[n] = relay[n]
        BY <1>10, <3>5 DEF Tick
      <4>2. QED
        BY <3>1, <3>2, <3>3, <3>4, <3>5, <4>1
    <3>6. CASE announcer[n] = "sleeping"
      <4>1. slept'[n] = slept[n] + 1 /\ announcer'[n] = "sleeping"
        BY <1>10, <3>6 DEF Tick
      <4>2. QED
        BY <3>1, <3>2, <3>3, <3>4, <3>6, <4>1
    <3>7. QED
      BY <1>10, <3>5, <3>6 DEF Tick
  <2>5. QED
    BY <2>1, <2>3, <2>4
<1>11. CASE UNCHANGED vars
  BY <1>11 DEF vars
<1>12. QED
  BY <1>1, <1>2, <1>3, <1>4, <1>5, <1>6, <1>7, <1>8, <1>9, <1>10, <1>11 DEF Next, Announcer

LEMMA Invariance == SafetySpec => []IInv
  BY InitIInv, NextIInv, PTL DEF SafetySpec

-----------------------------------------------------------------------------
(* The variables of discovery keep their types.                            *)
THEOREM TypeCorrect == SafetySpec => []TypeOK
  BY Invariance, PTL DEF IInv

(* For every period, latency and number of relays: between two             *)
(* announcements a connected relay that did not refuse the latest one has  *)
(* one that is at most the period and the latency old (nostr.go:19-43).    *)
THEOREM GapBoundedHolds == SafetySpec => []GapBounded
<1>1. IInv => GapBounded
  <2> SUFFICES ASSUME IInv, NEW n \in Nodes, NEW r \in live[n] \ failed[n],
                      announcer[n] = "sleeping"
               PROVE  stored[n][r] <= Ten + MaxLatency
    BY DEF GapBounded
  <2>1. stored[n][r] \in Nat /\ slept[n] \in 0..Ten
    <3>1. r \in Relays
      BY Numbers DEF IInv
    <3>2. stored[n][r] \in Ages /\ slept[n] \in 0..Ten
      BY <3>1, Numbers DEF IInv
    <3>3. QED
      BY <3>2, AgeFacts
  <2>2. stored[n][r] <= MaxLatency + slept[n]
    BY DEF IInv, LoopInv
  <2>3. QED
    BY <2>1, <2>2, DiscoveryAssumption
<1>2. QED
  BY <1>1, Invariance, PTL

(* Resolve never returns a node that was down for longer than its filter   *)
(* allows (dns.go:39-49).                                                  *)
THEOREM ResolvedWasAliveHolds == SafetySpec => ResolvedWasAlive
<1>1. IInv /\ [Next]_vars =>
        [\A n \in Nodes : (query /\ ~ query' /\ answer' = n) => downFor[n] <= Ten + waited]_vars
  <2> SUFFICES ASSUME IInv, Next, NEW n \in Nodes, query, ~ query', answer' = n
               PROVE  downFor[n] <= Ten + waited
    OBVIOUS
  <2>1. ResolveReturns(n)
    BY DiscoveryAssumption
       DEF Next, Start, Announcer, CreateEvent, PublishEvent, Sleep, Crash, LoseConnection,
           Resolve, ResolveReturns, ResolveFails, Tick, queryVars
  <2>2. PICK r \in Relays : stored[n][r] <= Ten + waited
    BY <2>1 DEF ResolveReturns, Matches
  <2>3. /\ downFor[n] <= stored[n][r] /\ downFor[n] \in Nat /\ stored[n][r] \in Nat
        /\ waited \in Nat /\ Ten \in Nat
    <3>1. downFor[n] \in Ages /\ stored[n][r] \in Ages /\ waited \in 0..MaxWait
      BY Numbers DEF IInv
    <3>2. Ages \subseteq Nat /\ MaxWait \in Nat /\ Ten \in Nat
      BY AgeFacts, DiscoveryAssumption
    <3>3. downFor[n] \in Nat /\ stored[n][r] \in Nat /\ waited \in Nat
      <4>1. \A i \in 0..MaxWait : i \in Nat
        BY <3>2
      <4>2. QED
        BY <3>1, <3>2, <4>1
    <3>4. downFor[n] <= stored[n][r]
      BY DEF IInv, AgeInv
    <3>5. QED
      BY <3>2, <3>3, <3>4
  <2>4. QED
    BY <2>2, <2>3
<1>2. QED
  BY <1>1, Invariance, PTL DEF SafetySpec, ResolvedWasAlive
=============================================================================
