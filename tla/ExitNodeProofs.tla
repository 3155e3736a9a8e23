--------------------------- MODULE ExitNodeProofs ---------------------------
(***************************************************************************)
(* The exit node, for every set of keys, number of data events and of      *)
(* copies: a backend receives no event twice, nothing that Read has taken  *)
(* is lost, and the exit node implements KeyedLock's client and Datagrams. *)
(*                                                                         *)
(* AtMostOnce is not inductive: it needs that what a backend has and what  *)
(* is on its way to it has been entered in readIDs (ReadInv), that a       *)
(* connection is set up once (SetupInv), and, for AcceptedNotLost, that    *)
(* while the connection is up readIDs holds nothing else.                  *)
(***************************************************************************)
EXTENDS ExitNode, TLAPS

Received(h) == handler[h] # "none"

LockInv ==
  \A g, h \in Handlers :
    g # h /\ HoldsLock(g) /\ HoldsLock(h) => g.event.key # h.event.key

(* Connections of a key are looked up by that key only.                    *)
KeyInv ==
  /\ \A k \in Keys : nostrConnectionMap[k] # NoConn => nostrConnectionMap[k].key = k
  /\ \A h \in Handlers :
       /\ dst[h] # NoConn =>
            dst[h].key = h.event.key /\ handler[h] \in {"sending", "returned"}
       /\ handler[h] = "sending" => dst[h] # NoConn /\ h.event.seq # 0

(* A connection exists only once its CONNECT has been handled.             *)
SetupInv ==
  \A c \in Conns :
    /\ sock[c] = "none" <=> reader[c] = "none"
    /\ writer[c] = "none" <=> reader[c] = "none"
    /\ reader[c] = "none" => readIDs[c] = {}
    /\ reader[c] # "none" =>
         \A h \in Handlers : h.event.seq = 0 /\ ConnOf(h) = c => handler[h] = "returned"

Up(c) == ~ ctxDone[c] /\ peer[c] = "open"

ReadInv ==
  \A c \in Conns :
    /\ \A e \in readIDs[c] :
         e.key = c.key /\ e.seq # 0 /\ \E h \in Handlers : h.event = e /\ Received(h)
    /\ Range(delivered[c]) \cup Range(buffer[c]) \subseteq readIDs[c]
    /\ Up(c) => readIDs[c] \subseteq Range(delivered[c]) \cup Range(buffer[c])
    /\ reader[c] \in {"none", "polling"} => buffer[c] = <<>>
    /\ reader[c] = "writing" =>
         \E e \in readIDs[c] : buffer[c] = <<e>> /\ e \notin Range(delivered[c])

(* What a handler has passed on, Read has seen.                            *)
HandedInv ==
  \A h \in Handlers :
    (h.event.seq # 0 /\ handler[h] = "returned" /\ dst[h] # NoConn)
      => h.event \in readIDs[dst[h]]

IInv ==
  /\ TypeOK
  /\ LockInv
  /\ KeyInv
  /\ SendsToCurrent
  /\ SetupInv
  /\ ReadInv
  /\ HandedInv
  /\ AtMostOnce

-----------------------------------------------------------------------------
(* Sequences: what appending one event does to the range.                  *)
LEMMA RangeAppend ==
  ASSUME NEW S, NEW s \in Seq(S), NEW e \in S
  PROVE  Range(s \o <<e>>) = Range(s) \cup {e}
<1>1. /\ DOMAIN (s \o <<e>>) = 1..(Len(s) + 1)
      /\ \A i \in 1..Len(s) : (s \o <<e>>)[i] = s[i]
      /\ (s \o <<e>>)[Len(s) + 1] = e
      /\ DOMAIN s = 1..Len(s)
      /\ Len(s) \in Nat
  OBVIOUS
<1>2. \A x : x \in Range(s \o <<e>>) <=> x \in Range(s) \cup {e}
  BY <1>1 DEF Range
<1> QED
  BY <1>2

LEMMA InjectiveAppend ==
  ASSUME NEW S, NEW s \in Seq(S), NEW e \in S, IsInjective(s), e \notin Range(s)
  PROVE  IsInjective(s \o <<e>>)
<1>1. /\ DOMAIN (s \o <<e>>) = 1..(Len(s) + 1)
      /\ \A i \in 1..Len(s) : (s \o <<e>>)[i] = s[i]
      /\ (s \o <<e>>)[Len(s) + 1] = e
      /\ DOMAIN s = 1..Len(s)
      /\ Len(s) \in Nat
  OBVIOUS
<1>2. \A i \in 1..Len(s) : s[i] # e
  BY <1>1 DEF Range
<1> QED
  BY <1>1, <1>2 DEF IsInjective

LEMMA RangeSmall ==
  /\ Range(<<>>) = {}
  /\ \A e : Range(<<e>>) = {e}
  /\ IsInjective(<<>>)
BY DEF Range, IsInjective

LEMMA InitIInv == Init => IInv
<1> SUFFICES ASSUME Init
             PROVE  IInv
  OBVIOUS
<1>1. TypeOK
  BY DEF Init, TypeOK
<1>2. LockInv /\ KeyInv /\ SendsToCurrent /\ SetupInv /\ HandedInv
  BY ExitAssumption DEF Init, LockInv, KeyInv, SendsToCurrent, SetupInv, HandedInv, HoldsLock
<1>3. ReadInv /\ AtMostOnce
  BY RangeSmall DEF Init, ReadInv, AtMostOnce, Up
<1> QED
  BY <1>1, <1>2, <1>3 DEF IInv

-----------------------------------------------------------------------------
(* Events, handlers and connections are records.                           *)
LEMMA Names ==
  /\ \A h \in Handlers :
       /\ h.event \in Events /\ h.event.key \in Keys /\ ConnOf(h) \in Conns
       /\ ConnOf(h).key = h.event.key
  /\ \A c \in Conns : c.key \in Keys /\ c # NoConn
  /\ \A g, h \in Handlers :
       g.event.seq = 0 /\ h.event.seq = 0 /\ ConnOf(g) = ConnOf(h) => g = h
<1>1. \A h \in Handlers :
        /\ h.event \in Events /\ h.event.key \in Keys /\ ConnOf(h) \in Conns
        /\ ConnOf(h).key = h.event.key
  BY DEF Handlers, Events, Conns, ConnOf
<1>2. \A c \in Conns : c.key \in Keys /\ c # NoConn
  BY ExitAssumption DEF Conns
<1>3. ASSUME NEW g \in Handlers, NEW h \in Handlers,
             g.event.seq = 0, h.event.seq = 0, ConnOf(g) = ConnOf(h)
      PROVE  g = h
  <2>1. g.copy = h.copy /\ g.event.key = h.event.key
    BY <1>3 DEF ConnOf
  <2>2. g.event = h.event
    BY <1>3, <2>1 DEF Handlers, Events
  <2> QED
    BY <2>1, <2>2 DEF Handlers
<1> QED
  BY <1>1, <1>2, <1>3

(* Steps that move one handler, and nothing else, from a place where it    *)
(* does not hold the lock.                                                 *)
LEMMA HandlerMoves ==
  ASSUME IInv, NEW h \in Handlers, NEW from, NEW to, Goto(h, from, to),
         from \in {"none", "started", "waiting", "locked"},
         to \in {"started", "waiting", "locked", "returned"},
         from = "waiting" => \A g \in Handlers : HoldsLock(g) => g.event.key # h.event.key,
         to = "locked" => from = "waiting",
         UNCHANGED <<dst, nostrConnectionMap, connVars>>
  PROVE  IInv'
<1>1. /\ handler[h] = from
      /\ handler' = [handler EXCEPT ![h] = to]
      /\ handler \in [Handlers -> {"none", "started", "waiting", "locked", "sending", "returned"}]
  BY DEF Goto, IInv, TypeOK
<1>2. dst[h] = NoConn
  BY <1>1, Names DEF IInv, KeyInv, TypeOK
<1>3. TypeOK'
  BY <1>1 DEF IInv, TypeOK, connVars
<1>4. LockInv'
  BY <1>1 DEF IInv, LockInv, HoldsLock
<1>5. KeyInv' /\ SendsToCurrent'
  BY <1>1, <1>2 DEF IInv, KeyInv, SendsToCurrent
<1>6. SetupInv'
  BY <1>1 DEF IInv, SetupInv, connVars, ConnOf
<1>7. ReadInv'
  <2>1. \A g \in Handlers : Received(g) => Received(g)'
    BY <1>1 DEF Received
  <2> QED
    BY <2>1 DEF IInv, ReadInv, connVars, Up
<1>8. HandedInv'
  BY <1>1, <1>2 DEF IInv, HandedInv, connVars
<1>9. AtMostOnce'
  BY DEF IInv, AtMostOnce, connVars
<1> QED
  BY <1>3, <1>4, <1>5, <1>6, <1>7, <1>8, <1>9 DEF IInv

(* Steps of a proxy that take nothing from a handler.                      *)
LEMMA HandlersStay ==
  ASSUME IInv, UNCHANGED <<handlerVars, readIDs>>
  PROVE  LockInv' /\ KeyInv' /\ SendsToCurrent' /\ HandedInv'
BY DEF IInv, LockInv, KeyInv, SendsToCurrent, HandedInv, HoldsLock, handlerVars

LEMMA SocketCloses ==
  ASSUME IInv, NEW c \in Conns, CloseBoth(c),
         reader[c] # "none",
         reader' = reader \/ reader' = [reader EXCEPT ![c] = "ended"],
         writer' = writer \/ writer' = [writer EXCEPT ![c] = "ended"],
         writer[c] # "none",
         UNCHANGED <<handlerVars, readIDs, buffer, peer, delivered>>
  PROVE  IInv'
<1>1. TypeOK'
  BY DEF IInv, TypeOK, CloseBoth, handlerVars
<1>2. SetupInv'
  BY DEF IInv, TypeOK, SetupInv, CloseBoth, handlerVars, ConnOf
<1>3. ReadInv'
  <2>1. \A d \in Conns : Up(d)' => Up(d)
    BY DEF Up, CloseBoth, IInv, TypeOK
  <2>2. \A d \in Conns : reader'[d] = reader[d] \/ reader'[d] = "ended"
    BY DEF IInv, TypeOK
  <2>3. \A h \in Handlers : Received(h)' <=> Received(h)
    BY DEF Received, handlerVars
  <2> QED
    BY <2>1, <2>2, <2>3 DEF IInv, ReadInv
<1>4. AtMostOnce'
  BY DEF IInv, AtMostOnce
<1> QED
  BY <1>1, <1>2, <1>3, <1>4, HandlersStay DEF IInv

LEMMA DialPreserves ==
  ASSUME IInv, NEW h \in Handlers, DialSucceeds(h)
  PROVE  IInv'
<1> DEFINE c == ConnOf(h)
<1>1. /\ h.event.seq = 0
      /\ handler[h] = "locked"
      /\ handler' = [handler EXCEPT ![h] = "returned"]
      /\ nostrConnectionMap' = [nostrConnectionMap EXCEPT ![h.event.key] = c]
      /\ sock' = [sock EXCEPT ![c] = "open"]
      /\ reader' = [reader EXCEPT ![c] = "polling"]
      /\ writer' = [writer EXCEPT ![c] = "reading"]
      /\ UNCHANGED <<dst, readIDs, buffer, ctxDone, peer, delivered>>
  BY DEF DialSucceeds, Goto
<1>2. c \in Conns /\ c.key = h.event.key /\ h.event.key \in Keys
  BY Names
<1> HIDE DEF c
<1>3. dst[h] = NoConn
  BY <1>1 DEF IInv, KeyInv
<1>4. reader[c] = "none"
  BY <1>1, <1>2 DEF IInv, SetupInv, c
<1>5. TypeOK'
  BY <1>1, <1>2 DEF IInv, TypeOK
<1>6. LockInv'
  BY <1>1 DEF IInv, TypeOK, LockInv, HoldsLock
<1>7. KeyInv'
  BY <1>1, <1>2, <1>3 DEF IInv, TypeOK, KeyInv
<1>8. SendsToCurrent'
  <2> SUFFICES ASSUME NEW g \in Handlers, handler'[g] = "sending"
               PROVE  dst'[g] = nostrConnectionMap'[g.event.key]
    BY DEF SendsToCurrent
  <2>1. g # h /\ handler[g] = "sending"
    BY <1>1 DEF IInv, TypeOK
  <2>2. g.event.key # h.event.key
    BY <1>1, <2>1 DEF IInv, LockInv, HoldsLock
  <2> QED
    BY <1>1, <2>1, <2>2, Names DEF IInv, TypeOK, SendsToCurrent
<1>9. SetupInv'
  <2> SUFFICES ASSUME NEW d \in Conns
               PROVE  /\ (sock[d] = "none" <=> reader[d] = "none")'
                      /\ (writer[d] = "none" <=> reader[d] = "none")'
                      /\ (reader[d] = "none" => readIDs[d] = {})'
                      /\ reader'[d] # "none" =>
                           \A g \in Handlers :
                             g.event.seq = 0 /\ ConnOf(g) = d => handler'[g] = "returned"
    BY DEF SetupInv, ConnOf
  <2>1. CASE d = c
    <3>1. \A g \in Handlers : g.event.seq = 0 /\ ConnOf(g) = c => g = h
      BY <1>1, Names DEF c
    <3> QED
      BY <1>1, <1>2, <2>1, <3>1 DEF IInv, TypeOK
  <2>2. CASE d # c
    BY <1>1, <1>2, <2>2 DEF IInv, TypeOK, SetupInv
  <2> QED
    BY <2>1, <2>2
<1>10. ReadInv'
  <2>1. \A g \in Handlers : Received(g) => Received(g)'
    BY <1>1 DEF Received, IInv, TypeOK
  <2>2. buffer[c] = <<>>
    BY <1>2, <1>4 DEF IInv, ReadInv
  <2>3. \A d \in Conns : d # c => reader'[d] = reader[d]
    BY <1>1 DEF IInv, TypeOK
  <2>4. reader'[c] = "polling"
    BY <1>1, <1>2 DEF IInv, TypeOK
  <2> QED
    BY <1>1, <2>1, <2>2, <2>3, <2>4 DEF IInv, ReadInv, Up
<1>11. HandedInv'
  BY <1>1 DEF IInv, TypeOK, HandedInv
<1>12. AtMostOnce'
  BY <1>1 DEF IInv, AtMostOnce
<1> QED
  BY <1>5, <1>6, <1>7, <1>8, <1>9, <1>10, <1>11, <1>12 DEF IInv

LEMMA LoadPreserves ==
  ASSUME IInv, NEW h \in Handlers, LoadConnection(h)
  PROVE  IInv'
<1> DEFINE c == nostrConnectionMap[h.event.key]
<1>1. /\ h.event.seq # 0
      /\ handler[h] = "locked"
      /\ handler' = [handler EXCEPT ![h] = IF c = NoConn THEN "returned" ELSE "sending"]
      /\ dst' = [dst EXCEPT ![h] = c]
      /\ UNCHANGED <<nostrConnectionMap, connVars>>
  BY DEF LoadConnection, Goto
<1>2. c \in Conns \cup {NoConn} /\ (c # NoConn => c.key = h.event.key)
  BY Names DEF IInv, TypeOK, KeyInv
<1> HIDE DEF c
<1>3. TypeOK'
  BY <1>1, <1>2 DEF IInv, TypeOK, connVars
<1>4. LockInv'
  BY <1>1 DEF IInv, TypeOK, LockInv, HoldsLock
<1>5. KeyInv'
  BY <1>1, <1>2 DEF IInv, TypeOK, KeyInv
<1>6. SendsToCurrent'
  BY <1>1, <1>2 DEF IInv, TypeOK, SendsToCurrent, c
<1>7. SetupInv'
  BY <1>1 DEF IInv, TypeOK, SetupInv, connVars, ConnOf
<1>8. ReadInv'
  <2>1. \A g \in Handlers : Received(g) => Received(g)'
    BY <1>1 DEF Received, IInv, TypeOK
  <2> QED
    BY <1>1, <2>1 DEF IInv, ReadInv, connVars, Up
<1>9. HandedInv'
  BY <1>1 DEF IInv, TypeOK, HandedInv, connVars
<1>10. AtMostOnce'
  BY <1>1 DEF IInv, AtMostOnce, connVars
<1> QED
  BY <1>3, <1>4, <1>5, <1>6, <1>7, <1>8, <1>9, <1>10 DEF IInv

LEMMA SendPreserves ==
  ASSUME IInv, NEW h \in Handlers, WriteNostrEvent(h)
  PROVE  IInv'
<1> DEFINE c == dst[h]
           e == h.event
<1>1. /\ handler[h] = "sending"
      /\ handler' = [handler EXCEPT ![h] = "returned"]
      /\ reader[c] = "polling"
      /\ TakeEvent(c, e)
      /\ UNCHANGED <<dst, nostrConnectionMap, writer, ctxDone, sock, peer, delivered>>
  BY DEF WriteNostrEvent, Goto
<1>2. c \in Conns /\ c.key = e.key /\ e \in Events /\ e.seq # 0
  BY <1>1, Names DEF IInv, TypeOK, KeyInv
<1>3. e \in readIDs'[c] /\ \A d \in Conns : readIDs[d] \subseteq readIDs'[d]
  <2>1. CASE e \in readIDs[c]
    BY <1>1, <2>1 DEF TakeEvent
  <2>2. CASE e \notin readIDs[c]
    <3>1. readIDs' = [readIDs EXCEPT ![c] = @ \cup {e}]
      BY <1>1, <2>2 DEF TakeEvent
    <3> HIDE DEF c, e
    <3> QED
      BY <1>2, <3>1 DEF IInv, TypeOK
  <2> QED
    BY <2>1, <2>2
<1>4. buffer[c] = <<>>
  BY <1>1, <1>2 DEF IInv, ReadInv
<1>5. \A g \in Handlers : Received(g) => Received(g)'
  BY <1>1 DEF Received, IInv, TypeOK
<1>6. h.event = e /\ Received(h)'
  BY <1>1 DEF Received, IInv, TypeOK
<1> HIDE DEF c, e
<1>7. LockInv'
  BY <1>1 DEF IInv, TypeOK, LockInv, HoldsLock
<1>8. KeyInv' /\ SendsToCurrent'
  BY <1>1 DEF IInv, TypeOK, KeyInv, SendsToCurrent
<1>9. AtMostOnce'
  BY <1>1 DEF IInv, AtMostOnce
<1>10. HandedInv'
  <2> SUFFICES ASSUME NEW g \in Handlers, g.event.seq # 0, handler'[g] = "returned",
                      dst'[g] # NoConn
               PROVE  g.event \in readIDs'[dst'[g]]
    BY DEF HandedInv
  <2>1. CASE g = h
    BY <1>1, <1>3, <2>1 DEF c, e
  <2>2. CASE g # h
    <3>1. dst[g] \in Conns /\ handler[g] = "returned"
      BY <1>1, <2>2 DEF IInv, TypeOK
    <3> QED
      BY <1>1, <1>3, <3>1 DEF IInv, HandedInv
  <2> QED
    BY <2>1, <2>2
<1>11. CASE e \in readIDs[c]
  <2>1. UNCHANGED <<readIDs, buffer, reader>>
    BY <1>1, <1>11 DEF TakeEvent
  <2>2. TypeOK' /\ SetupInv'
    BY <1>1, <2>1 DEF IInv, TypeOK, SetupInv, ConnOf
  <2>3. ReadInv'
    BY <1>1, <2>1, <1>5 DEF IInv, ReadInv, Up
  <2> QED
    BY <2>2, <2>3, <1>7, <1>8, <1>9, <1>10 DEF IInv
<1>12. CASE e \notin readIDs[c]
  <2>1. /\ readIDs' = [readIDs EXCEPT ![c] = @ \cup {e}]
        /\ buffer' = [buffer EXCEPT ![c] = <<e>>]
        /\ reader' = [reader EXCEPT ![c] = "writing"]
    BY <1>1, <1>12 DEF TakeEvent
  <2>2. TypeOK'
    BY <1>1, <1>2, <2>1 DEF IInv, TypeOK
  <2>3. SetupInv'
    BY <1>1, <1>2, <2>1 DEF IInv, TypeOK, SetupInv, ConnOf
  <2>4. ReadInv'
    <3> SUFFICES ASSUME NEW d \in Conns
                 PROVE  /\ \A x \in readIDs'[d] :
                             x.key = d.key /\ x.seq # 0 /\ \E g \in Handlers : g.event = x /\ Received(g)'
                        /\ Range(delivered'[d]) \cup Range(buffer'[d]) \subseteq readIDs'[d]
                        /\ Up(d)' => readIDs'[d] \subseteq Range(delivered'[d]) \cup Range(buffer'[d])
                        /\ reader'[d] \in {"none", "polling"} => buffer'[d] = <<>>
                        /\ reader'[d] = "writing" =>
                             \E x \in readIDs'[d] : buffer'[d] = <<x>> /\ x \notin Range(delivered'[d])
      BY DEF ReadInv
    <3>1. CASE d # c
      <4>1. /\ readIDs'[d] = readIDs[d] /\ buffer'[d] = buffer[d]
            /\ reader'[d] = reader[d] /\ delivered'[d] = delivered[d]
            /\ Up(d)' <=> Up(d)
        BY <1>1, <2>1, <3>1 DEF IInv, TypeOK, Up
      <4> QED
        BY <4>1, <1>5 DEF IInv, ReadInv
    <3>2. CASE d = c
      <4>1. /\ readIDs'[d] = readIDs[d] \cup {e} /\ buffer'[d] = <<e>>
            /\ reader'[d] = "writing" /\ delivered'[d] = delivered[d]
        BY <1>1, <1>2, <2>1, <3>2 DEF IInv, TypeOK
      <4>2. Up(d)' <=> Up(d)
        BY <1>1 DEF Up
      <4>3. Range(buffer[d]) = {} /\ Range(buffer'[d]) = {e}
        BY <1>4, <4>1, <3>2, RangeSmall
      <4>4. e \notin Range(delivered[d])
        BY <1>2, <1>12, <3>2 DEF IInv, ReadInv
      <4>5. \A x \in readIDs'[d] :
               x.key = d.key /\ x.seq # 0 /\ \E g \in Handlers : g.event = x /\ Received(g)'
        BY <1>2, <1>5, <1>6, <3>2, <4>1 DEF IInv, ReadInv
      <4>6. /\ Range(delivered[d]) \subseteq readIDs[d]
            /\ Up(d) => readIDs[d] \subseteq Range(delivered[d])
        BY <4>3 DEF IInv, ReadInv
      <4> QED
        BY <4>1, <4>2, <4>3, <4>4, <4>5, <4>6
    <3> QED
      BY <3>1, <3>2
  <2> QED
    BY <2>2, <2>3, <2>4, <1>7, <1>8, <1>9, <1>10 DEF IInv
<1> QED
  BY <1>11, <1>12

LEMMA WriteBackendPreserves ==
  ASSUME IInv, NEW c \in Conns, WriteBackend(c)
  PROVE  IInv'
<1>1. /\ reader[c] = "writing" /\ sock[c] = "open"
      /\ delivered' = [delivered EXCEPT ![c] = IF peer[c] = "open" THEN @ \o buffer[c] ELSE @]
      /\ buffer' = [buffer EXCEPT ![c] = <<>>]
      /\ reader' = [reader EXCEPT ![c] = "polling"]
      /\ UNCHANGED <<handlerVars, writer, readIDs, ctxDone, sock, peer>>
  BY DEF WriteBackend
<1>2. PICK e \in readIDs[c] : buffer[c] = <<e>> /\ e \notin Range(delivered[c])
  BY <1>1 DEF IInv, ReadInv
<1>3. e \in Events /\ delivered[c] \in Seq(Events) /\ IsInjective(delivered[c])
  BY DEF IInv, TypeOK, AtMostOnce
<1>4. delivered'[c] = IF peer[c] = "open" THEN delivered[c] \o <<e>> ELSE delivered[c]
  BY <1>1, <1>2 DEF IInv, TypeOK
<1>5. /\ Range(delivered[c] \o <<e>>) = Range(delivered[c]) \cup {e}
      /\ IsInjective(delivered[c] \o <<e>>)
  BY <1>2, <1>3, RangeAppend, InjectiveAppend
<1>6. \A d \in Conns : d # c => delivered'[d] = delivered[d] /\ buffer'[d] = buffer[d]
                                /\ reader'[d] = reader[d]
  BY <1>1 DEF IInv, TypeOK
<1>7. TypeOK'
  <2>1. delivered[c] \o buffer[c] \in Seq(Events)
    BY DEF IInv, TypeOK
  <2>2. delivered' \in [Conns -> Seq(Events)]
    BY <1>1, <2>1 DEF IInv, TypeOK
  <2>3. buffer' \in [Conns -> Seq(Events)]
    BY <1>1 DEF IInv, TypeOK
  <2> QED
    BY <1>1, <2>2, <2>3 DEF IInv, TypeOK, handlerVars
<1>8. SetupInv'
  BY <1>1 DEF IInv, TypeOK, SetupInv, handlerVars, ConnOf
<1>9. ReadInv'
  <2> SUFFICES ASSUME NEW d \in Conns
               PROVE  /\ \A x \in readIDs'[d] :
                           x.key = d.key /\ x.seq # 0 /\ \E g \in Handlers : g.event = x /\ Received(g)'
                      /\ Range(delivered'[d]) \cup Range(buffer'[d]) \subseteq readIDs'[d]
                      /\ Up(d)' => readIDs'[d] \subseteq Range(delivered'[d]) \cup Range(buffer'[d])
                      /\ reader'[d] \in {"none", "polling"} => buffer'[d] = <<>>
                      /\ reader'[d] = "writing" =>
                           \E x \in readIDs'[d] : buffer'[d] = <<x>> /\ x \notin Range(delivered'[d])
    BY DEF ReadInv
  <2>1. (Up(d)' <=> Up(d)) /\ \A g \in Handlers : Received(g)' <=> Received(g)
    BY <1>1 DEF Up, Received, handlerVars
  <2>2. CASE d # c
    BY <1>1, <1>6, <2>1, <2>2 DEF IInv, ReadInv
  <2>3. CASE d = c
    <3>1. buffer'[d] = <<>> /\ reader'[d] = "polling" /\ readIDs'[d] = readIDs[d]
      BY <1>1, <2>3 DEF IInv, TypeOK
    <3>2. Range(buffer[d]) = {e} /\ Range(buffer'[d]) = {}
      BY <1>2, <2>3, <3>1, RangeSmall
    <3>3. Range(delivered'[d]) \subseteq readIDs[d]
      BY <1>4, <1>5, <2>3, <3>2 DEF IInv, ReadInv
    <3>4. Up(d) => readIDs[d] \subseteq Range(delivered'[d])
      BY <1>4, <1>5, <2>3, <3>2 DEF IInv, ReadInv, Up
    <3>5. \A x \in readIDs'[d] :
             x.key = d.key /\ x.seq # 0 /\ \E g \in Handlers : g.event = x /\ Received(g)'
      BY <2>1, <3>1 DEF IInv, ReadInv
    <3> QED
      BY <2>1, <3>1, <3>2, <3>3, <3>4, <3>5
  <2> QED
    BY <2>2, <2>3
<1>10. AtMostOnce'
  BY <1>4, <1>5, <1>6 DEF IInv, AtMostOnce
<1> QED
  BY <1>1, <1>7, <1>8, <1>9, <1>10, HandlersStay DEF IInv

(* Steps of the writer, or of the backend, that leave the reader alone.    *)
LEMMA OutwardPreserves ==
  ASSUME IInv, NEW c \in Conns, sock[c] # "none",
         \/ writer[c] # "none" /\ peer' = peer
              /\ \E w \in {"reading", "publishing"} : writer' = [writer EXCEPT ![c] = w]
         \/ writer' = writer /\ peer' = [peer EXCEPT ![c] = "closed"],
         UNCHANGED <<handlerVars, reader, readIDs, buffer, ctxDone, sock, delivered>>
  PROVE  IInv'
<1>1. TypeOK'
  <2>1. writer' \in [Conns -> {"none", "reading", "publishing", "ended"}]
    BY DEF IInv, TypeOK
  <2>2. peer' \in [Conns -> {"open", "closed"}]
    BY DEF IInv, TypeOK
  <2> QED
    BY <2>1, <2>2 DEF IInv, TypeOK, handlerVars
<1>2. SetupInv'
  BY DEF IInv, TypeOK, SetupInv, handlerVars, ConnOf
<1>3. ReadInv'
  <2>1. \A d \in Conns : Up(d)' => Up(d)
    BY DEF Up, IInv, TypeOK
  <2>2. \A g \in Handlers : Received(g)' <=> Received(g)
    BY DEF Received, handlerVars
  <2> QED
    BY <2>1, <2>2 DEF IInv, ReadInv
<1>4. AtMostOnce'
  BY DEF IInv, AtMostOnce
<1> QED
  BY <1>1, <1>2, <1>3, <1>4, HandlersStay DEF IInv

(* Every step preserves the inductive invariant.                           *)
LEMMA NextIInv == IInv /\ [Next]_vars => IInv'
<1> SUFFICES ASSUME IInv, [Next]_vars
             PROVE  IInv'
  OBVIOUS
<1>1. ASSUME NEW h \in Handlers, ReceiveEvent(h)
      PROVE  IInv'
  <2>1. Goto(h, "none", "started") /\ UNCHANGED <<dst, nostrConnectionMap, connVars>>
    BY <1>1 DEF ReceiveEvent
  <2> QED
    BY <2>1, HandlerMoves
<1>2. ASSUME NEW h \in Handlers, DecodeMessage(h)
      PROVE  IInv'
  <2>1. /\ Goto(h, "started", "returned") \/ Goto(h, "started", "waiting")
        /\ UNCHANGED <<dst, nostrConnectionMap, connVars>>
    BY <1>2 DEF DecodeMessage
  <2> QED
    BY <2>1, HandlerMoves
<1>3. ASSUME NEW h \in Handlers, LockKey(h)
      PROVE  IInv'
  <2>1. /\ Goto(h, "waiting", "locked")
        /\ \A g \in Handlers : HoldsLock(g) => g.event.key # h.event.key
        /\ UNCHANGED <<dst, nostrConnectionMap, connVars>>
    BY <1>3 DEF LockKey
  <2> QED
    BY <2>1, HandlerMoves
<1>4. ASSUME NEW h \in Handlers, DialFails(h)
      PROVE  IInv'
  <2>1. Goto(h, "locked", "returned") /\ UNCHANGED <<dst, nostrConnectionMap, connVars>>
    BY <1>4 DEF DialFails
  <2> QED
    BY <2>1, HandlerMoves
<1>5. ASSUME NEW h \in Handlers, DialSucceeds(h) \/ LoadConnection(h) \/ WriteNostrEvent(h)
      PROVE  IInv'
  BY <1>5, DialPreserves, LoadPreserves, SendPreserves
<1>6. ASSUME NEW c \in Conns, ReadCancelled(c) \/ WriteBackendFails(c)
      PROVE  IInv'
  <2>1. /\ reader[c] # "none" /\ CloseBoth(c)
        /\ reader' = [reader EXCEPT ![c] = "ended"]
        /\ UNCHANGED <<handlerVars, writer, readIDs, buffer, peer, delivered>>
    BY <1>6 DEF ReadCancelled, WriteBackendFails, EndReader
  <2>2. writer[c] # "none"
    BY <2>1 DEF IInv, SetupInv
  <2> QED
    BY <2>1, <2>2, SocketCloses
<1>7. ASSUME NEW c \in Conns, WriteBackend(c)
      PROVE  IInv'
  BY <1>7, WriteBackendPreserves
<1>8. ASSUME NEW c \in Conns, ReadBackendEnds(c) \/ PublishFails(c)
      PROVE  IInv'
  <2>1. /\ writer[c] # "none" /\ CloseBoth(c)
        /\ writer' = [writer EXCEPT ![c] = "ended"]
        /\ UNCHANGED <<handlerVars, reader, readIDs, buffer, peer, delivered>>
    BY <1>8 DEF ReadBackendEnds, PublishFails, EndWriter
  <2>2. reader[c] # "none"
    BY <2>1 DEF IInv, SetupInv
  <2> QED
    BY <2>1, <2>2, SocketCloses
<1>9. ASSUME NEW c \in Conns, ReadBackend(c) \/ Publish(c)
      PROVE  IInv'
  <2>1. /\ writer[c] # "none" /\ peer' = peer
        /\ \E w \in {"reading", "publishing"} : writer' = [writer EXCEPT ![c] = w]
        /\ UNCHANGED <<handlerVars, reader, readIDs, buffer, ctxDone, sock, delivered>>
    BY <1>9 DEF ReadBackend, Publish
  <2>2. sock[c] # "none"
    BY <2>1 DEF IInv, SetupInv
  <2> QED
    BY <2>1, <2>2, OutwardPreserves
<1>10. ASSUME NEW c \in Conns, BackendCloses(c)
       PROVE  IInv'
  BY <1>10, OutwardPreserves DEF BackendCloses
<1>11. CASE UNCHANGED vars
  <2>1. \A c \in Conns, h \in Handlers : (Up(c)' <=> Up(c)) /\ (Received(h)' <=> Received(h))
    BY <1>11 DEF vars, Up, Received
  <2>2. TypeOK' /\ SetupInv' /\ AtMostOnce'
    BY <1>11 DEF vars, IInv, TypeOK, SetupInv, AtMostOnce, ConnOf
  <2>3. ReadInv'
    BY <1>11, <2>1 DEF vars, IInv, ReadInv
  <2> QED
    BY <1>11, <2>2, <2>3, HandlersStay DEF IInv, vars, handlerVars
<1> QED
  BY <1>1, <1>2, <1>3, <1>4, <1>5, <1>6, <1>7, <1>8, <1>9, <1>10, <1>11
     DEF Next, Handler, Reader, Writer

LEMMA Invariance == SafetySpec => []IInv
  BY InitIInv, NextIInv, PTL DEF SafetySpec

(* The variables keep their types.                                         *)
THEOREM TypeCorrect == SafetySpec => []TypeOK
<1>1. IInv => TypeOK
  BY DEF IInv
<1> QED
  BY <1>1, Invariance, PTL

(* No backend receives an event twice on a connection (conn.go:126-130).   *)
THEOREM AtMostOnceHolds == SafetySpec => []AtMostOnce
<1>1. IInv => AtMostOnce
  BY DEF IInv
<1> QED
  BY <1>1, Invariance, PTL

(* A handler sends on the current connection of its key (exit.go:344-350). *)
THEOREM SendsToCurrentHolds == SafetySpec => []SendsToCurrent
<1>1. IInv => SendsToCurrent
  BY DEF IInv
<1> QED
  BY <1>1, Invariance, PTL

(* While a connection is up, what Read has taken from a handler is on its  *)
(* way to the backend or there (conn.go:122-151).                          *)
THEOREM AcceptedNotLostHolds == SafetySpec => []AcceptedNotLost
<1>1. ASSUME IInv
      PROVE  AcceptedNotLost
  <2> SUFFICES ASSUME NEW h \in Handlers, h.event.seq # 0, handler[h] = "returned",
                      dst[h] # NoConn
               PROVE  \/ h.event \in Range(delivered[dst[h]]) \cup Range(buffer[dst[h]])
                      \/ ctxDone[dst[h]] \/ peer[dst[h]] = "closed"
    BY DEF AcceptedNotLost
  <2>1. dst[h] \in Conns /\ h.event \in readIDs[dst[h]]
    BY <1>1 DEF IInv, TypeOK, HandedInv
  <2> QED
    BY <1>1, <2>1 DEF IInv, TypeOK, ReadInv, Up
<1> QED
  BY <1>1, Invariance, PTL

-----------------------------------------------------------------------------
(* The refinement of Datagrams.  Offered is what its parameter offered is  *)
(* replaced by, and Down what its parameter closed is.                     *)
Offered == {h.event : h \in {g \in Handlers : handler[g] # "none"}}

Down == {c \in Conns : sock[c] = "closed"}

(* A step of the exit node is a step of Datagrams or none: only            *)
(* ReceiveEvent offers, only WriteBackend delivers, only CloseBoth closes. *)
LEMMA DatagramStep ==
  ASSUME IInv, [Next]_vars
  PROVE  \/ \E e \in Events : Datagram!Offer(e)
         \/ \E c \in Conns : Datagram!Close(c)
         \/ \E c \in Conns, e \in Events : Datagram!Deliver(c, e)
         \/ UNCHANGED <<Offered, delivered, Down>>
<1> USE DEF Offered, Down
<1>1. ASSUME NEW h \in Handlers, ReceiveEvent(h)
      PROVE  Datagram!Offer(h.event)
  <2>1. /\ handler' = [handler EXCEPT ![h] = "started"]
        /\ UNCHANGED <<delivered, sock>>
    BY <1>1 DEF ReceiveEvent, Goto, connVars
  <2>2. \A g \in Handlers : handler'[g] # "none" <=> (g = h \/ handler[g] # "none")
    BY <2>1 DEF IInv, TypeOK
  <2>3. Offered' = Offered \cup {h.event}
    BY <2>2
  <2> QED
    BY <2>1, <2>3 DEF Datagram!Offer
<1>2. ASSUME NEW h \in Handlers, Handler(h)
      PROVE  UNCHANGED <<Offered, delivered>>
  <2>1. \E from \in {"started", "waiting", "locked", "sending"},
           to \in {"waiting", "locked", "sending", "returned"} :
          handler[h] = from /\ handler' = [handler EXCEPT ![h] = to]
    BY <1>2 DEF Handler, DecodeMessage, LockKey, DialFails, DialSucceeds,
                LoadConnection, WriteNostrEvent, Goto
  <2>2. \A g \in Handlers : handler'[g] # "none" <=> handler[g] # "none"
    BY <2>1 DEF IInv, TypeOK
  <2>3. delivered' = delivered
    BY <1>2 DEF Handler, DecodeMessage, LockKey, DialFails, DialSucceeds,
                LoadConnection, WriteNostrEvent, connVars
  <2> QED
    BY <2>2, <2>3
<1>3. ASSUME NEW h \in Handlers, Handler(h)
      PROVE  UNCHANGED Down
  <2>1. CASE DialSucceeds(h)
    <3>1. /\ sock' = [sock EXCEPT ![ConnOf(h)] = "open"]
          /\ handler[h] = "locked" /\ h.event.seq = 0 /\ ConnOf(h) \in Conns
      BY <2>1, Names DEF DialSucceeds, Goto
    <3>2. sock[ConnOf(h)] = "none"
      BY <3>1 DEF IInv, SetupInv
    <3>3. \A c \in Conns : sock'[c] = "closed" <=> sock[c] = "closed"
      BY <3>1, <3>2 DEF IInv, TypeOK
    <3> QED
      BY <3>3
  <2>2. CASE ~ DialSucceeds(h)
    <3>1. sock' = sock
      BY <1>3, <2>2 DEF Handler, DecodeMessage, LockKey, DialFails,
                LoadConnection, WriteNostrEvent, connVars
    <3> QED
      BY <3>1
  <2> QED
    BY <2>1, <2>2
<1>4. ASSUME NEW c \in Conns, WriteBackend(c)
      PROVE  \/ \E e \in Events : Datagram!Deliver(c, e)
             \/ UNCHANGED <<Offered, delivered, Down>>
  <2>1. /\ reader[c] = "writing" /\ sock[c] = "open"
        /\ delivered' = [delivered EXCEPT ![c] = IF peer[c] = "open" THEN @ \o buffer[c] ELSE @]
        /\ UNCHANGED <<handler, sock>>
    BY <1>4 DEF WriteBackend, handlerVars
  <2>2. PICK e \in readIDs[c] : buffer[c] = <<e>> /\ e \notin Range(delivered[c])
    BY <2>1 DEF IInv, ReadInv
  <2>3. e \in Events /\ e.key = c.key /\ e \in Offered
    <3>1. e \in Events /\ e.key = c.key /\ \E h \in Handlers : h.event = e /\ Received(h)
      BY <2>2 DEF IInv, TypeOK, ReadInv
    <3> QED
      BY <3>1 DEF Received
  <2>4. CASE peer[c] = "open"
    <3>1. delivered[c] \o <<e>> = Append(delivered[c], e)
      BY <2>3 DEF IInv, TypeOK
    <3>2. delivered' = [delivered EXCEPT ![c] = Append(delivered[c], e)]
      BY <2>1, <2>2, <2>4, <3>1
    <3>3. c \notin Down /\ UNCHANGED <<Offered, Down>>
      BY <2>1
    <3>4. /\ e \in Offered /\ e.key = c.key
          /\ c \notin Down
          /\ e \notin Range(delivered[c])
          /\ delivered' = [delivered EXCEPT ![c] = Append(delivered[c], e)]
          /\ Offered' = Offered /\ Down' = Down
      BY <2>2, <2>3, <3>2, <3>3
    <3>5. Datagram!Deliver(c, e)
      BY <3>4 DEF Datagram!Deliver, Datagram!Range, Range
    <3> QED
      BY <2>3, <3>5
  <2>5. CASE peer[c] # "open"
    <3>1. delivered' = delivered
      BY <2>1, <2>5 DEF IInv, TypeOK
    <3> QED
      BY <2>1, <3>1
  <2> QED
    BY <2>4, <2>5
<1>5. ASSUME NEW c \in Conns, CloseBoth(c), UNCHANGED <<handlerVars, delivered>>
      PROVE  Datagram!Close(c)
  <2>1. \A d \in Conns : sock'[d] = "closed" <=> (d = c \/ sock[d] = "closed")
    BY <1>5 DEF CloseBoth, IInv, TypeOK
  <2>2. Down' = Down \cup {c}
    BY <2>1
  <2> QED
    BY <1>5, <2>2 DEF Datagram!Close, handlerVars
<1>6. ASSUME NEW c \in Conns, ReadBackend(c) \/ Publish(c) \/ BackendCloses(c)
      PROVE  UNCHANGED <<Offered, delivered, Down>>
  BY <1>6 DEF ReadBackend, Publish, BackendCloses, handlerVars
<1>7. CASE UNCHANGED vars
  BY <1>7 DEF vars
<1>8. ASSUME NEW c \in Conns,
             ReadCancelled(c) \/ WriteBackendFails(c) \/ ReadBackendEnds(c) \/ PublishFails(c)
      PROVE  Datagram!Close(c)
  BY <1>5, <1>8 DEF ReadCancelled, WriteBackendFails, ReadBackendEnds, PublishFails,
                    EndReader, EndWriter
<1>9. CASE \E h \in Handlers : ReceiveEvent(h) \/ Handler(h)
  <2>1. PICK h \in Handlers : ReceiveEvent(h) \/ Handler(h)
    BY <1>9
  <2> QED
    BY <1>1, <1>2, <1>3, <2>1, Names
<1>10. CASE \E c \in Conns : Reader(c) \/ Writer(c) \/ BackendCloses(c)
  BY <1>4, <1>6, <1>8, <1>10 DEF Reader, Writer
<1> QED
  BY <1>7, <1>9, <1>10 DEF Next

(* Each backend connection has the datagram service of Datagrams.          *)
THEOREM ImplementsDatagramsHolds == SafetySpec => ImplementsDatagrams
<1>1. Init => Datagram!DatagramInit
  BY ExitAssumption DEF Init, Datagram!DatagramInit
<1>2. IInv /\ [Next]_vars => [Datagram!DatagramNext]_(Datagram!datagramVars)
  BY DatagramStep DEF Datagram!DatagramNext, Datagram!datagramVars, Offered, Down
<1> QED
  BY <1>1, <1>2, Invariance, PTL DEF SafetySpec, ImplementsDatagrams, Datagram!DatagramSpec

-----------------------------------------------------------------------------
(* The refinement of KeyedLock: what the lock sees of a handler.           *)
Seen(h) == IF HoldsLock(h) THEN "holding"
           ELSE IF handler[h] = "waiting" THEN "waiting" ELSE "idle"

LEMMA HandlerAlone ==
  ASSUME IInv, NEW h \in Handlers, NEW to, handler' = [handler EXCEPT ![h] = to]
  PROVE  \A g \in Handlers : g # h => Seen(g)' = Seen(g)
BY DEF IInv, TypeOK, Seen, HoldsLock

LEMMA LockStep ==
  IInv /\ [Next]_vars => [Lock!LockNext]_(Lock!lockVars)
<1> SUFFICES ASSUME IInv, [Next]_vars
             PROVE  [Lock!LockNext]_(Lock!lockVars)
  OBVIOUS
<1>1. ASSUME NEW h \in Handlers, NEW from, NEW to, Goto(h, from, to),
             <<from, to>> \in {<<"none", "started">>, <<"started", "returned">>,
                               <<"locked", "sending">>}
      PROVE  UNCHANGED Lock!lockVars
  <2>1. handler[h] = from /\ handler' = [handler EXCEPT ![h] = to]
    BY <1>1 DEF Goto
  <2>2. Seen(h)' = Seen(h)
    BY <1>1, <2>1 DEF IInv, TypeOK, Seen, HoldsLock
  <2> QED
    BY <2>1, <2>2, HandlerAlone DEF Lock!lockVars, Seen
<1>2. ASSUME NEW h \in Handlers, Goto(h, "started", "waiting")
      PROVE  Lock!Request(h, h.event.key)
  <2>1. handler[h] = "started" /\ handler' = [handler EXCEPT ![h] = "waiting"]
    BY <1>2 DEF Goto
  <2>2. Seen(h) = "idle" /\ Seen(h)' = "waiting"
    BY <2>1 DEF IInv, TypeOK, Seen, HoldsLock
  <2> QED
    BY <2>1, <2>2, HandlerAlone DEF Lock!Request, Seen
<1>3. ASSUME NEW h \in Handlers, LockKey(h)
      PROVE  Lock!Acquire(h)
  <2>1. /\ handler[h] = "waiting" /\ handler' = [handler EXCEPT ![h] = "locked"]
        /\ \A g \in Handlers : HoldsLock(g) => g.event.key # h.event.key
    BY <1>3 DEF LockKey, Goto
  <2>2. Seen(h) = "waiting" /\ Seen(h)' = "holding"
    BY <2>1 DEF IInv, TypeOK, Seen, HoldsLock
  <2> QED
    BY <2>1, <2>2, HandlerAlone DEF Lock!Acquire, Seen
<1>4. ASSUME NEW h \in Handlers, NEW from, Goto(h, from, "returned"),
             from \in {"locked", "sending"}
      PROVE  Lock!Release(h)
  <2>1. handler[h] = from /\ handler' = [handler EXCEPT ![h] = "returned"]
    BY <1>4 DEF Goto
  <2>2. Seen(h) = "holding" /\ Seen(h)' = "idle"
    BY <1>4, <2>1 DEF IInv, TypeOK, Seen, HoldsLock
  <2> QED
    BY <2>1, <2>2, HandlerAlone DEF Lock!Release, Seen
<1>5. ASSUME UNCHANGED handler
      PROVE  UNCHANGED Lock!lockVars
  BY <1>5 DEF Lock!lockVars, HoldsLock
<1>6. CASE \E h \in Handlers : ReceiveEvent(h) \/ Handler(h)
  <2>1. PICK h \in Handlers : ReceiveEvent(h) \/ Handler(h)
    BY <1>6
  <2>2. CASE ReceiveEvent(h)
    BY <1>1, <2>2 DEF ReceiveEvent
  <2>3. CASE DecodeMessage(h)
    <3>1. Goto(h, "started", "returned") \/ Goto(h, "started", "waiting")
      BY <2>3 DEF DecodeMessage
    <3> QED
      BY <1>1, <1>2, <3>1, Names DEF Lock!LockNext
  <2>4. CASE LockKey(h)
    BY <1>3, <2>4 DEF Lock!LockNext
  <2>5. CASE DialFails(h) \/ DialSucceeds(h) \/ WriteNostrEvent(h)
    BY <1>4, <2>5 DEF DialFails, DialSucceeds, WriteNostrEvent, Lock!LockNext
  <2>6. CASE LoadConnection(h)
    <3>1. Goto(h, "locked", "returned") \/ Goto(h, "locked", "sending")
      BY <2>6 DEF LoadConnection
    <3> QED
      BY <1>1, <1>4, <3>1 DEF Lock!LockNext
  <2> QED
    BY <2>1, <2>2, <2>3, <2>4, <2>5, <2>6 DEF Handler
<1>7. CASE \E c \in Conns : Reader(c) \/ Writer(c) \/ BackendCloses(c)
  BY <1>5, <1>7 DEF Reader, ReadCancelled, WriteBackend, WriteBackendFails, Writer,
       ReadBackend, ReadBackendEnds, Publish, PublishFails, BackendCloses, handlerVars
<1>8. CASE UNCHANGED vars
  BY <1>5, <1>8 DEF vars
<1> QED
  BY <1>6, <1>7, <1>8 DEF Next

(* The handlers use the lock of their key as KeyedLock has it, which       *)
(* MutexMap implements (MutexMapProofs).                                   *)
THEOREM UsesKeyedLockHolds == SafetySpec => UsesKeyedLock
<1>1. Init => Lock!LockInit
  BY Names DEF Init, Lock!LockInit, HoldsLock
<1> QED
  BY <1>1, LockStep, Invariance, PTL DEF SafetySpec, UsesKeyedLock, Lock!LockSpec
=============================================================================
