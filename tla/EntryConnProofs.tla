-------------------------- MODULE EntryConnProofs --------------------------
(***************************************************************************)
(* The entry node's connection, for every number of relays, chunks,        *)
(* replies, copies and seconds: a failed Write leaves the relays at most   *)
(* one chunk apart, answers pass the filter of the late subscription, Read *)
(* gives no reply twice and loses none that it has taken, and the          *)
(* connection implements Datagrams.                                        *)
(*                                                                         *)
(* RelaysInStep needs to know how far the loop of publishEventToRelays is  *)
(* (LoopInv), AnswersPassFilter that the filter is made with the first     *)
(* chunk (SinceInv), and Datagrams that what the client has and what       *)
(* is on its way to it is in readIDs and passed the filter (ReadInv).      *)
(***************************************************************************)
EXTENDS EntryConn, TLAPS

(* The relays before the loop's index have all that was sent, the others   *)
(* all but the last chunk; outside of Write the loop is at its end.  The   *)
(* relay at which a Write failed may be among the former or the latter.    *)
Stored(k) == \A r \in Relays : Len(log[r]) = IF r < k THEN sent ELSE sent - 1

LoopInv ==
  /\ main = "dialing" => up = "none" /\ down = "none"
  /\ up = "none" => sent = 0 /\ \A r \in Relays : log[r] = <<>>
  /\ up \in {"reading", "ended"} => relay = NRelays + 1
  /\ up = "publishing" => sent > 0
  /\ up \notin {"none", "failed"} => Stored(relay)
  /\ up = "failed" => Stored(relay) \/ Stored(relay + 1)
  /\ \A r \in Relays : log[r] = [i \in 1..Len(log[r]) |-> i]

SinceInv ==
  /\ since # NoSub => since <= now
  /\ sent > 0 <=> since # NoSub

Live == ~ ctxDone /\ client = "open"

ReadInv ==
  /\ \A n \in readIDs : Published(n) /\ Matches(n)
  /\ Range(received) \cup Range(buffer) \subseteq readIDs
  /\ Live => readIDs \subseteq Range(received) \cup Range(buffer)
  /\ down \in {"none", "polling"} => buffer = <<>>
  /\ down = "writing" => \E n \in readIDs : buffer = <<n>> /\ n \notin Range(received)
  /\ IsInjective(received)

IInv ==
  /\ TypeOK
  /\ LoopInv
  /\ SinceInv
  /\ ReadInv
  /\ AnswersPassFilter

-----------------------------------------------------------------------------
(* Sequences: what appending one reply does.                               *)
LEMMA AppendReply ==
  ASSUME NEW S, NEW s \in Seq(S), NEW e \in S
  PROVE  /\ s \o <<e>> = Append(s, e)
         /\ s \o <<e>> \in Seq(S)
         /\ Range(s \o <<e>>) = Range(s) \cup {e}
         /\ IsInjective(s) /\ e \notin Range(s) => IsInjective(s \o <<e>>)
<1>1. /\ DOMAIN (s \o <<e>>) = 1..(Len(s) + 1)
      /\ \A i \in 1..Len(s) : (s \o <<e>>)[i] = s[i]
      /\ (s \o <<e>>)[Len(s) + 1] = e
      /\ DOMAIN s = 1..Len(s)
      /\ Len(s) \in Nat
      /\ s \o <<e>> \in Seq(S)
      /\ s \o <<e>> = Append(s, e)
  OBVIOUS
<1>2. Range(s \o <<e>>) = Range(s) \cup {e}
  <2>1. \A x : x \in Range(s \o <<e>>) <=> x \in Range(s) \cup {e}
    BY <1>1 DEF Range
  <2> QED
    BY <2>1
<1>3. ASSUME IsInjective(s), e \notin Range(s)
      PROVE  IsInjective(s \o <<e>>)
  <2>1. \A i \in 1..Len(s) : s[i] # e
    BY <1>1, <1>3 DEF Range
  <2> QED
    BY <1>1, <1>3, <2>1 DEF IsInjective
<1> QED
  BY <1>1, <1>2, <1>3

LEMMA SmallSeqs ==
  /\ Range(<<>>) = {}
  /\ \A e : Range(<<e>>) = {e}
  /\ IsInjective(<<>>)
BY DEF Range, IsInjective

(* Appending the next number to the numbers so far.                        *)
LEMMA AppendNumber ==
  ASSUME NEW s, NEW n \in Nat, s = [i \in 1..n |-> i]
  PROVE  /\ Len(s) = n
         /\ Append(s, n + 1) = [i \in 1..(n + 1) |-> i]
         /\ Len(Append(s, n + 1)) = n + 1
<1>1. s \in Seq(Nat) /\ Len(s) = n
  OBVIOUS
<1>2. /\ Append(s, n + 1) \in Seq(Nat)
      /\ Len(Append(s, n + 1)) = n + 1
      /\ \A i \in 1..(n + 1) : Append(s, n + 1)[i] = i
  BY <1>1
<1> QED
  BY <1>1, <1>2

LEMMA InitIInv == Init => IInv
<1> SUFFICES ASSUME Init
             PROVE  IInv
  OBVIOUS
<1> USE EntryAssumption DEF EntryAssumption
<1>1. TypeOK
  <2>1. 0 \in 0..MaxTime /\ 0 \in 0..MaxCopies /\ 0 \in 0..MaxOut /\ 1 \in 1..(NRelays + 1)
    OBVIOUS
  <2>2. log \in [Relays -> Seq(1..MaxOut)]
    BY DEF Init
  <2>3. reply \in [Replies -> ReplyRecords \cup {Unsent}] /\ handed \in [Replies -> 0..MaxCopies]
    BY <2>1 DEF Init
  <2>4. since \in 0..MaxTime \cup {NoSub} /\ now \in 0..MaxTime
    BY <2>1 DEF Init
  <2>5. buffer \in Seq(Replies) /\ received \in Seq(Replies)
    BY DEF Init
  <2>6. ctxDone \in BOOLEAN
    BY DEF Init
  <2> QED
    BY <2>1, <2>2, <2>3, <2>4, <2>5, <2>6 DEF Init, TypeOK
<1>2. LoopInv
  BY DEF Init, LoopInv, Relays
<1>3. SinceInv /\ AnswersPassFilter
  BY DEF Init, SinceInv, AnswersPassFilter, Published
<1>4. ReadInv
  BY SmallSeqs DEF Init, ReadInv
<1> QED
  BY <1>1, <1>2, <1>3, <1>4 DEF IInv

-----------------------------------------------------------------------------
(* TypeOK in parts that few steps disturb together.                        *)
NodeType ==
  /\ main \in {"dialing", "proxying", "returned"}
  /\ up \in {"none", "reading", "publishing", "ended", "failed"}
  /\ down \in {"none", "polling", "writing", "ended"}
  /\ helper \in {"started", "first", "subscription", "ended"}
  /\ ctxDone \in BOOLEAN
  /\ sock \in {"open", "closed"}
  /\ client \in {"open", "closed"}

LoopType ==
  /\ relay \in 1..(NRelays + 1)
  /\ connected \in SUBSET Relays
  /\ sent \in 0..MaxOut
  /\ log \in [Relays -> Seq(1..MaxOut)]

ReadType ==
  /\ readIDs \in SUBSET Replies
  /\ buffer \in Seq(Replies)
  /\ received \in Seq(Replies)
  /\ readBuffer \in SUBSET Replies

ClockType ==
  /\ subscribed \in SUBSET Relays
  /\ since \in 0..MaxTime \cup {NoSub}
  /\ reply \in [Replies -> ReplyRecords \cup {Unsent}]
  /\ handed \in [Replies -> 0..MaxCopies]
  /\ now \in 0..MaxTime

LEMMA TypeParts == TypeOK <=> NodeType /\ LoopType /\ ReadType /\ ClockType
BY DEF TypeOK, NodeType, LoopType, ReadType, ClockType

LEMMA TypePartsNext ==
  NodeType' /\ LoopType' /\ ReadType' /\ ClockType' => TypeOK'
BY DEF TypeOK, NodeType, LoopType, ReadType, ClockType

(* What the relays have after the one at the loop's index has taken the    *)
(* chunk.                                                                  *)
LEMMA StoreChunk ==
  ASSUME IInv, up = "publishing", relay \in Relays, sent' = sent,
         log' = [log EXCEPT ![relay] = Append(@, sent)]
  PROVE  /\ log' \in [Relays -> Seq(1..MaxOut)]
         /\ \A r \in Relays : Len(log'[r]) = IF r < relay + 1 THEN sent ELSE sent - 1
         /\ \A r \in Relays : log'[r] = [i \in 1..Len(log'[r]) |-> i]
<1> USE EntryAssumption DEF EntryAssumption, Relays
<1>1. /\ sent \in 1..MaxOut /\ Len(log[relay]) = sent - 1
      /\ log[relay] = [i \in 1..(sent - 1) |-> i]
      /\ log \in [Relays -> Seq(1..MaxOut)]
  BY DEF IInv, TypeOK, LoopInv, Stored
<1>2. Append(log[relay], sent) \in Seq(1..MaxOut)
  BY <1>1
<1>3. /\ Append(log[relay], sent) = [i \in 1..sent |-> i]
      /\ Len(Append(log[relay], sent)) = sent
  BY <1>1, AppendNumber
<1>4. /\ log'[relay] = Append(log[relay], sent)
      /\ \A r \in Relays : r # relay => log'[r] = log[r]
  BY <1>1
<1>5. ASSUME NEW r \in Relays
      PROVE  Len(log'[r]) = IF r < relay + 1 THEN sent ELSE sent - 1
  <2>1. CASE r = relay
    <3>1. Len(log'[relay]) = sent
      BY <1>3, <1>4
    <3> QED
      BY <2>1, <3>1
  <2>2. CASE r # relay
    <3>1. r < relay + 1 <=> r < relay
      BY <2>2
    <3>2. Len(log[r]) = IF r < relay THEN sent ELSE sent - 1
      BY DEF IInv, LoopInv, Stored
    <3> QED
      BY <1>4, <2>2, <3>1, <3>2
  <2> QED
    BY <2>1, <2>2
<1>6. \A r \in Relays : log'[r] = [i \in 1..Len(log'[r]) |-> i]
  BY <1>3, <1>4 DEF IInv, LoopInv
<1> QED
  BY <1>1, <1>2, <1>5, <1>6

(* Every step preserves the types.                                         *)
LEMMA TypeStep ==
  ASSUME IInv, [Next]_vars
  PROVE  TypeOK'
<1> USE DEF upVars, downVars, helperVars, closeVars, outsideVars
<1>0. NodeType /\ LoopType /\ ReadType /\ ClockType
  BY TypeParts DEF IInv
<1> USE <1>0
<1>1. CASE DialPublishes \/ DialSkips
  <2>1. NodeType'
    BY <1>1 DEF NodeType, DialPublishes, DialSkips
  <2>2. LoopType'
    <3>1. \A r \in Relays : r + 1 \in 1..(NRelays + 1)
      BY EntryAssumption DEF EntryAssumption, Relays
    <3> QED
      BY <1>1, <3>1 DEF LoopType, DialPublishes, DialSkips
  <2>3. ReadType'
    BY <1>1 DEF ReadType, DialPublishes, DialSkips
  <2>4. ClockType'
    BY <1>1 DEF ClockType, DialPublishes, DialSkips
  <2> QED
    BY <2>1, <2>2, <2>3, <2>4, TypePartsNext
<1>2. CASE DialFails \/ ReplySuccess \/ ReplyFails \/ Return
  <2>1. NodeType'
    BY <1>2 DEF NodeType, DialFails, ReplySuccess, ReplyFails, Return
  <2>2. LoopType'
    BY <1>2 DEF LoopType, DialFails, ReplySuccess, ReplyFails, Return
  <2>3. ReadType'
    BY <1>2 DEF ReadType, DialFails, ReplySuccess, ReplyFails, Return
  <2>4. ClockType'
    BY <1>2 DEF ClockType, DialFails, ReplySuccess, ReplyFails, Return
  <2> QED
    BY <2>1, <2>2, <2>3, <2>4, TypePartsNext
<1>3. CASE WriteStarts
  <2>1. NodeType'
    BY <1>3 DEF NodeType, WriteStarts, Subscribe
  <2>2. LoopType'
    <3>1. sent + 1 \in 0..MaxOut /\ 1 \in 1..(NRelays + 1)
      BY <1>3, EntryAssumption DEF EntryAssumption, WriteStarts, LoopType
    <3> QED
      BY <1>3, <3>1 DEF LoopType, WriteStarts
  <2>3. ReadType'
    BY <1>3 DEF ReadType, WriteStarts, Subscribe
  <2>4. ClockType'
    BY <1>3 DEF ClockType, WriteStarts, Subscribe
  <2> QED
    BY <2>1, <2>2, <2>3, <2>4, TypePartsNext
<1>4. CASE WritePublishes
  <2>1. NodeType'
    BY <1>4 DEF NodeType, WritePublishes
  <2>2. LoopType'
    <3>1. relay \in Relays /\ relay + 1 \in 1..(NRelays + 1)
      BY <1>4, EntryAssumption DEF EntryAssumption, WritePublishes, Relays
    <3>2. log' \in [Relays -> Seq(1..MaxOut)]
      BY <1>4, StoreChunk DEF WritePublishes
    <3> QED
      BY <1>4, <3>1, <3>2 DEF WritePublishes, LoopType
  <2>3. ReadType'
    BY <1>4 DEF ReadType, WritePublishes
  <2>4. ClockType'
    BY <1>4 DEF ClockType, WritePublishes
  <2> QED
    BY <2>1, <2>2, <2>3, <2>4, TypePartsNext
<1>5. CASE WriteFails \/ WriteReturns \/ ReadClientEnds
  <2>1. NodeType'
    BY <1>5 DEF NodeType, WriteFails, WriteReturns, ReadClientEnds, CloseBoth
  <2>2. LoopType'
    <3>1. WriteFails => log' \in [Relays -> Seq(1..MaxOut)]
      BY StoreChunk DEF WriteFails, LoopType
    <3> QED
      BY <1>5, <3>1 DEF LoopType, WriteFails, WriteReturns, ReadClientEnds, CloseBoth
  <2>3. ReadType'
    BY <1>5 DEF ReadType, WriteFails, WriteReturns, ReadClientEnds, CloseBoth
  <2>4. ClockType'
    BY <1>5 DEF ClockType, WriteFails, WriteReturns, ReadClientEnds, CloseBoth
  <2> QED
    BY <2>1, <2>2, <2>3, <2>4, TypePartsNext
<1>6. ASSUME NEW n \in Replies, Offered(n), HandOver(n)
      PROVE  handed' \in [Replies -> 0..MaxCopies]
  <2>1. handed[n] + 1 \in 0..MaxCopies
    BY <1>6, EntryAssumption DEF EntryAssumption, Offered, ClockType
  <2> QED
    BY <1>6, <2>1 DEF HandOver, ClockType
<1>7. ASSUME NEW n \in Replies, Read(n)
      PROVE  TypeOK'
  <2>1. NodeType'
    BY <1>7 DEF NodeType, Read, TakeReply
  <2>2. LoopType'
    BY <1>7 DEF LoopType, Read, TakeReply
  <2>3. ReadType'
    <3>1. <<n>> \in Seq(Replies) /\ readIDs \cup {n} \in SUBSET Replies
      BY DEF ReadType
    <3> QED
      BY <1>7, <3>1 DEF ReadType, Read, TakeReply
  <2>4. ClockType'
    <3>1. handed' \in [Replies -> 0..MaxCopies]
      BY <1>6, <1>7 DEF Read
    <3> QED
      BY <1>7, <3>1 DEF ClockType, Read
  <2> QED
    BY <2>1, <2>2, <2>3, <2>4, TypePartsNext
<1>8. CASE ReadCancelled \/ WriteClient \/ WriteClientFails
  <2>1. NodeType'
    BY <1>8 DEF NodeType, ReadCancelled, WriteClient, WriteClientFails, CloseBoth
  <2>2. LoopType'
    BY <1>8 DEF LoopType, ReadCancelled, WriteClient, WriteClientFails, CloseBoth
  <2>3. ReadType'
    <3>1. received \o buffer \in Seq(Replies) /\ <<>> \in Seq(Replies)
      BY DEF ReadType
    <3> QED
      BY <1>8, <3>1 DEF ReadType, ReadCancelled, WriteClient, WriteClientFails
  <2>4. ClockType'
    BY <1>8 DEF ClockType, ReadCancelled, WriteClient, WriteClientFails, CloseBoth
  <2> QED
    BY <2>1, <2>2, <2>3, <2>4, TypePartsNext
<1>9. CASE HelperSelects \/ HelperCancelled
  <2>1. NodeType'
    BY <1>9 DEF NodeType, HelperSelects, HelperCancelled
  <2>2. LoopType'
    BY <1>9 DEF LoopType, HelperSelects, HelperCancelled
  <2>3. ReadType'
    BY <1>9 DEF ReadType, HelperSelects, HelperCancelled
  <2>4. ClockType'
    BY <1>9 DEF ClockType, HelperSelects, HelperCancelled
  <2> QED
    BY <2>1, <2>2, <2>3, <2>4, TypePartsNext
<1>10. ASSUME NEW n \in Replies, HelperTakes(n)
       PROVE  TypeOK'
  <2>1. NodeType'
    BY <1>10 DEF NodeType, HelperTakes
  <2>2. LoopType'
    BY <1>10 DEF LoopType, HelperTakes
  <2>3. ReadType'
    BY <1>10 DEF ReadType, HelperTakes
  <2>4. ClockType'
    <3>1. handed' \in [Replies -> 0..MaxCopies]
      BY <1>6, <1>10 DEF HelperTakes
    <3> QED
      BY <1>10, <3>1 DEF ClockType, HelperTakes
  <2> QED
    BY <2>1, <2>2, <2>3, <2>4, TypePartsNext
<1>11. CASE ClientCloses \/ Tick \/ \E r \in Relays : SubscribesAt(r)
  <2>1. NodeType'
    BY <1>11 DEF NodeType, ClientCloses, Tick, SubscribesAt
  <2>2. LoopType'
    BY <1>11 DEF LoopType, ClientCloses, Tick, SubscribesAt
  <2>3. ReadType'
    BY <1>11 DEF ReadType, ClientCloses, Tick, SubscribesAt
  <2>4. ClockType'
    <3>1. now < MaxTime => now + 1 \in 0..MaxTime
      BY EntryAssumption DEF EntryAssumption, ClockType
    <3> QED
      BY <1>11, <3>1 DEF ClockType, ClientCloses, Tick, SubscribesAt
  <2> QED
    BY <2>1, <2>2, <2>3, <2>4, TypePartsNext
<1>12. ASSUME NEW n \in Replies, NEW r \in Relays, NEW kept \in BOOLEAN,
              BackendReplies(n, r, kept)
       PROVE  TypeOK'
  <2>1. NodeType'
    BY <1>12 DEF NodeType, BackendReplies
  <2>2. LoopType'
    BY <1>12 DEF LoopType, BackendReplies
  <2>3. ReadType'
    BY <1>12 DEF ReadType, BackendReplies
  <2>4. ClockType'
    <3>1. [stamp |-> now, relay |-> r, kept |-> kept,
           answer |-> \E q \in Relays : log[q] # <<>>] \in ReplyRecords
      BY DEF ReplyRecords, ClockType
    <3>2. reply' \in [Replies -> ReplyRecords \cup {Unsent}]
      BY <1>12, <3>1 DEF BackendReplies, ClockType
    <3> QED
      BY <1>12, <3>2 DEF BackendReplies, ClockType
  <2> QED
    BY <2>1, <2>2, <2>3, <2>4, TypePartsNext
<1>13. CASE UNCHANGED vars
  <2>1. NodeType'
    BY <1>13 DEF NodeType, vars
  <2>2. LoopType'
    BY <1>13 DEF LoopType, vars
  <2>3. ReadType'
    BY <1>13 DEF ReadType, vars
  <2>4. ClockType'
    BY <1>13 DEF ClockType, vars
  <2> QED
    BY <2>1, <2>2, <2>3, <2>4, TypePartsNext
<1>14. CASE Main \/ Up
  BY <1>14, <1>1, <1>2, <1>3, <1>4, <1>5 DEF Main, Up
<1>15. CASE Down \/ Helper \/ Outside
  BY <1>15, <1>7, <1>8, <1>9, <1>10, <1>11, <1>12 DEF Down, Helper, Outside
<1> QED
  BY <1>13, <1>14, <1>15 DEF Next

(* The loops of DialSocks and publishEventToRelays.                        *)
LEMMA LoopStep ==
  ASSUME IInv, [Next]_vars
  PROVE  LoopInv'
<1> USE EntryAssumption DEF EntryAssumption, Relays, upVars, downVars, helperVars,
                            closeVars, outsideVars
<1>1. CASE Main
  <2>1. CASE DialPublishes \/ DialSkips
    BY <2>1 DEF IInv, LoopInv, DialPublishes, DialSkips
  <2>2. CASE ReplySuccess
    <3>1. relay = NRelays + 1 /\ sent = 0 /\ \A r \in Relays : log[r] = <<>>
      BY <2>2 DEF IInv, TypeOK, LoopInv, ReplySuccess
    <3> QED
      BY <2>2, <3>1 DEF IInv, LoopInv, Stored, ReplySuccess
  <2>3. CASE DialFails \/ ReplyFails \/ Return
    BY <2>3 DEF IInv, LoopInv, Stored, DialFails, ReplyFails, Return
  <2> QED
    BY <1>1, <2>1, <2>2, <2>3 DEF Main
<1>2. CASE WriteStarts
  BY <1>2 DEF IInv, TypeOK, LoopInv, Stored, WriteStarts
<1>3. CASE WritePublishes
  <2>1. /\ up = "publishing" /\ relay \in Relays /\ relay' = relay + 1
        /\ log' = [log EXCEPT ![relay] = Append(@, sent)]
        /\ UNCHANGED <<main, up, down, sent>>
    BY <1>3 DEF WritePublishes
  <2>2. Stored(relay)' /\ \A r \in Relays : log'[r] = [i \in 1..Len(log'[r]) |-> i]
    BY <2>1, StoreChunk DEF Stored
  <2> QED
    BY <2>1, <2>2 DEF IInv, LoopInv
<1>4. CASE WriteFails \/ WriteReturns \/ ReadClientEnds
  <2>1. CASE WriteFails
    <3>1. /\ up = "publishing" /\ up' = "failed" /\ relay \in Relays
          /\ log' \in {log, [log EXCEPT ![relay] = Append(@, sent)]}
          /\ UNCHANGED <<main, down, sent, relay>>
      BY <2>1 DEF WriteFails
    <3>2. CASE log' = log
      BY <3>1, <3>2 DEF IInv, LoopInv, Stored
    <3>3. CASE log' # log
      <4>1. /\ Stored(relay + 1)'
            /\ \A r \in Relays : log'[r] = [i \in 1..Len(log'[r]) |-> i]
        BY <3>1, <3>3, StoreChunk DEF Stored
      <4> QED
        BY <3>1, <4>1 DEF IInv, LoopInv
    <3> QED
      BY <3>2, <3>3
  <2>2. CASE WriteReturns
    <3>1. relay = NRelays + 1
      BY <2>2 DEF IInv, TypeOK, WriteReturns
    <3> QED
      BY <2>2, <3>1 DEF IInv, LoopInv, Stored, WriteReturns
  <2>3. CASE ReadClientEnds
    <3>1. /\ up = "reading" /\ up' \in {"ended", "failed"}
          /\ UNCHANGED <<main, sent, log, relay, down>>
      BY <2>3 DEF ReadClientEnds
    <3> QED
      BY <3>1 DEF IInv, LoopInv, Stored
  <2> QED
    BY <1>4, <2>1, <2>2, <2>3
<1>5. CASE Down
  BY <1>5 DEF IInv, LoopInv, Stored, Down, Read, TakeReply, ReadCancelled, WriteClient,
              WriteClientFails
<1>6. CASE Helper \/ Outside
  <2>1. UNCHANGED <<main, up, down, sent, log, relay>>
    BY <1>6 DEF Helper, HelperSelects, HelperCancelled, HelperTakes, Outside, ClientCloses, Tick,
                SubscribesAt, BackendReplies
  <2> QED
    BY <2>1 DEF IInv, LoopInv, Stored
<1>7. CASE UNCHANGED vars
  BY <1>7 DEF IInv, LoopInv, Stored, vars
<1> QED
  BY <1>1, <1>2, <1>3, <1>4, <1>5, <1>6, <1>7 DEF Next, Up

(* The subscription is made before the first chunk leaves, once.           *)
LEMMA SinceStep ==
  ASSUME IInv, [Next]_vars
  PROVE  SinceInv' /\ (since # NoSub => since' = since)
<1> USE EntryAssumption DEF EntryAssumption, IInv, TypeOK, SinceInv, upVars, downVars,
                            helperVars, closeVars, outsideVars
<1>1. CASE WriteStarts
  BY <1>1 DEF WriteStarts, Subscribe
<1>2. CASE WritePublishes \/ WriteFails \/ WriteReturns \/ ReadClientEnds
  BY <1>2 DEF WritePublishes, WriteFails, WriteReturns, ReadClientEnds
<1>3. CASE Main
  BY <1>3 DEF Main, DialPublishes, DialSkips, DialFails, ReplySuccess, ReplyFails, Return
<1>4. CASE Down
  BY <1>4 DEF Down, Read, ReadCancelled, WriteClient, WriteClientFails
<1>5. CASE Helper
  BY <1>5 DEF Helper, HelperSelects, HelperCancelled, HelperTakes
<1>6. CASE Outside
  <2>1. CASE Tick
    BY <2>1 DEF Tick
  <2>2. UNCHANGED <<since, sent, now>> \/ Tick
    BY <1>6 DEF Outside, ClientCloses, SubscribesAt, BackendReplies
  <2> QED
    BY <2>1, <2>2
<1>7. CASE UNCHANGED vars
  BY <1>7 DEF vars
<1> QED
  BY <1>1, <1>2, <1>3, <1>4, <1>5, <1>6, <1>7 DEF Next, Up

(* What a step does to the replies: it publishes one, or none.             *)
LEMMA ReplyStep ==
  ASSUME IInv, [Next]_vars
  PROVE  \/ \E n \in Replies, r \in Relays, kept \in BOOLEAN : BackendReplies(n, r, kept)
         \/ reply' = reply
<1> USE DEF upVars, downVars, helperVars, closeVars, outsideVars
<1>1. CASE Main
  BY <1>1 DEF Main, DialPublishes, DialSkips, DialFails, ReplySuccess, ReplyFails, Return
<1>2. CASE Up
  BY <1>2 DEF Up, WriteStarts, WritePublishes, WriteFails, WriteReturns, ReadClientEnds
<1>3. CASE Down
  BY <1>3 DEF Down, Read, ReadCancelled, WriteClient, WriteClientFails
<1>4. CASE Helper
  BY <1>4 DEF Helper, HelperSelects, HelperCancelled, HelperTakes
<1>5. CASE Outside
  BY <1>5 DEF Outside, ClientCloses, Tick, SubscribesAt
<1>6. CASE UNCHANGED vars
  BY <1>6 DEF vars
<1> QED
  BY <1>1, <1>2, <1>3, <1>4, <1>5, <1>6 DEF Next

(* A relay that has the subscription keeps it.                             *)
LEMMA SubscribedStep ==
  ASSUME [Next]_vars
  PROVE  subscribed \subseteq subscribed'
<1> USE DEF upVars, downVars, helperVars, closeVars, outsideVars
<1>1. CASE Main
  BY <1>1 DEF Main, DialPublishes, DialSkips, DialFails, ReplySuccess, ReplyFails, Return
<1>2. CASE Up
  BY <1>2 DEF Up, WriteStarts, WritePublishes, WriteFails, WriteReturns, ReadClientEnds
<1>3. CASE Down
  BY <1>3 DEF Down, Read, ReadCancelled, WriteClient, WriteClientFails
<1>4. CASE Helper
  BY <1>4 DEF Helper, HelperSelects, HelperCancelled, HelperTakes
<1>5. CASE Outside
  BY <1>5 DEF Outside, ClientCloses, Tick, SubscribesAt, BackendReplies
<1>6. CASE UNCHANGED vars
  BY <1>6 DEF vars
<1> QED
  BY <1>1, <1>2, <1>3, <1>4, <1>5, <1>6 DEF Next

(* A reply that is published after the first Write passes the filter.      *)
LEMMA NewReplyInFilter ==
  ASSUME IInv, NEW n \in Replies, NEW r \in Relays, NEW kept \in BOOLEAN,
         BackendReplies(n, r, kept)
  PROVE  Published(n)' /\ (since # NoSub => InFilter(n)')
<1>1. /\ since' = since
      /\ reply'[n] = [stamp |-> now, relay |-> r, kept |-> kept,
                      answer |-> \E q \in Relays : log[q] # <<>>]
  BY DEF BackendReplies, upVars, IInv, TypeOK
<1>2. Published(n)'
  <2>1. reply'[n] \in ReplyRecords
    BY <1>1 DEF IInv, TypeOK, ReplyRecords
  <2> QED
    BY <2>1, EntryAssumption DEF EntryAssumption, ReplyRecords, Relays, Published
<1>3. reply'[n].stamp = now
  BY <1>1
<1>4. since # NoSub => since <= now /\ now \in Nat /\ since \in Nat
  BY EntryAssumption DEF EntryAssumption, IInv, TypeOK, SinceInv
<1> QED
  BY <1>1, <1>2, <1>3, <1>4 DEF InFilter

LEMMA OldReplyMatches ==
  ASSUME IInv, [Next]_vars, NEW n \in Replies, Published(n)
  PROVE  /\ Published(n)' /\ reply'[n] = reply[n]
         /\ InFilter(n) => InFilter(n)'
         /\ Matches(n) => Matches(n)'
<1>1. reply'[n] = reply[n]
  <2>1. CASE reply' = reply
    BY <2>1
  <2>2. ASSUME NEW m \in Replies, NEW r \in Relays, NEW kept \in BOOLEAN,
               BackendReplies(m, r, kept)
        PROVE  reply'[n] = reply[n]
    <3>1. m # n
      BY <2>2 DEF BackendReplies
    <3> QED
      BY <2>2, <3>1 DEF BackendReplies, IInv, TypeOK
  <2> QED
    BY <2>1, <2>2, ReplyStep
<1> QED
  BY <1>1, SinceStep, SubscribedStep DEF Published, InFilter, Matches

LEMMA AnswersStep ==
  ASSUME IInv, [Next]_vars
  PROVE  AnswersPassFilter'
<1> SUFFICES ASSUME NEW n \in Replies, Published(n)', reply'[n].answer
             PROVE  InFilter(n)'
  BY DEF AnswersPassFilter
<1>1. CASE Published(n)
  BY <1>1, OldReplyMatches DEF IInv, AnswersPassFilter
<1>2. CASE ~ Published(n)
  <2>1. PICK r \in Relays, kept \in BOOLEAN : BackendReplies(n, r, kept)
    <3>1. reply' # reply
      BY <1>2 DEF Published
    <3>2. PICK m \in Replies, r \in Relays, kept \in BOOLEAN : BackendReplies(m, r, kept)
      BY <3>1, ReplyStep
    <3>3. m = n
      BY <1>2, <3>2 DEF BackendReplies, IInv, TypeOK, Published
    <3> QED
      BY <3>2, <3>3
  <2>2. \E q \in Relays : log[q] # <<>>
    <3>1. reply'[n].answer = \E q \in Relays : log[q] # <<>>
      BY <2>1 DEF BackendReplies, IInv, TypeOK
    <3> QED
      BY <3>1
  <2>3. sent > 0
    <3>1. PICK q \in Relays : log[q] # <<>>
      BY <2>2
    <3>2. Len(log[q]) > 0 /\ Len(log[q]) <= sent
      BY <3>1 DEF IInv, TypeOK, LoopInv, Stored
    <3> QED
      BY <3>2 DEF IInv, TypeOK
  <2> QED
    BY <2>1, <2>3, NewReplyInFilter DEF IInv, SinceInv
<1> QED
  BY <1>1, <1>2

(* Steps of others may close the connection, but leave Read alone.         *)
LEMMA ReaderStays ==
  ASSUME IInv, [Next]_vars, UNCHANGED <<readIDs, received, buffer>>, Live' => Live,
         \/ down' = down
         \/ down = "none" /\ down' = "polling"
         \/ down' = "ended"
  PROVE  ReadInv'
<1>1. \A n \in readIDs : Published(n)' /\ Matches(n)'
  BY OldReplyMatches DEF IInv, TypeOK, ReadInv
<1> QED
  BY <1>1 DEF IInv, ReadInv

LEMMA ReadPreserves ==
  ASSUME IInv, [Next]_vars, NEW n \in Replies, Read(n)
  PROVE  ReadInv'
<1>1. /\ down = "polling" /\ Published(n) /\ Matches(n)
      /\ TakeReply(n)
      /\ UNCHANGED <<received, ctxDone, client>>
  BY DEF Read, Offered, Matches, upVars, closeVars, outsideVars
<1>2. buffer = <<>>
  BY <1>1 DEF IInv, ReadInv
<1>3. CASE n \in readIDs
  BY <1>1, <1>3, ReaderStays DEF TakeReply, Live
<1>4. CASE n \notin readIDs
  <2>1. readIDs' = readIDs \cup {n} /\ buffer' = <<n>> /\ down' = "writing"
    BY <1>1, <1>4 DEF TakeReply
  <2>2. Range(buffer) = {} /\ Range(buffer') = {n}
    BY <1>2, <2>1, SmallSeqs
  <2>3. \A m \in readIDs' : Published(m)' /\ Matches(m)'
    BY <1>1, <2>1, OldReplyMatches DEF IInv, TypeOK, ReadInv
  <2>4. n \notin Range(received)
    BY <1>4 DEF IInv, ReadInv
  <2>5. Live' <=> Live
    BY <1>1 DEF Live
  <2> QED
    BY <1>1, <2>1, <2>2, <2>3, <2>4, <2>5 DEF IInv, ReadInv
<1> QED
  BY <1>3, <1>4

LEMMA WriteClientPreserves ==
  ASSUME IInv, [Next]_vars, WriteClient
  PROVE  ReadInv'
<1>1. /\ down = "writing" /\ down' = "polling" /\ buffer' = <<>>
      /\ received' = IF client = "open" THEN received \o buffer ELSE received
      /\ UNCHANGED <<readIDs, ctxDone, client>>
  BY DEF WriteClient, upVars, closeVars, outsideVars
<1>2. PICK n \in readIDs : buffer = <<n>> /\ n \notin Range(received)
  BY <1>1 DEF IInv, ReadInv
<1>3. n \in Replies /\ received \in Seq(Replies)
  BY DEF IInv, TypeOK
<1>4. /\ Range(received \o <<n>>) = Range(received) \cup {n}
      /\ IsInjective(received \o <<n>>)
  BY <1>2, <1>3, AppendReply DEF IInv, ReadInv
<1>5. Range(buffer) = {n} /\ Range(buffer') = {}
  BY <1>1, <1>2, SmallSeqs
<1>6. \A m \in readIDs' : Published(m)' /\ Matches(m)'
  BY <1>1, OldReplyMatches DEF IInv, TypeOK, ReadInv
<1>7. CASE client = "open"
  BY <1>1, <1>2, <1>4, <1>5, <1>6, <1>7 DEF IInv, ReadInv, Live
<1>8. CASE client # "open"
  BY <1>1, <1>5, <1>6, <1>8 DEF IInv, ReadInv, Live
<1> QED
  BY <1>7, <1>8

LEMMA ReadStep ==
  ASSUME IInv, [Next]_vars
  PROVE  ReadInv'
<1> USE DEF upVars, downVars, helperVars, closeVars, outsideVars, Live
<1>1. CASE Main
  <2>1. UNCHANGED <<readIDs, received, buffer, client>>
    BY <1>1 DEF Main, DialPublishes, DialSkips, DialFails, ReplySuccess, ReplyFails, Return
  <2>2. down' = down \/ (down = "none" /\ down' = "polling")
    BY <1>1 DEF Main, DialPublishes, DialSkips, DialFails, ReplySuccess, ReplyFails, Return,
                IInv, LoopInv
  <2>3. ctxDone' = ctxDone \/ ctxDone' = TRUE
    BY <1>1 DEF Main, DialPublishes, DialSkips, DialFails, ReplySuccess, ReplyFails, Return
  <2> QED
    BY <2>1, <2>2, <2>3, ReaderStays
<1>2. CASE Up
  <2>1. UNCHANGED <<readIDs, received, buffer, client, down>>
    BY <1>2 DEF Up, WriteStarts, WritePublishes, WriteFails, WriteReturns, ReadClientEnds
  <2>2. ctxDone' = ctxDone \/ ctxDone' = TRUE
    BY <1>2 DEF Up, WriteStarts, WritePublishes, WriteFails, WriteReturns, ReadClientEnds,
                CloseBoth
  <2> QED
    BY <2>1, <2>2, ReaderStays
<1>3. CASE ReadCancelled \/ WriteClientFails
  <2>1. UNCHANGED <<readIDs, received, buffer, client>> /\ down' = "ended" /\ ctxDone' = TRUE
    BY <1>3 DEF ReadCancelled, WriteClientFails, CloseBoth
  <2> QED
    BY <2>1, ReaderStays
<1>4. CASE Helper
  <2>1. UNCHANGED <<readIDs, received, buffer, client, ctxDone, down>>
    BY <1>4 DEF Helper, HelperSelects, HelperCancelled, HelperTakes
  <2> QED
    BY <2>1, ReaderStays
<1>5. CASE Outside
  <2>1. UNCHANGED <<readIDs, received, buffer, ctxDone, down>>
    BY <1>5 DEF Outside, ClientCloses, Tick, SubscribesAt, BackendReplies
  <2>2. client' = client \/ client' = "closed"
    BY <1>5 DEF Outside, ClientCloses, Tick, SubscribesAt, BackendReplies
  <2> QED
    BY <2>1, <2>2, ReaderStays
<1>6. CASE UNCHANGED vars
  BY <1>6, ReaderStays DEF vars
<1> QED
  BY <1>1, <1>2, <1>3, <1>4, <1>5, <1>6, ReadPreserves, WriteClientPreserves DEF Next, Down

LEMMA NextIInv == IInv /\ [Next]_vars => IInv'
BY TypeStep, LoopStep, SinceStep, ReadStep, AnswersStep DEF IInv

LEMMA Invariance == SafetySpec => []IInv
BY InitIInv, NextIInv, PTL DEF SafetySpec

-----------------------------------------------------------------------------
(* Every variable keeps its type (the state of conn.go:28-56, dial.go:33   *)
(* and request.go:172-242).                                                *)
THEOREM TypeCorrect == SafetySpec => []TypeOK
<1>1. IInv => TypeOK
  BY DEF IInv
<1> QED
  BY <1>1, Invariance, PTL

(* Whatever fails half-way, each relay has a prefix of what the client     *)
(* sent, an earlier relay at least as much as a later one, and all are at  *)
(* most one chunk apart (conn.go:236-249).                                 *)
THEOREM RelaysInStepHolds == SafetySpec => []RelaysInStep
<1>1. ASSUME IInv
      PROVE  RelaysInStep
  <2> SUFFICES ASSUME NEW r \in Relays
               PROVE  /\ log[r] = [i \in 1..Len(log[r]) |-> i]
                      /\ Len(log[r]) <= sent /\ sent <= Len(log[r]) + 1
                      /\ \A q \in 1..r : Len(log[r]) <= Len(log[q])
    BY DEF RelaysInStep
  <2>1. sent \in Nat /\ relay \in Nat /\ 1..r \subseteq Relays
    BY <1>1, EntryAssumption DEF EntryAssumption, IInv, TypeOK, Relays
  <2>2. CASE up = "none"
    BY <1>1, <2>1, <2>2 DEF IInv, LoopInv
  <2>3. CASE up # "none"
    BY <1>1, <2>1, <2>3 DEF IInv, LoopInv, Stored, Relays
  <2> QED
    BY <2>2, <2>3
<1> QED
  BY <1>1, Invariance, PTL

(* The filter, chosen at the first Write only, never hides a reply that    *)
(* answers data of the client (conn.go:216-232).                           *)
THEOREM AnswersPassFilterHolds == SafetySpec => []AnswersPassFilter
<1>1. IInv => AnswersPassFilter
  BY DEF IInv
<1> QED
  BY <1>1, Invariance, PTL

(* No reply is lost between readIDs and the client: what Read has taken    *)
(* has reached the client or is about to, unless the connection is closed  *)
(* (conn.go:120-149 with io.Copy in request.go:384).                       *)
THEOREM ReadLosesNothing ==
  SafetySpec => [](\A n \in readIDs : \/ n \in Range(received) \cup Range(buffer)
                                      \/ ctxDone \/ client = "closed")
<1>1. ASSUME IInv
      PROVE  \A n \in readIDs : \/ n \in Range(received) \cup Range(buffer)
                                \/ ctxDone \/ client = "closed"
  BY <1>1 DEF IInv, TypeOK, ReadInv, Live
<1> QED
  BY <1>1, Invariance, PTL

-----------------------------------------------------------------------------
(* The refinement of Datagrams.  Offers, Got and Shut are what its         *)
(* variables are replaced by.                                              *)
Offers == {ReplyEvent(n) : n \in {i \in Replies : Published(i)}}

Got == [c \in {ThisConn} |-> [i \in 1..Len(received) |-> ReplyEvent(received[i])]]

Shut == IF sock = "closed" THEN {ThisConn} ELSE {}

(* Appending a reply appends its event.                                    *)
LEMMA GotAppend ==
  ASSUME IInv, NEW n \in Replies, received' = Append(received, n)
  PROVE  Got' = [Got EXCEPT ![ThisConn] = Append(@, ReplyEvent(n))]
<1> DEFINE events == [i \in 1..Len(received) |-> ReplyEvent(received[i])]
<1>1. received \in Seq(Replies)
  BY DEF IInv, TypeOK
<1>2. /\ Len(received') = Len(received) + 1
      /\ \A i \in 1..Len(received) : received'[i] = received[i]
      /\ received'[Len(received) + 1] = n
      /\ Len(received) \in Nat
  BY <1>1
<1>3. events \in Seq({ReplyEvent(m) : m \in Replies}) /\ Len(events) = Len(received)
  BY <1>1
<1>4. [i \in 1..Len(received') |-> ReplyEvent(received'[i])] = Append(events, ReplyEvent(n))
  <2>1. /\ DOMAIN Append(events, ReplyEvent(n)) = 1..(Len(received) + 1)
        /\ \A i \in 1..Len(received) : Append(events, ReplyEvent(n))[i] = events[i]
        /\ Append(events, ReplyEvent(n))[Len(received) + 1] = ReplyEvent(n)
        /\ Append(events, ReplyEvent(n)) = [i \in 1..(Len(received) + 1) |->
                                              Append(events, ReplyEvent(n))[i]]
    BY <1>3
  <2>2. \A i \in 1..Len(received) : events[i] = ReplyEvent(received[i])
    OBVIOUS
  <2> HIDE DEF events
  <2> QED
    BY <1>2, <2>1, <2>2
<1> QED
  BY <1>4 DEF Got

(* Only BackendReplies offers, only WriteClient delivers.                  *)
LEMMA DeliverStep ==
  ASSUME IInv, WriteClient, client = "open"
  PROVE  \E e \in {ReplyEvent(n) : n \in Replies} : Datagram!Deliver(ThisConn, e)
<1>1. /\ down = "writing" /\ sock = "open"
      /\ received' = received \o buffer
      /\ UNCHANGED <<sock, reply>>
  BY DEF WriteClient, closeVars, outsideVars
<1>2. PICK n \in readIDs : buffer = <<n>> /\ n \notin Range(received)
  BY <1>1 DEF IInv, ReadInv
<1>3. n \in Replies /\ Published(n) /\ received \in Seq(Replies)
  BY DEF IInv, TypeOK, ReadInv
<1>4. received' = Append(received, n)
  BY <1>1, <1>2, <1>3, AppendReply
<1>5. Got' = [Got EXCEPT ![ThisConn] = Append(@, ReplyEvent(n))]
  BY <1>3, <1>4, GotAppend
<1>6. ReplyEvent(n) \notin Range(Got[ThisConn])
  <2>1. Got[ThisConn] = [i \in 1..Len(received) |-> ReplyEvent(received[i])]
    BY DEF Got
  <2>2. \A i \in 1..Len(received) : received[i] # n
    BY <1>2, <1>3 DEF Range
  <2>3. \A m : ReplyEvent(m) = ReplyEvent(n) => m = n
    BY DEF ReplyEvent
  <2> QED
    BY <2>1, <2>2, <2>3 DEF Range
<1>7. /\ ReplyEvent(n) \in Offers /\ ReplyEvent(n).key = ThisConn.key
      /\ ThisConn \notin Shut
      /\ Offers' = Offers /\ Shut' = Shut
  BY <1>1, <1>3 DEF Offers, Shut, Published, ReplyEvent, ThisConn
<1>8. Datagram!Deliver(ThisConn, ReplyEvent(n))
  BY <1>5, <1>6, <1>7 DEF Datagram!Deliver, Datagram!Range, Range, Offers, Got, Shut
<1> QED
  BY <1>3, <1>8

LEMMA OfferStep ==
  ASSUME IInv, NEW n \in Replies, NEW r \in Relays, NEW kept \in BOOLEAN,
         BackendReplies(n, r, kept)
  PROVE  Datagram!Offer(ReplyEvent(n))
<1>1. /\ reply' = [reply EXCEPT ![n] = [stamp |-> now, relay |-> r, kept |-> kept,
                                        answer |-> \E q \in Relays : log[q] # <<>>]]
      /\ UNCHANGED <<received, sock>>
  BY DEF BackendReplies, downVars, closeVars
<1>2. reply'[n] # Unsent
  BY NewReplyInFilter DEF Published
<1>3. \A m \in Replies : Published(m)' <=> (m = n \/ Published(m))
  BY <1>1, <1>2 DEF Published, IInv, TypeOK
<1>4. Offers' = Offers \cup {ReplyEvent(n)}
  BY <1>3 DEF Offers
<1>5. Got' = Got /\ Shut' = Shut
  BY <1>1 DEF Got, Shut
<1> QED
  BY <1>4, <1>5 DEF Datagram!Offer, Offers, Got, Shut

(* Every other step leaves the replies alone and at most closes.           *)
LEMMA CloseStep ==
  ASSUME UNCHANGED <<reply, received>>, sock' = sock \/ sock' = "closed"
  PROVE  Datagram!Close(ThisConn) \/ UNCHANGED Datagram!datagramVars
<1>1. Offers' = Offers /\ Got' = Got
  BY DEF Offers, Got, Published
<1>2. CASE sock' = sock
  BY <1>1, <1>2 DEF Datagram!datagramVars, Offers, Got, Shut
<1>3. CASE sock' = "closed"
  <2>1. Shut' = Shut \cup {ThisConn}
    BY <1>3 DEF Shut
  <2> QED
    BY <1>1, <2>1 DEF Datagram!Close, Offers, Got, Shut
<1> QED
  BY <1>2, <1>3

LEMMA DatagramStep ==
  IInv /\ [Next]_vars => [Datagram!DatagramNext]_(Datagram!datagramVars)
<1> SUFFICES ASSUME IInv, [Next]_vars
             PROVE  [Datagram!DatagramNext]_(Datagram!datagramVars)
  OBVIOUS
<1> USE DEF upVars, downVars, helperVars, closeVars, outsideVars
<1>1. ASSUME UNCHANGED <<reply, received>>, sock' = sock \/ sock' = "closed"
      PROVE  [Datagram!DatagramNext]_(Datagram!datagramVars)
  BY <1>1, CloseStep DEF Datagram!DatagramNext
<1>2. CASE Main
  BY <1>1, <1>2 DEF Main, DialPublishes, DialSkips, DialFails, ReplySuccess, ReplyFails, Return
<1>3. CASE Up
  BY <1>1, <1>3 DEF Up, WriteStarts, WritePublishes, WriteFails, WriteReturns, ReadClientEnds,
                    CloseBoth
<1>4. CASE WriteClient
  <2>1. CASE client = "open"
    BY <1>4, <2>1, DeliverStep DEF Datagram!DatagramNext
  <2>2. CASE client # "open"
    BY <1>1, <1>4, <2>2 DEF WriteClient
  <2> QED
    BY <2>1, <2>2
<1>5. CASE ReadCancelled \/ WriteClientFails \/ \E n \in Replies : Read(n)
  BY <1>1, <1>5 DEF ReadCancelled, WriteClientFails, Read, CloseBoth
<1>6. CASE Helper \/ ClientCloses \/ Tick \/ \E r \in Relays : SubscribesAt(r)
  BY <1>1, <1>6 DEF Helper, HelperSelects, HelperCancelled, HelperTakes, ClientCloses, Tick,
                    SubscribesAt
<1>7. CASE \E n \in Replies, r \in Relays, kept \in BOOLEAN : BackendReplies(n, r, kept)
  BY <1>7, OfferStep DEF Datagram!DatagramNext
<1>8. CASE UNCHANGED vars
  BY <1>1, <1>8 DEF vars
<1> QED
  BY <1>2, <1>3, <1>4, <1>5, <1>6, <1>7, <1>8 DEF Next, Down, Outside

(* The client has the datagram service of Datagrams: each reply at most    *)
(* once, none before it was published and none after the close.            *)
THEOREM ImplementsDatagramsHolds == SafetySpec => ImplementsDatagrams
<1>1. Init => Datagram!DatagramInit
  <2> SUFFICES ASSUME Init
               PROVE  Datagram!DatagramInit
    OBVIOUS
  <2>1. Offers = {} /\ Shut = {}
    BY DEF Init, Offers, Shut, Published
  <2>2. Got = [c \in {ThisConn} |-> <<>>]
    BY DEF Init, Got
  <2> QED
    BY <2>1, <2>2 DEF Datagram!DatagramInit, Offers, Got, Shut
<1> QED
  BY <1>1, DatagramStep, Invariance, PTL
     DEF SafetySpec, ImplementsDatagrams, Datagram!DatagramSpec
=============================================================================
